--------------------------- MODULE WebControlsProofs ---------------------------
(****************************************************************************)
(* Theorems about the control region, image transfer, the conversation with   *)
(* the assistant and what the page remembers, laid out as those of            *)
(* WebInputProofs; and, from all of them, the properties of MCWebControls.    *)
(****************************************************************************)
EXTENDS WebInputProofs, Sequences, SequenceTheorems

-------------------------------------------------------------------------------
(******************************************************************************)
(* Control region.                                                            *)
(* s1, s2, ... are its dev, page, force, stale, selecting, calls,             *)
(* regionClicks.                                                              *)
(******************************************************************************)

Modes == {"off", "auto", "manual"}
Fields == {"mode", "resolutions", "resolution", "regions", "region"}
Reads == {"mount", "load", "loaded"}

\* What a call may send: values of fields of the configuration.
PatchOK(p) ==
  /\ DOMAIN p \subseteq Fields
  /\ "mode" \in DOMAIN p => p.mode \in Modes
  /\ "resolutions" \in DOMAIN p => p.resolutions \subseteq Resolutions
  /\ "resolution" \in DOMAIN p => p.resolution \in Resolutions \union {Region!None}
  /\ "regions" \in DOMAIN p => p.regions \subseteq Regions
  /\ "region" \in DOMAIN p => p.region \in Region!Keys \union {Region!None}

\* What the handler of an answer takes from the call it answers.
TakenOK(c) ==
  /\ c.kind \in Reads => c.patch = <<>> /\ (c.answer = "ok" => c.got \in Region!Configs)
  /\ c.kind = "mode" => c.arg \in Modes
  /\ c.kind = "resolution" => c.arg \in Resolutions \union {Region!None}
  /\ c.kind = "region" => c.arg \in Region!Keys \union {Region!None} /\ c.patch.regions \subseteq Regions
  /\ c.kind = "area" => c.arg \in Regions /\ c.patch.region = RegionKey[c.arg] /\ c.arg \in c.patch.regions
  /\ c.kind \in {"added", "deleted"} => c.patch.resolutions \subseteq Resolutions
  /\ c.kind \in {"regions", "area"} => c.patch.regions \subseteq Regions

CallOK(c) ==
  /\ DOMAIN c = {"kind", "arg", "patch", "answer", "got"}
  /\ PatchOK(c.patch)
  /\ TakenOK(c)

RegionTypes ==
  /\ s1 \in Region!Configs /\ s2 \in Region!Configs
  /\ s3 \in Regions \union {Region!None, "fit", "auto"}
  /\ s4 \in BOOLEAN /\ s5 \in BOOLEAN
  /\ \A c \in s6 : CallOK(c)

CallsFit == IsFiniteSet(s6) /\ Cardinality(s6) <= RegionCalls + 1

RegionInv == RegionTypes /\ Region!SavedConfigIsValid /\ Region!ForceIsSelected

(* Configurations *)

\* The fields of a configuration, and what has them is one.
LEMMA ConfigFields ==
  ASSUME NEW p \in Region!Configs
  PROVE  /\ DOMAIN p = Fields
         /\ p.mode \in Modes /\ p.resolutions \subseteq Resolutions
         /\ p.resolution \in Resolutions \union {Region!None}
         /\ p.regions \subseteq Regions /\ p.region \in Region!Keys \union {Region!None}
  BY DEF Region!Configs, Fields, Modes

\* A patch of a configuration is one.
LEMMA PatchedIsConfig ==
  ASSUME NEW p, PatchOK(p), NEW d \in Region!Configs
  PROVE  Region!Patched(d, p) \in Region!Configs
  <1> DEFINE q == Region!Patched(d, p)
  <1>1. q = [x \in Fields |-> IF x \in DOMAIN p THEN p[x] ELSE d[x]]
    BY ConfigFields DEF Region!Patched
  <1>2. /\ q.mode \in Modes /\ q.resolutions \subseteq Resolutions
        /\ q.resolution \in Resolutions \union {Region!None}
        /\ q.regions \subseteq Regions /\ q.region \in Region!Keys \union {Region!None}
    BY <1>1, ConfigFields DEF PatchOK, Fields
  <1> HIDE DEF q
  <1>3. q = [mode |-> q.mode, resolutions |-> q.resolutions, resolution |-> q.resolution,
             regions |-> q.regions, region |-> q.region]
    BY <1>1 DEF Fields
  <1>4. q \in Region!Configs
    BY <1>2, <1>3 DEF Region!Configs, Modes
  <1> QED
    BY <1>4 DEF q

\* What a key is found for has it, and is in the list.
LEMMA FindFits ==
  ASSUME NEW list \in SUBSET Regions, NEW key
  PROVE  \/ Region!Find(list, key) = Region!None
         \/ Region!Find(list, key) \in list /\ RegionKey[Region!Find(list, key)] = key
  BY DEF Region!Find, Region!KeysOf

\* What the effects derive from a selection fits it.
LEMMA DerivedFits ==
  ASSUME NEW p \in Region!Configs
  PROVE  \/ Region!Derived(p) = Region!None
         \/ /\ Region!Derived(p) \in p.regions /\ Region!Derived(p) \in Regions
            /\ RegionKey[Region!Derived(p)] = p.region
         \/ Region!Derived(p) = "fit" /\ p.region = Region!None /\ p.resolution # Region!None
  <1>1. p.regions \in SUBSET Regions
    BY ConfigFields
  <1> QED
    BY <1>1, FindFits DEF Region!Derived

\* The handler of c may make the page p and the region f before the effects run.
Fits(c, p, f) ==
  /\ p \in Region!Configs
  /\ f \in Regions \union {Region!None, "fit", "auto"}
  /\ \/ c.kind \in {"mount", "load", "loaded", "regions", "area"}
     \/ p.regions = s2.regions
  /\ \/ f = Region!None
     \/ f = s3
     \/ f \in Regions /\ RegionKey[f] = p.region /\ (f \in p.regions \/ Region!Overtaken(c))

\* Once the effects have run, the region in force has the selected size.
LEMMA CommitFits ==
  ASSUME s2 \in Region!Configs, s3 \in Regions \union {Region!None, "fit", "auto"}, s4 \in BOOLEAN,
         Region!ForceIsSelected,
         NEW c, NEW p, NEW f, Fits(c, p, f), Region!Commit(c, p, f)
  PROVE  /\ s2' \in Region!Configs /\ s3' \in Regions \union {Region!None, "fit", "auto"}
         /\ s4' \in BOOLEAN
         /\ Region!ForceIsSelected'
  <1> DEFINE runs == Region!EffectRuns(c, p)
             overtaken == Region!Overtaken(c)
  <1>1. p \in Region!Configs /\ s2' = p
    BY DEF Fits, Region!Commit
  <1>2. s3' = IF runs THEN Region!Derived(p)
              ELSE IF p.mode # s2.mode /\ p.mode # "auto" THEN Region!None ELSE f
    BY DEF Region!Commit
  <1>3. s4' = (~runs /\ (s4 \/ overtaken))
    BY DEF Region!Commit
  <1>4. /\ runs => p.mode = "manual"
        /\ p.mode = "manual" /\ ~runs =>
             /\ p.mode = s2.mode /\ p.resolution = s2.resolution /\ p.region = s2.region
             /\ ~(c.kind \in {"mount", "load", "loaded", "regions", "area"})
    BY DEF Region!EffectRuns
  <1>5. /\ f \in Regions \union {Region!None, "fit", "auto"}
        /\ p.mode = "manual" /\ ~runs => p.regions = s2.regions
        /\ \/ f = Region!None
           \/ f = s3
           \/ f \in Regions /\ RegionKey[f] = p.region /\ (f \in p.regions \/ overtaken)
    BY <1>4 DEF Fits
  <1> HIDE DEF runs, overtaken
  <1>6. s4' \in BOOLEAN /\ (~runs => (s4' <=> (s4 \/ overtaken)))
    BY <1>3, Zenon
  <1>7. CASE runs
    BY <1>1, <1>2, <1>4, <1>6, <1>7, DerivedFits DEF Region!ForceIsSelected
  <1>8. CASE p.mode = "manual" /\ ~runs
    <2>1. s2.mode = "manual" /\ s2' = p /\ s3' = f
      BY <1>1, <1>2, <1>4, <1>8
    <2>2. \/ s3 = Region!None
          \/ s3 = "fit" /\ s2.region = Region!None /\ s2.resolution # Region!None
          \/ s3 \in Regions /\ RegionKey[s3] = s2.region /\ (s4 \/ s3 \in s2.regions)
      BY <2>1, Zenon DEF Region!ForceIsSelected
    <2>3. f = s3 => \/ f = Region!None
                    \/ f = "fit" /\ p.region = Region!None /\ p.resolution # Region!None
                    \/ f \in Regions /\ RegionKey[f] = p.region /\ (s4 \/ f \in p.regions)
      BY <1>4, <1>5, <1>8, <2>2, Zenon
    <2>4. s4 \/ overtaken => s4'
      BY <1>6, <1>8, Zenon
    <2>5. \/ f = Region!None
          \/ f = "fit" /\ p.region = Region!None /\ p.resolution # Region!None
          \/ f \in Regions /\ RegionKey[f] = p.region /\ (s4' \/ f \in p.regions)
      BY <1>5, <2>3, <2>4, Zenon
    <2> QED
      BY <1>1, <1>5, <1>6, <2>1, <2>5 DEF Region!ForceIsSelected
  <1>9. CASE p.mode # "manual"
    BY <1>1, <1>2, <1>4, <1>5, <1>6, <1>9 DEF Region!ForceIsSelected
  <1> QED
    BY <1>7, <1>8, <1>9

(* Calls *)

\* A new call sends the fields it is made of.
LEMMA AskKeeps ==
  ASSUME RegionInv, NEW kind, NEW arg, NEW patch, CallOK(Region!Call(kind, arg, patch)),
         Region!Ask(kind, arg, patch), UNCHANGED s5
  PROVE  RegionInv'
  <1>1. UNCHANGED <<s1, s2, s3, s4, s5>> /\ s6' = s6 \union {Region!Call(kind, arg, patch)}
    BY DEF Region!Ask
  <1>2. RegionTypes'
    BY <1>1 DEF RegionInv, RegionTypes
  <1> QED
    BY <1>1, <1>2 DEF RegionInv, Region!SavedConfigIsValid, Region!ForceIsSelected

\* A call that only reads.
LEMMA ReadIsCall ==
  ASSUME NEW kind \in Reads
  PROVE  CallOK(Region!Call(kind, Region!None, <<>>))
  <1>1. DOMAIN <<>> = {}
    OBVIOUS
  <1>2. PatchOK(<<>>)
    BY <1>1 DEF PatchOK
  <1> QED
    BY <1>2 DEF CallOK, Region!Call, TakenOK, Reads

\* The user asks for a change.
LEMMA UserKeeps ==
  ASSUME RegionInv,
         \/ \E m \in {"off", "auto", "manual"} : Region!UpdateMode(m)
         \/ \E k \in Resolutions \union {Region!None} : Region!ApplyResolution(k)
         \/ \E k \in Resolutions : Region!AddResolution(k) \/ Region!DeleteResolution(k)
         \/ \E k \in Region!Keys \union {Region!None} : Region!ApplyRegion(k)
         \/ \E k \in Region!Keys : Region!DeleteRegion(k)
         \/ \E r \in Regions : Region!Confirm(r)
         \/ Region!OpenMenu
  PROVE  RegionInv'
  <1> USE DEF CallOK, Region!Call, TakenOK, PatchOK, Fields, Reads
  <1>0. /\ s2.resolutions \subseteq Resolutions /\ s2.resolution \in Resolutions \union {Region!None}
        /\ s2.regions \subseteq Regions /\ s2.region \in Region!Keys \union {Region!None}
    BY ConfigFields DEF RegionInv, RegionTypes
  <1>1. ASSUME NEW m \in {"off", "auto", "manual"}, Region!UpdateMode(m) PROVE RegionInv'
    <2>1. CallOK(Region!Call(IF m = "manual" THEN "manual" ELSE "mode", m, [mode |-> m]))
      BY DEF Modes
    <2> QED
      BY <1>1, <2>1, AskKeeps DEF Region!UpdateMode
  <1>2. ASSUME NEW k \in Resolutions \union {Region!None}, Region!ApplyResolution(k) PROVE RegionInv'
    <2>1. CallOK(Region!Call("resolution", k, [mode |-> "manual", resolution |-> k, region |-> Region!None]))
      BY DEF Modes
    <2> QED
      BY <1>2, <2>1, AskKeeps DEF Region!ApplyResolution
  <1>3. ASSUME NEW kind \in {"added", "deleted"}, NEW next \in SUBSET Resolutions,
               NEW chosen \in Resolutions \union {Region!None},
               Region!SaveResolutions(kind, next, chosen), UNCHANGED s5
        PROVE  RegionInv'
    <2> DEFINE patch == [mode |-> "manual", resolutions |-> next, resolution |-> chosen,
                         region |-> IF chosen # Region!None THEN Region!None ELSE s2.region]
    <2>1. CallOK(Region!Call(kind, chosen, patch))
      BY <1>0 DEF Modes
    <2>2. Region!Ask(kind, chosen, patch)
      BY <1>3 DEF Region!SaveResolutions
    <2> QED
      BY <1>3, <2>1, <2>2, AskKeeps
  <1>4. ASSUME NEW k \in Resolutions, Region!AddResolution(k) PROVE RegionInv'
    BY <1>0, <1>3, <1>4 DEF Region!AddResolution
  <1>5. ASSUME NEW k \in Resolutions, Region!DeleteResolution(k) PROVE RegionInv'
    BY <1>0, <1>3, <1>5 DEF Region!DeleteResolution
  <1>6. ASSUME NEW k \in Region!Keys \union {Region!None}, Region!ApplyRegion(k) PROVE RegionInv'
    <2>1. CallOK(Region!Call("region", k, [mode |-> "manual", regions |-> s2.regions, region |-> k,
                                    resolution |-> Region!None]))
      BY <1>0 DEF Modes
    <2> QED
      BY <1>6, <2>1, AskKeeps DEF Region!ApplyRegion
  <1>7. ASSUME NEW k \in Region!Keys, Region!DeleteRegion(k) PROVE RegionInv'
    <2> DEFINE next == IF s2.region = k THEN Region!None ELSE s2.region
               patch == [mode |-> "manual", regions |-> Region!Without(s2.regions, k), region |-> next,
                         resolution |-> s2.resolution]
    <2>0. Region!Without(s2.regions, k) \subseteq Regions
      BY <1>0 DEF Region!Without
    <2>1. CallOK(Region!Call("regions", next, patch))
      BY <1>0, <2>0 DEF Modes
    <2>2. Region!Ask("regions", next, patch) /\ UNCHANGED s5
      BY <1>7 DEF Region!DeleteRegion
    <2> QED
      BY <2>1, <2>2, AskKeeps
  <1>8. ASSUME NEW r \in Regions, Region!Confirm(r) PROVE RegionInv'
    <2> DEFINE next == Region!Without(s2.regions, RegionKey[r]) \union {r}
               patch == [mode |-> "manual", regions |-> next, region |-> RegionKey[r],
                         resolution |-> Region!None]
    <2>0. next \subseteq Regions /\ r \in next /\ RegionKey[r] \in Region!Keys
      BY <1>0 DEF Region!Without, Region!Keys, Region!KeysOf
    <2>2. Region!Ask("area", r, patch) /\ UNCHANGED s5
      BY <1>8 DEF Region!Confirm
    <2> HIDE DEF next
    <2>1. CallOK(Region!Call("area", r, patch))
      BY <2>0 DEF Modes
    <2> QED
      BY <2>1, <2>2, AskKeeps
  <1>9. CASE Region!OpenMenu
    BY <1>9, ReadIsCall, AskKeeps DEF Region!OpenMenu
  <1> QED
    BY <1>1, <1>2, <1>4, <1>5, <1>6, <1>7, <1>8, <1>9

\* The device serves a call.
LEMMA ServeKeeps ==
  ASSUME RegionInv, NEW c \in s6, Region!Serve(c)
  PROVE  RegionInv'
  <1> DEFINE next == Region!Patched(s1, c.patch)
  <1>1. UNCHANGED <<s2, s3, s4, s5>> /\ s1' = IF Region!Valid(next) THEN next ELSE s1
    BY DEF Region!Serve
  <1>2. CallOK(c) /\ s1 \in Region!Configs
    BY DEF RegionInv, RegionTypes
  <1>3. next \in Region!Configs
    BY <1>2, PatchedIsConfig DEF CallOK
  <1> HIDE DEF next
  <1>4. s1' \in Region!Configs
    BY <1>1, <1>2, <1>3
  <1>5. PICK a : s6' = (s6 \ {c}) \union
                  {[c EXCEPT !.answer = a, !.got = IF a = "ok" /\ c.patch = <<>> THEN s1' ELSE <<>>]}
    BY DEF Region!Serve
  <1> DEFINE got == IF a = "ok" /\ c.patch = <<>> THEN s1' ELSE <<>>
             answered == [c EXCEPT !.answer = a, !.got = got]
  <1>6. /\ DOMAIN answered = DOMAIN c
        /\ answered.kind = c.kind /\ answered.arg = c.arg /\ answered.patch = c.patch
        /\ answered.answer = a /\ answered.got = got
    BY <1>2 DEF CallOK
  <1>7. a = "ok" /\ c.patch = <<>> => got \in Region!Configs
    BY <1>4
  <1> HIDE DEF got, answered
  <1>8. CallOK(answered)
    BY <1>2, <1>6, <1>7 DEF CallOK, TakenOK
  <1>9. RegionTypes'
    BY <1>1, <1>4, <1>5, <1>8 DEF RegionInv, RegionTypes, got, answered
  <1>10. Region!SavedConfigIsValid'
    BY <1>1, <1>2, ConfigFields DEF Region!Valid, RegionInv, Region!SavedConfigIsValid
  <1> QED
    BY <1>1, <1>9, <1>10 DEF RegionInv, Region!ForceIsSelected

\* A handler makes the page fit what it got.
LEMMA HandledFits ==
  ASSUME RegionInv, NEW c \in s6, c.answer = "ok", Region!Handled(c)
  PROVE  \E p, f : Fits(c, p, f) /\ Region!Commit(c, p, f)
  <1>0. CallOK(c) /\ s2 \in Region!Configs /\ s3 \in Regions \union {Region!None, "fit", "auto"}
    BY DEF RegionInv, RegionTypes
  <1>1. c.kind \in Reads => c.got \in Region!Configs /\ Region!Loaded(c.got) \in Region!Configs /\ Region!Loaded(c.got).region = c.got.region
    BY <1>0 DEF CallOK, TakenOK, Region!Loaded, Region!Configs
  <1>2. CASE c.kind = "load" /\ Region!Commit(c, Region!Loaded(c.got), s3)
    BY <1>0, <1>1, <1>2 DEF Fits, Reads
  <1>3. CASE /\ c.kind = "mount"
             /\ Region!Commit(c, [c.got EXCEPT !.resolutions = s2.resolutions],
                       IF c.got.mode = "manual" THEN Region!Derived([c.got EXCEPT !.resolution = Region!None]) ELSE Region!None)
    <2> DEFINE p == [c.got EXCEPT !.resolutions = s2.resolutions]
               q == [c.got EXCEPT !.resolution = Region!None]
    <2>1. p \in Region!Configs /\ q \in Region!Configs /\ p.region = c.got.region /\ q.region = c.got.region /\ q.resolution = Region!None
      BY <1>0, <1>1, <1>3 DEF Region!Configs, Reads
    <2>2. p.regions = q.regions /\ q.regions \in SUBSET Regions
      BY <1>1, <1>3, <2>1, ConfigFields DEF Reads, Region!Configs
    <2> HIDE DEF p, q
    <2>3. \/ Region!Derived(q) = Region!None
          \/ Region!Derived(q) \in p.regions /\ Region!Derived(q) \in Regions /\ RegionKey[Region!Derived(q)] = p.region
      BY <2>1, <2>2, DerivedFits
    <2>4. Fits(c, p, IF c.got.mode = "manual" THEN Region!Derived(q) ELSE Region!None)
      BY <1>3, <2>1, <2>3 DEF Fits
    <2> QED
      BY <1>3, <2>4 DEF p, q
  <1>4. CASE c.kind = "mode" /\ Region!Commit(c, [s2 EXCEPT !.mode = c.arg], Region!None)
    <2>1. [s2 EXCEPT !.mode = c.arg] \in Region!Configs /\ [s2 EXCEPT !.mode = c.arg].regions = s2.regions
      BY <1>0, <1>4 DEF CallOK, TakenOK, Region!Configs, Modes
    <2> QED
      BY <1>4, <2>1 DEF Fits
  <1>5. CASE /\ c.kind = "loaded"
             /\ Region!Commit(c, Region!Loaded(c.got), IF c.got.resolution # Region!None THEN Region!None ELSE Region!Derived(c.got))
    <2>1. /\ c.got \in Region!Configs /\ Region!Loaded(c.got) \in Region!Configs
          /\ Region!Loaded(c.got).region = c.got.region /\ Region!Loaded(c.got).regions = c.got.regions
      BY <1>1, <1>5 DEF Reads, Region!Loaded, Region!Configs
    <2>2. c.got.resolution = Region!None =>
            \/ Region!Derived(c.got) = Region!None
            \/ /\ Region!Derived(c.got) \in c.got.regions /\ Region!Derived(c.got) \in Regions
               /\ RegionKey[Region!Derived(c.got)] = c.got.region
      BY <2>1, DerivedFits
    <2>3. Fits(c, Region!Loaded(c.got), IF c.got.resolution # Region!None THEN Region!None ELSE Region!Derived(c.got))
      BY <1>5, <2>1, <2>2 DEF Fits
    <2> QED
      BY <1>5, <2>3
  <1>6. CASE c.kind = "manual" /\ Region!Commit(c, [s2 EXCEPT !.mode = "manual"], s3)
    <2>1. [s2 EXCEPT !.mode = "manual"] \in Region!Configs /\ [s2 EXCEPT !.mode = "manual"].regions = s2.regions
      BY <1>0 DEF Region!Configs
    <2> QED
      BY <1>0, <1>6, <2>1 DEF Fits
  <1>7. CASE /\ c.kind = "resolution"
             /\ Region!Commit(c, [s2 EXCEPT !.resolution = c.arg, !.region = Region!None], IF c.arg = Region!None THEN Region!None ELSE s3)
    <2>1. /\ [s2 EXCEPT !.resolution = c.arg, !.region = Region!None] \in Region!Configs
          /\ [s2 EXCEPT !.resolution = c.arg, !.region = Region!None].regions = s2.regions
      BY <1>0, <1>7 DEF CallOK, TakenOK, Region!Configs
    <2>2. Fits(c, [s2 EXCEPT !.resolution = c.arg, !.region = Region!None], IF c.arg = Region!None THEN Region!None ELSE s3)
      BY <1>0, <2>1 DEF Fits
    <2> QED
      BY <1>7, <2>2
  <1>8. CASE /\ c.kind = "region"
             /\ Region!Commit(c, [s2 EXCEPT !.region = c.arg, !.resolution = Region!None], Region!Find(c.patch.regions, c.arg))
    <2> DEFINE p == [s2 EXCEPT !.region = c.arg, !.resolution = Region!None]
               f == Region!Find(c.patch.regions, c.arg)
    <2>1. c.arg \in Region!Keys \union {Region!None} /\ c.patch.regions \in SUBSET Regions
      BY <1>0, <1>8 DEF CallOK, TakenOK
    <2>2. p \in Region!Configs /\ p.region = c.arg /\ p.regions = s2.regions
      BY <1>0, <2>1 DEF Region!Configs
    <2>3. f = Region!None \/ (f \in c.patch.regions /\ RegionKey[f] = c.arg)
      BY <2>1, FindFits
    <2>4. c.patch.regions = s2.regions \/ Region!Overtaken(c)
      BY <1>8 DEF Region!Overtaken
    <2> HIDE DEF p, f
    <2>5. Fits(c, p, f)
      BY <2>1, <2>2, <2>3, <2>4 DEF Fits
    <2> QED
      BY <1>8, <2>5 DEF p, f
  <1>9. CASE c.kind = "added" /\ Region!Commit(c, [s2 EXCEPT !.resolutions = c.patch.resolutions], s3)
    <2>1. /\ [s2 EXCEPT !.resolutions = c.patch.resolutions] \in Region!Configs
          /\ [s2 EXCEPT !.resolutions = c.patch.resolutions].regions = s2.regions
      BY <1>0, <1>9 DEF CallOK, TakenOK, Region!Configs
    <2> QED
      BY <1>0, <1>9, <2>1 DEF Fits
  <1>10. CASE /\ c.kind = "deleted"
              /\ Region!Commit(c, [s2 EXCEPT !.resolutions = c.patch.resolutions, !.resolution = IF c.arg = Region!None THEN Region!None ELSE @],
                        IF c.arg = Region!None THEN Region!None ELSE s3)
    <2> DEFINE p == [s2 EXCEPT !.resolutions = c.patch.resolutions, !.resolution = IF c.arg = Region!None THEN Region!None ELSE @]
    <2>1. p \in Region!Configs /\ p.regions = s2.regions
      BY <1>0, <1>10 DEF CallOK, TakenOK, Region!Configs
    <2> HIDE DEF p
    <2>2. Fits(c, p, IF c.arg = Region!None THEN Region!None ELSE s3)
      BY <1>0, <2>1 DEF Fits
    <2> QED
      BY <1>10, <2>2 DEF p
  <1>11. CASE /\ c.kind = "regions"
              /\ Region!Commit(c, [s2 EXCEPT !.regions = c.patch.regions, !.region = IF c.arg = Region!None THEN Region!None ELSE @],
                        IF c.arg = Region!None THEN Region!None ELSE s3)
    <2> DEFINE p == [s2 EXCEPT !.regions = c.patch.regions, !.region = IF c.arg = Region!None THEN Region!None ELSE @]
    <2>1. p \in Region!Configs
      BY <1>0, <1>11 DEF CallOK, TakenOK, Region!Configs
    <2> HIDE DEF p
    <2>2. Fits(c, p, IF c.arg = Region!None THEN Region!None ELSE s3)
      BY <1>0, <1>11, <2>1 DEF Fits
    <2> QED
      BY <1>11, <2>2 DEF p
  <1>12. CASE /\ c.kind = "area"
              /\ Region!Commit(c, [s2 EXCEPT !.regions = c.patch.regions, !.region = c.patch.region, !.resolution = Region!None], c.arg)
    <2> DEFINE p == [s2 EXCEPT !.regions = c.patch.regions, !.region = c.patch.region, !.resolution = Region!None]
    <2>1. /\ c.arg \in Regions /\ c.patch.region = RegionKey[c.arg] /\ c.arg \in c.patch.regions
          /\ c.patch.regions \subseteq Regions
      BY <1>0, <1>12 DEF CallOK, TakenOK
    <2>2. c.patch.region \in Region!Keys
      BY <2>1 DEF Region!Keys, Region!KeysOf
    <2>3. p \in Region!Configs /\ p.region = RegionKey[c.arg] /\ c.arg \in p.regions
      BY <1>0, <2>1, <2>2 DEF Region!Configs
    <2> HIDE DEF p
    <2>4. Fits(c, p, c.arg)
      BY <1>12, <2>1, <2>3 DEF Fits
    <2> QED
      BY <1>12, <2>4 DEF p
  <1> QED
    BY <1>2, <1>3, <1>4, <1>5, <1>6, <1>7, <1>8, <1>9, <1>10, <1>11, <1>12 DEF Region!Handled

\* The page handles an answer.
LEMMA AnsweredKeeps ==
  ASSUME RegionInv, NEW c \in s6, Region!Answered(c)
  PROVE  RegionInv'
  <1>1. /\ s1' = s1 /\ s5' \in BOOLEAN
        /\ s6' \subseteq s6 \union {Region!Call("loaded", Region!None, <<>>)}
    BY DEF Region!Answered, RegionInv, RegionTypes
  <1>2. s2 \in Region!Configs /\ s3 \in Regions \union {Region!None, "fit", "auto"} /\ s4 \in BOOLEAN
        /\ Region!ForceIsSelected
    BY DEF RegionInv, RegionTypes
  <1>3. (\E p, f : Fits(c, p, f) /\ Region!Commit(c, p, f)) \/ UNCHANGED <<s2, s3, s4>>
    <2>1. [Region!Nothing EXCEPT !.resolutions = s2.resolutions] \in Region!Configs
      BY <1>2 DEF Region!Nothing, Region!Configs
    <2>2. c.kind = "mount" => Fits(c, [Region!Nothing EXCEPT !.resolutions = s2.resolutions], Region!None)
      BY <2>1 DEF Fits
    <2> QED
      BY <2>2, HandledFits DEF Region!Answered
  <1>4. /\ s2' \in Region!Configs /\ s3' \in Regions \union {Region!None, "fit", "auto"} /\ s4' \in BOOLEAN
        /\ Region!ForceIsSelected'
    BY <1>2, <1>3, CommitFits DEF Region!ForceIsSelected
  <1>5. \A d \in s6' : CallOK(d)
    BY <1>1, ReadIsCall DEF RegionInv, RegionTypes, Reads
  <1> QED
    BY <1>1, <1>4, <1>5 DEF RegionInv, RegionTypes, Region!SavedConfigIsValid

\* The overlay and the timers.
LEMMA RestKeeps ==
  ASSUME RegionInv, Region!SelectArea \/ Region!CancelSelection \/ Region!Fit \/ Region!Detect \/ UNCHANGED Region!regionVars
  PROVE  RegionInv'
  <1>1. UNCHANGED <<s1, s2, s4, s6>> /\ s5' \in BOOLEAN
    BY DEF Region!SelectArea, Region!CancelSelection, Region!Fit, Region!Detect, Region!regionVars, RegionInv, RegionTypes
  <1>2. \/ s3' = s3
        \/ s3' = "fit" /\ s2.region = Region!None /\ s2.resolution # Region!None
        \/ s3' = "auto" /\ s2.mode = "auto"
    BY DEF Region!SelectArea, Region!CancelSelection, Region!Fit, Region!Detect, Region!regionVars
  <1> QED
    BY <1>1, <1>2 DEF RegionInv, RegionTypes, Region!SavedConfigIsValid, Region!ForceIsSelected

(* How many calls *)

\* The operators of the library are the same in the module of the region.
LEMMA SameCallCount == \A S : Region!Cardinality(S) = Cardinality(S)
  BY Zenon DEF Region!Cardinality, Cardinality

\* An answer frees the place of its call; a new call needs one.
LEMMA CallsKeepFitting ==
  ASSUME RegionCalls \in Nat, CallsFit, Region!RegionNext
  PROVE  CallsFit'
  <1>1. Cardinality(s6) \in Nat
    BY FS_CardinalityType DEF CallsFit
  <1>2. ASSUME NEW c \in s6, NEW d, s6' \subseteq (s6 \ {c}) \union {d}
        PROVE  CallsFit'
    <2> DEFINE S == (s6 \ {c}) \union {d}
    <2>1. IsFiniteSet(s6 \ {c}) /\ Cardinality(s6 \ {c}) = Cardinality(s6) - 1
      BY FS_RemoveElement DEF CallsFit
    <2>2. IsFiniteSet(S) /\ Cardinality(S) <= Cardinality(s6)
      <3> DEFINE T == s6 \ {c}
      <3>1. IsFiniteSet(T) /\ Cardinality(T) = Cardinality(s6) - 1
        BY <2>1
      <3> HIDE DEF T
      <3>2. /\ IsFiniteSet(T \union {d})
            /\ Cardinality(T \union {d}) = IF d \in T THEN Cardinality(T) ELSE Cardinality(T) + 1
        BY <3>1, FS_AddElement
      <3>3. Cardinality(T \union {d}) <= Cardinality(s6)
        BY <1>1, <3>1, <3>2
      <3> QED
        BY <3>2, <3>3 DEF T
    <2>3. s6' \in SUBSET S
      BY <1>2
    <2> HIDE DEF S
    <2>4. /\ IsFiniteSet(s6') /\ Cardinality(s6') <= Cardinality(S)
          /\ Cardinality(s6') \in Nat /\ Cardinality(S) \in Nat
      BY <2>2, <2>3, FS_Subset, FS_CardinalityType
    <2> QED
      BY <1>1, <2>2, <2>4 DEF CallsFit
  <1>3. ASSUME NEW d, s6' = s6 \union {d}, Cardinality(s6) < RegionCalls
        PROVE  CallsFit'
    <2>1. IsFiniteSet(s6') /\ Cardinality(s6') <= Cardinality(s6) + 1
      <3>1. /\ IsFiniteSet(s6 \union {d})
            /\ Cardinality(s6 \union {d}) =
                 IF d \in s6 THEN Cardinality(s6) ELSE Cardinality(s6) + 1
        BY FS_AddElement DEF CallsFit
      <3> QED
        BY <1>1, <1>3, <3>1
    <2>2. Cardinality(s6') \in Nat
      BY <2>1, FS_CardinalityType
    <2> QED
      BY <1>1, <1>3, <2>1, <2>2 DEF CallsFit
  <1>4. ASSUME NEW c \in s6, Region!Serve(c) \/ Region!Answered(c)
        PROVE  \E d : s6' \subseteq (s6 \ {c}) \union {d}
    BY <1>4 DEF Region!Serve, Region!Answered
  <1>a. \A k, a, p : Region!Ask(k, a, p) => \E d : s6' = s6 \union {d} /\ Cardinality(s6) < RegionCalls
    BY SameCallCount, Zenon DEF Region!Ask
  <1>5. \/ \E c \in s6 : Region!Serve(c) \/ Region!Answered(c)
        \/ \E d : s6' = s6 \union {d} /\ Cardinality(s6) < RegionCalls
        \/ s6' = s6
    BY <1>a, Zenon DEF Region!RegionNext, Region!UpdateMode, Region!ApplyResolution, Region!AddResolution, Region!DeleteResolution, Region!SaveResolutions,
           Region!ApplyRegion, Region!DeleteRegion, Region!Confirm, Region!OpenMenu,
           Region!SelectArea, Region!CancelSelection, Region!Fit, Region!Detect
  <1>6. s6' = s6 => CallsFit'
    BY DEF CallsFit
  <1> QED
    BY <1>2, <1>3, <1>4, <1>5, <1>6

(* The theorems *)

RegionKept == RegionInv /\ CallsFit

(* What is kept holds at the beginning. *)
LEMMA RegionStarts == Region!RegionInit => RegionKept
  <1> SUFFICES ASSUME Region!RegionInit PROVE RegionKept
    OBVIOUS
  <1>1. s1 \in Region!Configs /\ s2 \in Region!Configs
    BY DEF Region!RegionInit, Region!Nothing, Region!Configs
  <1>2. \A c \in s6 : CallOK(c)
    BY ReadIsCall DEF Region!RegionInit, Reads
  <1>3. s3 = Region!None /\ s4 = FALSE /\ s5 = FALSE
    BY DEF Region!RegionInit
  <1>4. Region!SavedConfigIsValid
    BY DEF Region!RegionInit, Region!SavedConfigIsValid, Region!Valid
  <1>5. RegionInv
    BY <1>1, <1>2, <1>3, <1>4 DEF RegionInv, RegionTypes, Region!ForceIsSelected
  <1>6. s6 = {Region!Call("mount", Region!None, <<>>)}
    BY DEF Region!RegionInit
  <1>7. IsFiniteSet(s6) /\ Cardinality(s6) = 1
    BY <1>6, FS_Singleton
  <1>8. CallsFit
    BY <1>7, BoundsAreNaturals DEF CallsFit
  <1> QED
    BY <1>5, <1>8 DEF RegionKept

(* Every call, answer and click keeps it. *)
LEMMA RegionKeeps ==
  ASSUME RegionKept, [Region!RegionNext]_(Region!regionVars)
  PROVE  RegionKept'
  <1>1. RegionInv'
    BY UserKeeps, ServeKeeps, AnsweredKeeps, RestKeeps DEF RegionKept, Region!RegionNext
  <1>2. CallsFit'
    BY CallsKeepFitting, BoundsAreNaturals DEF RegionKept, Region!regionVars, CallsFit
  <1> QED
    BY <1>1, <1>2 DEF RegionKept

\* The device never keeps a selection that is not in its lists, nor two of them,
\* whatever lists a call was made of and however calls overlap (validateSelections);
\* and in manual mode a region that the mouse is mapped to has the selected size, and is
\* the one listed unless a selection was overtaken, in whatever order the answers come (auto-region.tsx, manual-region.tsx,
\* original-resolution.tsx, input-region-overlay.tsx).
LEMMA RegionPromises ==
  RegionKept => Region!RegionTypeOK /\ Region!SavedConfigIsValid /\ Region!ForceIsSelected
  <1> SUFFICES ASSUME RegionKept
               PROVE  Region!RegionTypeOK /\ Region!SavedConfigIsValid /\ Region!ForceIsSelected
    OBVIOUS
  <1>1. Region!SavedConfigIsValid /\ Region!ForceIsSelected
    BY DEF RegionKept, RegionInv
  <1>2. Region!Cardinality(s6) <= RegionCalls + 1
    BY SameCallCount, Zenon DEF RegionKept, CallsFit
  <1>3. {s1, s2} \subseteq Region!Configs /\ s3 \in Regions \union {Region!None, "fit", "auto"}
    BY DEF RegionKept, RegionInv, RegionTypes
  <1>4. s4 \in BOOLEAN /\ s5 \in BOOLEAN
    BY Zenon DEF RegionKept, RegionInv, RegionTypes
  <1> QED
    BY <1>1, <1>2, <1>3, <1>4, Zenon DEF Region!RegionTypeOK

(* For any regions and resolutions, and any number of calls that overlap: the *)
(* device never keeps two regions of a size, a selection that is not in its   *)
(* lists, nor two of them (validateManualRegions, validateSelections), and in *)
(* manual mode a region that the mouse is mapped to has the selected size, in *)
(* whatever order the answers come; it is the one that the page lists under   *)
(* it, unless a selection was answered after its list had been replaced       *)
(* (manual-region.tsx, original-resolution.tsx).                              *)
THEOREM RegionHolds ==
  Region!RegionSpec =>
    [](Region!RegionTypeOK /\ Region!SavedConfigIsValid /\ Region!ForceIsSelected)
  BY RegionStarts, RegionKeeps, RegionPromises, PTL DEF Region!RegionSpec

-------------------------------------------------------------------------------
(******************************************************************************)
(* Image transfer.                                                            *)
(* s1, s2, ... are its job, status, shown, opened, polling, polls, remote,    *)
(* uploading, requests, cancelling, cancels, upload, arrived, early,          *)
(* transferClicks, transferFaults.                                            *)
(******************************************************************************)

Polls == [stale : BOOLEAN, seen : Transfer!Sightings \cup { Transfer!Unanswered }]
Requests == [current : BOOLEAN, at : { "sent", "accepted", "refused" }]

(* The types, as the steps keep them.                                       *)
DataTypes ==
    /\ s1 \in { "none", "remote", "upload" } /\ s2 \in Transfer!ServerStatuses
    /\ s3 \in Transfer!ServerStatuses \cup { "" }
    /\ s6 \subseteq Polls /\ s9 \subseteq Requests
    /\ s12 \in { "none", "sent", "running", "ok", "refused" }
FlagTypes ==
    /\ s4 \in BOOLEAN /\ s5 \in BOOLEAN
    /\ s7 \in BOOLEAN /\ s8 \in BOOLEAN
    /\ s13 \in BOOLEAN /\ s14 \in BOOLEAN
TransferTypes == DataTypes /\ FlagTypes

(* What the polls of this session have seen, those under way included.      *)
FreshOf(ps) == { p.seen : p \in { q \in ps : ~q.stale } }
FreshSeen == FreshOf(s6)
HasSeenSuccess == \E s \in FreshSeen : s.status = "success"

(* The popover waits for the download that was asked for last, as the       *)
(* property means it.                                                       *)
Watching == s7 /\ s3 = "in_progress" /\ ~s14

(* The status is the success of a transfer before that.                     *)
OldSuccess == s2 = "success" /\ ~s13

(* A transfer that runs has no success to show yet.                         *)
SuccessIsOver == s2 = "success" => s1 = "none"

(* Polling begins when no download request is left: none can start while    *)
(* polls are under way.                                                     *)
PollsComeAfter == ~s14 /\ (s5 \/ FreshSeen /= {}) => s9 = {}

(* Polls that see one after the other: an old success, or a download.       *)
OldSuccessIsAllSeen == OldSuccess => \A s \in FreshSeen : s.status /= "in_progress"
SeenSuccessIsAlone ==
    ~s14 /\ ~s13 /\ HasSeenSuccess =>
        /\ s1 /= "remote"
        /\ \A s \in FreshSeen : ~(s.status = "in_progress" /\ s.file = "remote")

(* While the popover waits, it is the request that is still to be answered, *)
(* or the old success is gone.                                              *)
AcceptedIsNew == OldSuccess => \A r \in s9 : ~(r.current /\ r.at = "accepted")
WaitsForAnswer == Watching /\ OldSuccess => \E r \in s9 : r.current
WatchedIsNew == Watching /\ HasSeenSuccess => s13

TransferInv ==
    /\ TransferTypes
    /\ SuccessIsOver
    /\ PollsComeAfter
    /\ OldSuccessIsAllSeen
    /\ SeenSuccessIsAlone
    /\ AcceptedIsNew
    /\ WaitsForAnswer
    /\ WatchedIsNew

(****************************************************************************)
(* The polls under way.                                                     *)
(****************************************************************************)

(* What the polls of this session have seen. *)
LEMMA Fresh ==
    ASSUME NEW ps, NEW s
    PROVE  s \in FreshOf(ps) <=> \E p \in ps : ~p.stale /\ s = p.seen
  BY DEF FreshOf

(* The polls of an earlier session are not of this one.                     *)
LEMMA OutdatedPolls ==
    ASSUME NEW ps, ps \subseteq Polls
    PROVE  /\ Transfer!Outdated(ps) \subseteq Polls
           /\ \A p \in Transfer!Outdated(ps) : p.stale
  BY DEF Transfer!Outdated, Polls

(* A new session has one poll, that has not been answered.                  *)
LEMMA AskedIsPoll == Transfer!Asked \in Polls /\ Transfer!Asked.seen = Transfer!Unanswered /\ Transfer!Unanswered.status = ""
  BY DEF Transfer!Asked, Polls, Transfer!Unanswered

(* When polling stops, nothing of this session is under way. *)
LEMMA StopsSeeing ==
    ASSUME s6 \subseteq Polls, NEW ps \in SUBSET s6, s6' = Transfer!Outdated(ps)
    PROVE  s6' \subseteq Polls /\ FreshSeen' = {}
  <1>1. s6' \subseteq Polls /\ \A p \in s6' : p.stale
    BY OutdatedPolls
  <1>2. \A s : s \notin FreshOf(s6')
    BY <1>1, Fresh
  <1> QED
    BY <1>1, <1>2 DEF FreshSeen

(* When it starts, one poll is. *)
LEMMA StartsSeeing ==
    ASSUME s6 \subseteq Polls, s6' = Transfer!Outdated(s6) \cup { Transfer!Asked }
    PROVE  s6' \subseteq Polls /\ FreshSeen' \subseteq { Transfer!Unanswered }
  <1>1. s6' \subseteq Polls /\ \A p \in s6' : p.stale \/ p = Transfer!Asked
    BY OutdatedPolls, AskedIsPoll
  <1>2. ASSUME NEW s \in FreshOf(s6')
        PROVE  s = Transfer!Unanswered
    <2>1. PICK p \in s6' : ~p.stale /\ s = p.seen
      BY Fresh
    <2> QED
      BY <1>1, <2>1, AskedIsPoll
  <1> QED
    BY <1>1, <1>2 DEF FreshSeen

(* An answer that is applied leaves the others. *)
LEMMA SeesLess ==
    ASSUME s6' \subseteq s6
    PROVE  FreshSeen' \subseteq FreshSeen
  <1>1. \A s \in FreshOf(s6') : s \in FreshOf(s6)
    BY Fresh
  <1> QED
    BY <1>1 DEF FreshSeen

(* An answer shows what the server knew when it was asked.                  *)
LEMMA ServedPoll ==
    ASSUME TransferTypes, NEW p, Transfer!ServeStatus(p)
    PROVE  /\ s6' \subseteq Polls
           /\ \/ FreshSeen' \subseteq FreshSeen
              \/ /\ FreshSeen /= {}
                 /\ FreshSeen' \subseteq FreshSeen \cup { [status |-> s2, file |-> s1] }
  <1> DEFINE now == [status |-> s2, file |-> s1]
             answered == [p EXCEPT !.seen = now]
  <1>1. p \in s6 /\ s6' = (s6 \ { p }) \cup { answered }
    BY DEF Transfer!ServeStatus
  <1>2. now \in Transfer!Sightings
    <2>1. s2 \in Transfer!ServerStatuses /\ s1 \in { "none", "remote", "upload" }
      BY DEF TransferTypes, DataTypes, FlagTypes
    <2>2. \E t \in Transfer!ServerStatuses, f \in { "none", "remote", "upload" } : now = [status |-> t, file |-> f]
      BY <2>1
    <2> QED
      BY <2>2 DEF Transfer!Sightings
  <1> HIDE DEF now
  <1>3. answered \in Polls /\ answered.stale = p.stale /\ answered.seen = now
    BY <1>1, <1>2 DEF Polls, TransferTypes, DataTypes, FlagTypes
  <1> HIDE DEF answered
  <1>4. s6' \subseteq Polls
    BY <1>1, <1>2, <1>3 DEF TransferTypes, DataTypes, FlagTypes
  <1>5. CASE p.stale
    <2>1. \A q \in s6' : ~q.stale => q \in s6
      BY <1>1, <1>3, <1>5
    <2>2. \A s \in FreshOf(s6') : s \in FreshOf(s6)
      BY <2>1, Fresh
    <2> QED
      BY <1>4, <2>2 DEF FreshSeen
  <1>6. CASE ~p.stale
    <2>1. p.seen \in FreshOf(s6)
      BY <1>1, <1>6, Fresh
    <2>2. \A s \in FreshOf(s6') : s \in FreshOf(s6) \/ s = now
      BY <1>1, <1>3, <1>6, Fresh
    <2> QED
      BY <1>4, <2>1, <2>2 DEF FreshSeen, now
  <1> QED
    BY <1>5, <1>6

(****************************************************************************)
(* The parts of the invariant, by what a step does.                         *)
(****************************************************************************)

(* Nothing but what is seen changes.                                        *)
LEMMA ViewKeeps ==
    ASSUME TransferInv, TransferTypes',
           UNCHANGED << s2, s1, s13, s14, s9 >>,
           s5' => s5,
           FreshSeen' \subseteq FreshSeen,
           Watching' => Watching \/ \E s \in FreshSeen : s.status = "in_progress" /\ s.file = "remote"
    PROVE  TransferInv'
  <1> USE DEF TransferInv
  <1>1. OldSuccess' = OldSuccess /\ (HasSeenSuccess' => HasSeenSuccess)
    BY DEF OldSuccess, HasSeenSuccess
  <1>2. SuccessIsOver' /\ PollsComeAfter' /\ AcceptedIsNew' /\ OldSuccessIsAllSeen'
    BY <1>1 DEF SuccessIsOver, PollsComeAfter, AcceptedIsNew, OldSuccessIsAllSeen
  <1>3. SeenSuccessIsAlone'
    BY <1>1 DEF SeenSuccessIsAlone
  <1>4. CASE Watching' => Watching
    BY <1>1, <1>2, <1>3, <1>4 DEF WaitsForAnswer, WatchedIsNew
  <1>5. CASE Watching' /\ ~Watching
    <2>1. PICK s \in FreshSeen : s.status = "in_progress" /\ s.file = "remote"
      BY <1>5
    <2>2. ~s14
      BY <1>5 DEF Watching
    <2>3. ~OldSuccess
      BY <2>1 DEF OldSuccessIsAllSeen
    <2>4. HasSeenSuccess => s13
      BY <2>1, <2>2 DEF SeenSuccessIsAlone
    <2> QED
      BY <1>1, <1>2, <1>3, <2>3, <2>4 DEF WaitsForAnswer, WatchedIsNew
  <1> QED
    BY <1>4, <1>5

(* A new session of polling begins, or none is left.                        *)
LEMMA SessionKeeps ==
    ASSUME TransferInv, TransferTypes',
           UNCHANGED << s2, s1, s13 >>,
           FreshSeen' \subseteq { Transfer!Unanswered },
           s14 => s14',
           ~s14' /\ (s5' \/ FreshSeen' /= {}) => s9' = {},
           s9' \subseteq s9,
           Watching' /\ OldSuccess => Watching /\ \A r \in s9 : r.current => r \in s9'
    PROVE  TransferInv'
  <1> USE DEF TransferInv
  <1>1. OldSuccess' = OldSuccess
    BY DEF OldSuccess
  <1>2. ~HasSeenSuccess'
    BY AskedIsPoll DEF HasSeenSuccess
  <1>3. OldSuccessIsAllSeen'
    BY AskedIsPoll DEF OldSuccessIsAllSeen
  <1>4. SuccessIsOver' /\ PollsComeAfter' /\ SeenSuccessIsAlone' /\ AcceptedIsNew' /\ WatchedIsNew'
    BY <1>1, <1>2 DEF SuccessIsOver, PollsComeAfter, SeenSuccessIsAlone, AcceptedIsNew, WatchedIsNew
  <1>5. WaitsForAnswer'
    BY <1>1 DEF WaitsForAnswer
  <1> QED
    BY <1>3, <1>4, <1>5

(* The server goes on with what it does: a success it reports is new, and   *)
(* only a request starts a download.                                        *)
LEMMA ServerKeeps ==
    ASSUME TransferInv, TransferTypes',
           UNCHANGED << s5, s6, s14, s7, s3 >>,
           SuccessIsOver',
           s13 => s13',
           OldSuccess' => /\ OldSuccess
                          /\ \A r \in s9' : r.current /\ r.at = "accepted" => r \in s9
                          /\ (\E r \in s9 : r.current) => \E r \in s9' : r.current,
           s9 = {} => s9' = {} /\ (s1' = "remote" => s1 = "remote")
    PROVE  TransferInv'
  <1> USE DEF TransferInv
  <1>1. FreshSeen' = FreshSeen /\ HasSeenSuccess' = HasSeenSuccess /\ Watching' = Watching
    BY DEF FreshSeen, HasSeenSuccess, Watching
  <1>2. PollsComeAfter' /\ OldSuccessIsAllSeen' /\ AcceptedIsNew' /\ WatchedIsNew' /\ WaitsForAnswer'
    BY <1>1 DEF PollsComeAfter, OldSuccessIsAllSeen, AcceptedIsNew, WatchedIsNew, WaitsForAnswer
  <1>3. SeenSuccessIsAlone'
    <2> SUFFICES ASSUME ~s14, ~s13, HasSeenSuccess
                 PROVE  /\ s1' /= "remote"
                        /\ \A s \in FreshSeen : ~(s.status = "in_progress" /\ s.file = "remote")
      BY <1>1 DEF SeenSuccessIsAlone
    <2>1. FreshSeen /= {}
      BY DEF HasSeenSuccess
    <2>2. s9 = {}
      BY <2>1 DEF PollsComeAfter
    <2> QED
      BY <2>2 DEF SeenSuccessIsAlone
  <1> QED
    BY <1>2, <1>3

(****************************************************************************)
(* The steps.                                                               *)
(****************************************************************************)

(* Requests and polls that change keep their types.                         *)
LEMMA RequestTypes ==
    ASSUME NEW r \in Requests
    PROVE  /\ [r EXCEPT !.at = "accepted"] \in Requests /\ [r EXCEPT !.at = "refused"] \in Requests
           /\ [r EXCEPT !.current = FALSE] \in Requests
           /\ [r EXCEPT !.at = "refused"].at = "refused"
           /\ [r EXCEPT !.at = "refused"].current = r.current
           /\ ~[r EXCEPT !.current = FALSE].current
  BY DEF Requests

(* A new request supersedes those before. *)
LEMMA SupersededRequests ==
    ASSUME s9 \subseteq Requests
    PROVE  Transfer!Superseded(s9) \subseteq Requests /\ \A r \in Transfer!Superseded(s9) : ~r.current
  <1>1. SUFFICES ASSUME NEW q \in Transfer!Superseded(s9)
                 PROVE  q \in Requests /\ ~q.current
    OBVIOUS
  <1>2. PICK r \in s9 : q = [r EXCEPT !.current = FALSE]
    BY DEF Transfer!Superseded
  <1> QED
    BY <1>2, RequestTypes

(* The server.                                                              *)
LEMMA ServerSteps ==
    ASSUME TransferInv,
           \/ \E r \in s9 : Transfer!StartDownload(r)
           \/ \E s \in Transfer!ServerStatuses : Transfer!EndDownload(s)
           \/ Transfer!RunUpload \/ \E q \in s11 : Transfer!ServeCancel(q)
    PROVE  TransferInv'
  <1>0. TransferTypes /\ SuccessIsOver /\ s9 \subseteq Requests
    BY DEF TransferInv, TransferTypes, DataTypes, FlagTypes
  <1>1. ASSUME NEW r \in s9, Transfer!StartDownload(r)
        PROVE  TransferInv'
    <2> DEFINE accepted == [r EXCEPT !.at = "accepted"]
               refused == [r EXCEPT !.at = "refused"]
    <2>1. UNCHANGED << s13, s3, s5, s6, s7, s8, s14, s4, s12 >>
      BY <1>1 DEF Transfer!StartDownload, Transfer!watch
    <2>2. accepted \in Requests /\ refused \in Requests /\ refused.at = "refused" /\ refused.current = r.current
      BY <1>0, RequestTypes
    <2>3. \/ s1' = "remote" /\ s2' = "in_progress" /\ s9' = (s9 \ { r }) \cup { accepted }
          \/ UNCHANGED << s1, s2 >> /\ s9' = (s9 \ { r }) \cup { refused }
      BY <1>1 DEF Transfer!StartDownload, Transfer!Begin
    <2> HIDE DEF accepted, refused
    <2>4. s1' \in { "none", "remote", "upload" } /\ s2' \in Transfer!ServerStatuses /\ s9' \subseteq Requests
      BY <1>0, <2>2, <2>3 DEF TransferTypes, DataTypes, FlagTypes, Transfer!ServerStatuses
    <2>5. TransferTypes'
      <3>1. DataTypes'
        BY <1>0, <2>1, <2>4 DEF TransferTypes, DataTypes
      <3>2. FlagTypes'
        BY <1>0, <2>1, <2>4 DEF TransferTypes, FlagTypes
      <3> QED
        BY <3>1, <3>2 DEF TransferTypes
    <2>6. SuccessIsOver'
      BY <1>0, <2>3 DEF SuccessIsOver
    <2>7. OldSuccess' => /\ OldSuccess
                         /\ \A q \in s9' : q.current /\ q.at = "accepted" => q \in s9
                         /\ (\E q \in s9 : q.current) => \E q \in s9' : q.current
      BY <2>1, <2>2, <2>3 DEF OldSuccess
    <2> QED
      BY <2>1, <2>5, <2>6, <2>7, ServerKeeps
  <1>2. ASSUME NEW s \in Transfer!ServerStatuses, Transfer!EndDownload(s)
        PROVE  TransferInv'
    <2>1. /\ UNCHANGED << s3, s5, s6, s7, s8, s14, s4, s9, s12 >>
          /\ s1' = "none" /\ s2' = s /\ s13' = (s13 \/ s = "success")
      BY <1>2 DEF Transfer!EndDownload, Transfer!Finish, Transfer!watch
    <2>2. SuccessIsOver'
      BY <2>1 DEF SuccessIsOver
    <2>4. TransferTypes'
      <3>1. DataTypes'
        BY <1>0, <1>2, <2>1 DEF TransferTypes, DataTypes
      <3>2. FlagTypes'
        BY <1>0, <2>1 DEF TransferTypes, FlagTypes
      <3> QED
        BY <3>1, <3>2 DEF TransferTypes
    <2>3. ~OldSuccess' /\ (s13 => s13')
      BY <1>0, <2>1 DEF OldSuccess, TransferTypes, FlagTypes
    <2> QED
      BY <2>1, <2>2, <2>3, <2>4, ServerKeeps
  <1>3. ASSUME NEW q, Transfer!RunUpload \/ Transfer!ServeCancel(q)
        PROVE  TransferInv'
    <2>1. /\ UNCHANGED << s13, s3, s5, s6, s7, s8, s14, s4, s9 >>
          /\ s12' \in { "none", "sent", "running", "ok", "refused" }
      BY <1>0, <1>3 DEF Transfer!RunUpload, Transfer!ServeCancel, Transfer!watch, TransferTypes, DataTypes, FlagTypes
    <2>2. \/ s1' \in { "none", "upload" } /\ s2' \in Transfer!Failures \cup { "idle", "in_progress" }
          \/ UNCHANGED << s1, s2 >>
      BY <1>3 DEF Transfer!RunUpload, Transfer!ServeCancel, Transfer!Begin, Transfer!Finish
    <2>3. s1' \in { "none", "remote", "upload" } /\ s2' \in Transfer!ServerStatuses
      BY <1>0, <2>2 DEF TransferTypes, DataTypes, FlagTypes, Transfer!ServerStatuses
    <2>4. TransferTypes'
      <3>1. DataTypes'
        BY <1>0, <2>1, <2>3 DEF TransferTypes, DataTypes
      <3>2. FlagTypes'
        BY <1>0, <2>1, <2>3 DEF TransferTypes, FlagTypes
      <3> QED
        BY <3>1, <3>2 DEF TransferTypes
    <2>5. SuccessIsOver' /\ (OldSuccess' => OldSuccess)
      BY <1>0, <2>1, <2>2 DEF SuccessIsOver, OldSuccess, Transfer!Failures
    <2>6. s1' = "remote" => s1 = "remote"
      BY <2>2
    <2> QED
      BY <2>1, <2>4, <2>5, <2>6, ServerKeeps
  <1> QED
    BY <1>1, <1>2, <1>3

(* Polling.                                                                 *)
LEMMA PollSteps ==
    ASSUME TransferInv,
           Transfer!PollAgain \/ \E p \in s6 : Transfer!ServeStatus(p) \/ Transfer!StatusAnswered(p) \/ Transfer!StatusLost(p)
    PROVE  TransferInv'
  <1>0. TransferTypes /\ s6 \subseteq Polls
    BY DEF TransferInv, TransferTypes, DataTypes, FlagTypes
  <1>1. CASE Transfer!PollAgain
    <2>1. /\ s5 /\ s6' = s6 \cup { Transfer!Asked }
          /\ UNCHANGED << s1, s2, s13, s3, s5, s7, s8, s14, s4, s9,
                          s12 >>
      BY <1>1 DEF Transfer!PollAgain, Transfer!server
    <2>2. TransferTypes'
      <3>1. DataTypes'
        BY <1>0, <2>1, AskedIsPoll DEF TransferTypes, DataTypes
      <3>2. FlagTypes'
        BY <1>0, <2>1, AskedIsPoll DEF TransferTypes, FlagTypes
      <3> QED
        BY <3>1, <3>2 DEF TransferTypes
    <2>3. FreshSeen' \subseteq FreshSeen \cup { Transfer!Unanswered }
      <3>1. \A q \in s6' : q \in s6 \/ q.seen = Transfer!Unanswered
        BY <2>1, AskedIsPoll
      <3>2. \A s \in FreshOf(s6') : s \in FreshOf(s6) \/ s = Transfer!Unanswered
        BY <3>1, Fresh
      <3> QED
        BY <3>2 DEF FreshSeen
    <2>4. HasSeenSuccess' => HasSeenSuccess
      BY <2>3, AskedIsPoll DEF HasSeenSuccess
    <2>5. \A s \in FreshSeen' : s \in FreshSeen \/ s.status = ""
      BY <2>3, AskedIsPoll
    <2>6. OldSuccess' = OldSuccess /\ Watching' = Watching
      BY <2>1 DEF OldSuccess, Watching
    <2> QED
      BY <2>1, <2>2, <2>4, <2>5, <2>6
         DEF TransferInv, SuccessIsOver, PollsComeAfter, OldSuccessIsAllSeen, SeenSuccessIsAlone,
             AcceptedIsNew, WaitsForAnswer, WatchedIsNew
  <1>2. ASSUME NEW p \in s6, Transfer!ServeStatus(p)
        PROVE  TransferInv'
    <2> DEFINE now == [status |-> s2, file |-> s1]
    <2>1. UNCHANGED << s1, s2, s13, s3, s5, s7, s8, s14, s4, s9,
                       s12 >>
      BY <1>2 DEF Transfer!ServeStatus, Transfer!server
    <2>2. TransferTypes'
      <3>1. s6' \subseteq Polls
        BY <1>0, <1>2, ServedPoll
      <3>2. DataTypes'
        BY <1>0, <2>1, <3>1 DEF TransferTypes, DataTypes
      <3>3. FlagTypes'
        BY <1>0, <2>1 DEF TransferTypes, FlagTypes
      <3> QED
        BY <3>2, <3>3 DEF TransferTypes
    <2>3. CASE FreshSeen' \subseteq FreshSeen
      BY <2>1, <2>2, <2>3, ViewKeeps DEF Watching
    <2>4. CASE FreshSeen /= {} /\ FreshSeen' \subseteq FreshSeen \cup { now }
      <3>1. OldSuccess' = OldSuccess /\ Watching' = Watching /\ now.status = s2 /\ now.file = s1
        BY <2>1 DEF OldSuccess, Watching
      <3> HIDE DEF now
      <3>2. OldSuccessIsAllSeen'
        BY <2>1, <2>4, <3>1 DEF TransferInv, OldSuccess, OldSuccessIsAllSeen
      <3>3. SeenSuccessIsAlone'
        <4> SUFFICES ASSUME ~s14, ~s13, HasSeenSuccess'
                     PROVE  /\ s1 /= "remote"
                            /\ \A s \in FreshSeen' : ~(s.status = "in_progress" /\ s.file = "remote")
          BY <2>1 DEF SeenSuccessIsAlone
        <4>1. CASE s2 = "success"
          <5>1. OldSuccess /\ s1 = "none"
            BY <4>1 DEF OldSuccess, TransferInv, SuccessIsOver
          <5> QED
            BY <2>1, <3>1, <3>2, <5>1 DEF OldSuccessIsAllSeen
        <4>2. CASE s2 /= "success"
          <5>1. HasSeenSuccess
            BY <2>4, <3>1, <4>2 DEF HasSeenSuccess
          <5> QED
            BY <2>4, <3>1, <5>1 DEF TransferInv, SeenSuccessIsAlone
        <4> QED
          BY <4>1, <4>2
      <3>4. WatchedIsNew'
        <4> SUFFICES ASSUME Watching, ~s13
                     PROVE  ~HasSeenSuccess'
          BY <2>1, <3>1 DEF WatchedIsNew
        <4>1. s9 = {}
          BY <2>4 DEF Watching, TransferInv, PollsComeAfter
        <4>2. s2 /= "success"
          BY <4>1 DEF TransferInv, WaitsForAnswer, OldSuccess
        <4>3. ~HasSeenSuccess
          BY DEF TransferInv, WatchedIsNew
        <4> QED
          BY <2>4, <3>1, <4>2, <4>3 DEF HasSeenSuccess
      <3> QED
        BY <2>1, <2>2, <2>4, <3>1, <3>2, <3>3, <3>4
           DEF TransferInv, SuccessIsOver, PollsComeAfter, AcceptedIsNew, WaitsForAnswer
    <2> QED
      BY <1>0, <1>2, <2>3, <2>4, ServedPoll
  <1>3. ASSUME NEW p \in s6, Transfer!StatusAnswered(p) \/ Transfer!StatusLost(p)
        PROVE  TransferInv'
    <2>1. UNCHANGED << s1, s2, s13, s14, s4, s9, s12 >>
      BY <1>3 DEF Transfer!StatusAnswered, Transfer!StatusLost, Transfer!server
    <2>2. CASE s6' = s6 \ { p } /\ UNCHANGED << s3, s5, s7, s8 >>
      <3>1. TransferTypes'
        <4>1. DataTypes'
          BY <1>0, <2>1, <2>2 DEF TransferTypes, DataTypes
        <4>2. FlagTypes'
          BY <1>0, <2>1, <2>2 DEF TransferTypes, FlagTypes
        <4> QED
          BY <4>1, <4>2 DEF TransferTypes
      <3>2. FreshSeen' \subseteq FreshSeen
        BY <2>2, SeesLess
      <3> QED
        BY <2>1, <2>2, <3>1, <3>2, ViewKeeps DEF Watching
    <2>3. CASE p.seen /= Transfer!Unanswered /\ ~p.stale /\ Transfer!Observe(p.seen, s6 \ { p })
      <3>1. p.seen \in FreshSeen /\ p.seen \in Transfer!Sightings
        <4>1. p.seen \in FreshOf(s6)
          BY <2>3, Fresh
        <4> QED
          BY <1>0, <2>3, <4>1 DEF FreshSeen, Polls
      <3>2. p.seen.status \in Transfer!ServerStatuses /\ s3' = p.seen.status
        BY <2>3, <3>1 DEF Transfer!Sightings, Transfer!Observe
      <3>3. /\ s5' \in { s5, FALSE }
            /\ s8' \in BOOLEAN
            /\ s6' = s6 \ { p } \/ s6' = Transfer!Outdated(s6 \ { p })
            /\ s7' \in BOOLEAN
            /\ p.seen.status = "in_progress" => s7' = (p.seen.file = "remote")
        BY <1>0, <2>3 DEF Transfer!Observe, TransferTypes, DataTypes, FlagTypes
      <3>4. s6' \subseteq Polls /\ FreshSeen' \subseteq FreshSeen
        BY <1>0, <3>3, StopsSeeing, SeesLess
      <3>5. TransferTypes'
        <4>1. DataTypes'
          BY <1>0, <2>1, <3>2, <3>3, <3>4 DEF TransferTypes, DataTypes
        <4>2. FlagTypes'
          BY <1>0, <2>1, <3>2, <3>3, <3>4 DEF TransferTypes, FlagTypes
        <4> QED
          BY <4>1, <4>2 DEF TransferTypes
      <3>6. Watching' => p.seen.status = "in_progress" /\ p.seen.file = "remote"
        BY <3>2, <3>3 DEF Watching
      <3>7. s5' => s5
        BY <3>3
      <3> HIDE DEF TransferInv, TransferTypes, DataTypes, FlagTypes
      <3> QED
        BY <2>1, <3>1, <3>4, <3>5, <3>6, <3>7, ViewKeeps
    <2> QED
      BY <1>3, <2>2, <2>3 DEF Transfer!StatusAnswered, Transfer!StatusLost
  <1> QED
    BY <1>1, <1>2, <1>3

(* The popover, but for the click that asks for a download.                 *)
LEMMA PopoverSteps ==
    ASSUME TransferInv,
           NEW q,
           \/ Transfer!OpenTransfer \/ Transfer!CloseTransfer \/ Transfer!CancelDownload
           \/ Transfer!CancelAnswered(q) \/ Transfer!CancelLost(q)
           \/ Transfer!ChooseFile \/ Transfer!Upload \/ Transfer!UploadAnswered
    PROVE  TransferInv'
  <1>0. TransferTypes /\ s6 \subseteq Polls /\ s9 \subseteq Requests
    BY DEF TransferInv, TransferTypes, DataTypes, FlagTypes
  <1>1. UNCHANGED << s1, s2, s13 >>
    BY DEF Transfer!OpenTransfer, Transfer!CloseTransfer, Transfer!CancelDownload, Transfer!CancelAnswered,
           Transfer!CancelLost, Transfer!ChooseFile, Transfer!Upload,
           Transfer!UploadAnswered, Transfer!server
  <1>2. /\ s4' \in BOOLEAN /\ s7' \in BOOLEAN /\ s8' \in BOOLEAN
        /\ s12' \in { "none", "sent", "running", "ok", "refused" }
        /\ s3' \in Transfer!ServerStatuses \cup { "" }
    <2>1. s4' \in { s4, TRUE, FALSE } /\ s7' \in { s7, FALSE }
      BY <1>0 DEF Transfer!OpenTransfer, Transfer!CloseTransfer, Transfer!CancelDownload, Transfer!CancelAnswered,
           Transfer!CancelLost, Transfer!ChooseFile, Transfer!Upload,
           Transfer!UploadAnswered, Transfer!watch, Transfer!StartPolling, Transfer!StopPolling, TransferTypes, FlagTypes
    <2>2. s8' \in { s8, TRUE, FALSE }
      BY DEF Transfer!OpenTransfer, Transfer!CloseTransfer, Transfer!CancelDownload, Transfer!CancelAnswered,
           Transfer!CancelLost, Transfer!ChooseFile, Transfer!Upload,
           Transfer!UploadAnswered, Transfer!watch, Transfer!StartPolling, Transfer!StopPolling
    <2>3. /\ s12' \in { s12, "sent", "none" }
          /\ s3' \in { s3, "", "idle", "in_progress", "success", "failed" }
      BY DEF Transfer!OpenTransfer, Transfer!CloseTransfer, Transfer!CancelDownload, Transfer!CancelAnswered,
           Transfer!CancelLost, Transfer!ChooseFile, Transfer!Upload,
           Transfer!UploadAnswered, Transfer!watch, Transfer!StartPolling, Transfer!StopPolling
    <2>5. s12' \in { "none", "sent", "running", "ok", "refused" }
      BY <1>0, <2>3 DEF TransferTypes, DataTypes
    <2>6. s3' \in Transfer!ServerStatuses \cup { "" }
      BY <1>0, <2>3 DEF TransferTypes, DataTypes, Transfer!ServerStatuses, Transfer!Failures
    <2>7. s4' \in BOOLEAN /\ s7' \in BOOLEAN /\ s8' \in BOOLEAN
      BY <1>0, <2>1, <2>2 DEF TransferTypes, FlagTypes
    <2> QED
      BY <2>5, <2>6, <2>7
  <1>3. Watching' => s7 /\ s3 = "in_progress"
    BY <1>0 DEF Transfer!OpenTransfer, Transfer!CloseTransfer, Transfer!CancelDownload, Transfer!CancelAnswered,
           Transfer!CancelLost, Transfer!ChooseFile, Transfer!Upload,
           Transfer!UploadAnswered, Transfer!watch, Transfer!StartPolling, Transfer!StopPolling, Watching, TransferTypes
  <1>4. \/ Transfer!StartPolling /\ s9' = s9
        \/ Transfer!StopPolling /\ s9' = s9
        \/ UNCHANGED << s5, s6, s14, s9 >>
        \/ Transfer!CancelDownload
    BY DEF Transfer!OpenTransfer, Transfer!CloseTransfer, Transfer!CancelAnswered, Transfer!CancelLost, Transfer!ChooseFile, Transfer!Upload, Transfer!UploadAnswered, Transfer!watch
  <1>5. CASE Transfer!StartPolling /\ s9' = s9
    <2>1. /\ s5' = TRUE /\ s6' = Transfer!Outdated(s6) \cup { Transfer!Asked }
          /\ s14' = (s14 \/ s9 /= {})
      BY <1>5 DEF Transfer!StartPolling
    <2>2. s6' \subseteq Polls /\ FreshSeen' \subseteq { Transfer!Unanswered }
      BY <1>0, <2>1, StartsSeeing
    <2>3. TransferTypes'
      <3>1. DataTypes'
        BY <1>0, <1>1, <1>2, <1>5, <2>1, <2>2 DEF TransferTypes, DataTypes
      <3>2. FlagTypes'
        BY <1>0, <1>1, <1>2, <1>5, <2>1, <2>2 DEF TransferTypes, FlagTypes
      <3> QED
        BY <3>1, <3>2 DEF TransferTypes
    <2>4. Watching' => Watching
      BY <1>3, <2>1 DEF Watching
    <2> QED
      BY <1>1, <1>5, <2>1, <2>2, <2>3, <2>4, SessionKeeps
  <1>6. CASE Transfer!StopPolling /\ s9' = s9
    <2>1. s5' = FALSE /\ s6' = Transfer!Outdated(s6) /\ s14' = s14
      BY <1>6 DEF Transfer!StopPolling
    <2>2. s6' \subseteq Polls /\ FreshSeen' = {}
      BY <1>0, <2>1, StopsSeeing
    <2>3. TransferTypes'
      <3>1. DataTypes'
        BY <1>0, <1>1, <1>2, <1>6, <2>1, <2>2 DEF TransferTypes, DataTypes
      <3>2. FlagTypes'
        BY <1>0, <1>1, <1>2, <1>6, <2>1, <2>2 DEF TransferTypes, FlagTypes
      <3> QED
        BY <3>1, <3>2 DEF TransferTypes
    <2>4. Watching' => Watching
      BY <1>3, <2>1 DEF Watching
    <2> QED
      BY <1>1, <1>6, <2>1, <2>2, <2>3, <2>4, SessionKeeps
  <1>7. CASE UNCHANGED << s5, s6, s14, s9 >>
    <2>1. TransferTypes'
      <3>1. DataTypes'
        BY <1>0, <1>1, <1>2, <1>7 DEF TransferTypes, DataTypes
      <3>2. FlagTypes'
        BY <1>0, <1>1, <1>2, <1>7 DEF TransferTypes, FlagTypes
      <3> QED
        BY <3>1, <3>2 DEF TransferTypes
    <2>2. FreshSeen' = FreshSeen /\ (Watching' => Watching)
      BY <1>3, <1>7 DEF FreshSeen, Watching
    <2> QED
      BY <1>1, <1>7, <2>1, <2>2, ViewKeeps
  <1>8. CASE Transfer!CancelDownload
    <2>1. /\ UNCHANGED << s3, s5, s6, s7 >>
          /\ s9' = Transfer!Superseded(s9) /\ s14' = (s14 \/ s9 /= {})
      BY <1>8 DEF Transfer!CancelDownload
    <2>2. s9' \subseteq Requests /\ \A r \in s9' : ~r.current
      BY <1>0, <2>1, SupersededRequests
    <2>3. TransferTypes'
      <3>1. DataTypes'
        BY <1>0, <1>1, <1>2, <2>1, <2>2 DEF TransferTypes, DataTypes
      <3>2. FlagTypes'
        BY <1>0, <1>1, <1>2, <2>1, <2>2 DEF TransferTypes, FlagTypes
      <3> QED
        BY <3>1, <3>2 DEF TransferTypes
    <2>4. /\ FreshSeen' = FreshSeen /\ HasSeenSuccess' = HasSeenSuccess /\ OldSuccess' = OldSuccess
          /\ Watching' => Watching /\ s9 = {}
      BY <1>1, <2>1 DEF FreshSeen, HasSeenSuccess, OldSuccess, Watching
    <2>5. s9 = {} => s9' = {}
      BY <2>1 DEF Transfer!Superseded
    <2> QED
      BY <1>1, <2>1, <2>2, <2>3, <2>4, <2>5
         DEF TransferInv, SuccessIsOver, PollsComeAfter, OldSuccessIsAllSeen, SeenSuccessIsAlone,
             AcceptedIsNew, WaitsForAnswer, WatchedIsNew
  <1> QED
    BY <1>4, <1>5, <1>6, <1>7, <1>8

(* Downloads are asked for, and answered.                                   *)
LEMMA DownloadSteps ==
    ASSUME TransferInv, Transfer!Download \/ \E r \in s9 : Transfer!DownloadAnswered(r) \/ Transfer!DownloadLost(r)
    PROVE  TransferInv'
  <1>0. TransferTypes /\ s6 \subseteq Polls /\ s9 \subseteq Requests
    BY DEF TransferInv, TransferTypes, DataTypes, FlagTypes
  <1>1. CASE Transfer!Download
    <2> DEFINE new == [current |-> TRUE, at |-> "sent"]
    <2>1. /\ s5' = FALSE /\ s6' = Transfer!Outdated(s6)
          /\ s9' = Transfer!Superseded(s9) \cup { new }
          /\ s7' = TRUE /\ s3' = "in_progress" /\ s13' = FALSE /\ s14' = FALSE
          /\ UNCHANGED << s1, s2, s8, s4, s12 >>
      BY <1>1 DEF Transfer!Download
    <2>2. new \in Requests /\ new.current /\ new.at = "sent"
      BY DEF Requests
    <2> HIDE DEF new
    <2>3. /\ s9' \subseteq Requests /\ new \in s9'
          /\ \A r \in s9' : r.current => r.at = "sent"
      BY <1>0, <2>1, <2>2, SupersededRequests
    <2>4. s6' \subseteq Polls /\ FreshSeen' = {}
      BY <1>0, <2>1, StopsSeeing
    <2>5. TransferTypes'
      <3>1. DataTypes'
        BY <1>0, <2>1, <2>3, <2>4 DEF TransferTypes, DataTypes, Transfer!ServerStatuses
      <3>2. FlagTypes'
        BY <1>0, <2>1, <2>3, <2>4 DEF TransferTypes, FlagTypes
      <3> QED
        BY <3>1, <3>2 DEF TransferTypes
    <2>6. ~HasSeenSuccess'
      BY <2>4 DEF HasSeenSuccess
    <2>7. SuccessIsOver' /\ PollsComeAfter' /\ OldSuccessIsAllSeen' /\ SeenSuccessIsAlone'
      BY <2>1, <2>4, <2>6
         DEF TransferInv, SuccessIsOver, PollsComeAfter, OldSuccessIsAllSeen, SeenSuccessIsAlone
    <2>8. AcceptedIsNew' /\ WaitsForAnswer' /\ WatchedIsNew'
      BY <2>2, <2>3, <2>6 DEF AcceptedIsNew, WaitsForAnswer, WatchedIsNew
    <2> QED
      BY <2>5, <2>7, <2>8 DEF TransferInv
  <1>2. ASSUME NEW r \in s9, Transfer!DownloadAnswered(r) \/ Transfer!DownloadLost(r)
        PROVE  TransferInv'
    <2>1. s9' = s9 \ { r } /\ UNCHANGED << s1, s2, s13, s4, s12 >>
      BY <1>2 DEF Transfer!DownloadAnswered, Transfer!DownloadLost, Transfer!server
    <2>2. \/ ~r.current /\ UNCHANGED << s3, s5, s6, s7, s8, s14 >>
          \/ r.current /\ r.at = "accepted" /\ Transfer!StartPolling /\ UNCHANGED << s3, s7, s8 >>
          \/ Transfer!GiveUp
      BY <1>2 DEF Transfer!DownloadAnswered, Transfer!DownloadLost, Transfer!watch
    <2>3. CASE ~r.current /\ UNCHANGED << s3, s5, s6, s7, s8, s14 >>
      <3>1. TransferTypes'
        <4>1. DataTypes'
          BY <1>0, <2>1, <2>3 DEF TransferTypes, DataTypes
        <4>2. FlagTypes'
          BY <1>0, <2>1, <2>3 DEF TransferTypes, FlagTypes
        <4> QED
          BY <4>1, <4>2 DEF TransferTypes
      <3>2. /\ FreshSeen' = FreshSeen /\ HasSeenSuccess' = HasSeenSuccess /\ OldSuccess' = OldSuccess
            /\ Watching' = Watching
        BY <2>1, <2>3 DEF FreshSeen, HasSeenSuccess, OldSuccess, Watching
      <3> QED
        BY <2>1, <2>3, <3>1, <3>2
           DEF TransferInv, SuccessIsOver, PollsComeAfter, OldSuccessIsAllSeen, SeenSuccessIsAlone,
               AcceptedIsNew, WaitsForAnswer, WatchedIsNew
    <2>4. CASE r.current /\ r.at = "accepted" /\ Transfer!StartPolling /\ UNCHANGED << s3, s7, s8 >>
      <3>1. /\ s5' = TRUE /\ s6' = Transfer!Outdated(s6) \cup { Transfer!Asked }
            /\ s14' = (s14 \/ s9' /= {})
        BY <2>4 DEF Transfer!StartPolling
      <3>2. s6' \subseteq Polls /\ FreshSeen' \subseteq { Transfer!Unanswered }
        BY <1>0, <3>1, StartsSeeing
      <3>3. TransferTypes'
        <4>1. DataTypes'
          BY <1>0, <2>1, <2>4, <3>1, <3>2 DEF TransferTypes, DataTypes
        <4>2. FlagTypes'
          BY <1>0, <2>1, <2>4, <3>1, <3>2 DEF TransferTypes, FlagTypes
        <4> QED
          BY <4>1, <4>2 DEF TransferTypes
      <3>4. ~OldSuccess
        BY <2>4 DEF TransferInv, AcceptedIsNew
      <3> QED
        BY <2>1, <3>1, <3>2, <3>3, <3>4, SessionKeeps
    <2>5. CASE Transfer!GiveUp
      <3>1. /\ s5' = FALSE /\ s6' = Transfer!Outdated(s6) /\ s14' = s14
            /\ s7' = FALSE /\ s3' = "failed" /\ s8' = s8
        BY <2>5 DEF Transfer!GiveUp, Transfer!StopPolling
      <3>2. s6' \subseteq Polls /\ FreshSeen' = {}
        BY <1>0, <3>1, StopsSeeing
      <3>3. TransferTypes'
        <4>1. DataTypes'
          BY <1>0, <2>1, <3>1, <3>2 DEF TransferTypes, DataTypes, Transfer!ServerStatuses, Transfer!Failures
        <4>2. FlagTypes'
          BY <1>0, <2>1, <3>1, <3>2 DEF TransferTypes, FlagTypes
        <4> QED
          BY <4>1, <4>2 DEF TransferTypes
      <3>4. ~Watching'
        BY <3>1 DEF Watching
      <3> QED
        BY <2>1, <3>1, <3>2, <3>3, <3>4, SessionKeeps
    <2> QED
      BY <2>2, <2>3, <2>4, <2>5
  <1> QED
    BY <1>1, <1>2

(* The cancel requests, and the clicks that tell them apart.                *)
CancelTypes ==
    /\ s10 \in BOOLEAN /\ s15 \in 0 .. TransferClicks
    /\ s11 \subseteq [click : 0 .. TransferClicks, at : { "sent", "ok", "refused" }]

LEMMA CancelsKeepTypes ==
    ASSUME CancelTypes, [Transfer!TransferNext]_(Transfer!transferVars)
    PROVE  CancelTypes'
  <1> USE DEF CancelTypes, Transfer!cancellation
  <1>0. TransferClicks \in Nat
    BY BoundsAreNaturals
  <1>1. ASSUME NEW q, Transfer!ServeCancel(q)
        PROVE  CancelTypes'
    <2>1. q \in s11 /\ UNCHANGED << s10, s15 >>
      BY <1>1 DEF Transfer!ServeCancel
    <2>2. \/ s11' = (s11 \ { q }) \cup { [q EXCEPT !.at = "ok"] }
          \/ s11' = (s11 \ { q }) \cup { [q EXCEPT !.at = "refused"] }
      BY <1>1 DEF Transfer!ServeCancel
    <2> QED
      BY <2>1, <2>2
  <1>2. ASSUME NEW q, Transfer!CancelAnswered(q) \/ Transfer!CancelLost(q)
        PROVE  CancelTypes'
    BY <1>2 DEF Transfer!CancelAnswered, Transfer!CancelLost
  <1>3. CASE Transfer!CancelDownload
    <2>1. /\ s15 < TransferClicks /\ s15' = s15 + 1 /\ s10' = TRUE
          /\ s11' = s11 \cup { [click |-> s15, at |-> "sent"] }
      BY <1>3 DEF Transfer!CancelDownload, Transfer!TransferClick
    <2> QED
      BY <1>0, <2>1
  <1>4. CASE Transfer!OpenTransfer \/ Transfer!Download \/ Transfer!ChooseFile \/ Transfer!Upload
    <2>1. s15 < TransferClicks /\ s15' = s15 + 1 /\ UNCHANGED << s10, s11 >>
      BY <1>4 DEF Transfer!OpenTransfer, Transfer!Download, Transfer!ChooseFile, Transfer!Upload,
         Transfer!TransferClick
    <2> QED
      BY <1>0, <2>1
  <1>5. CASE Transfer!CloseTransfer
    <2>1. s10' \in { s10, FALSE } /\ UNCHANGED << s11, s15 >>
      BY <1>5 DEF Transfer!CloseTransfer
    <2> QED
      BY <2>1
  <1>6. ASSUME NEW r, Transfer!StartDownload(r) \/ Transfer!DownloadAnswered(r) \/ Transfer!DownloadLost(r)
        PROVE  CancelTypes'
    BY <1>6 DEF Transfer!StartDownload, Transfer!DownloadAnswered, Transfer!DownloadLost
  <1>7. ASSUME NEW p, Transfer!ServeStatus(p) \/ Transfer!StatusAnswered(p) \/ Transfer!StatusLost(p)
        PROVE  CancelTypes'
    BY <1>7 DEF Transfer!ServeStatus, Transfer!StatusAnswered, Transfer!StatusLost
  <1>8. ASSUME NEW s, Transfer!EndDownload(s)
        PROVE  CancelTypes'
    BY <1>8 DEF Transfer!EndDownload
  <1>9. CASE Transfer!RunUpload \/ Transfer!PollAgain \/ Transfer!UploadAnswered
    BY <1>9 DEF Transfer!RunUpload, Transfer!PollAgain, Transfer!UploadAnswered
  <1>10. CASE UNCHANGED Transfer!transferVars
    BY <1>10 DEF Transfer!transferVars
  <1> QED
    BY <1>1, <1>2, <1>3, <1>4, <1>5, <1>6, <1>7, <1>8, <1>9, <1>10 DEF Transfer!TransferNext

(****************************************************************************)
(* The theorems.                                                            *)
(****************************************************************************)

(* The invariant of the transfer holds at the beginning. *)
LEMMA TransferInvInitially == Transfer!TransferInit => TransferInv
  <1> SUFFICES ASSUME Transfer!TransferInit PROVE TransferInv
    OBVIOUS
  <1>1. TransferTypes
    BY DEF Transfer!TransferInit, TransferTypes, DataTypes, FlagTypes, Transfer!ServerStatuses, Transfer!Failures
  <1>2. ~Watching /\ s5 = FALSE /\ s6 = {} /\ s9 = {} /\ s1 = "none"
    BY DEF Transfer!TransferInit, Watching
  <1>3. \A s : s \notin FreshSeen
    BY <1>2, Fresh DEF FreshSeen
  <1> QED
    BY <1>1, <1>2, <1>3 DEF TransferInv, SuccessIsOver, PollsComeAfter, OldSuccessIsAllSeen, SeenSuccessIsAlone,
       AcceptedIsNew, WaitsForAnswer, WatchedIsNew, HasSeenSuccess

(* Every step keeps it. *)
LEMMA TransferInvKept == TransferInv /\ [Transfer!TransferNext]_(Transfer!transferVars) => TransferInv'
  <1> SUFFICES ASSUME TransferInv, [Transfer!TransferNext]_(Transfer!transferVars) PROVE TransferInv'
    OBVIOUS
  <1>1. CASE Transfer!TransferNext
    BY <1>1, ServerSteps, PollSteps, PopoverSteps, DownloadSteps DEF Transfer!TransferNext
  <1>2. CASE UNCHANGED Transfer!transferVars
    <2>1. UNCHANGED << s2, s1, s13, s14, s9, s5, s6, s7, s3, s8,
                       s4, s12 >>
      BY <1>2 DEF Transfer!transferVars
    <2>3. TransferTypes'
      <3>1. DataTypes'
        BY <2>1 DEF TransferInv, TransferTypes, DataTypes
      <3>2. FlagTypes'
        BY <2>1 DEF TransferInv, TransferTypes, FlagTypes
      <3> QED
        BY <3>1, <3>2 DEF TransferTypes
    <2>2. FreshSeen' = FreshSeen /\ Watching' = Watching
      BY <2>1 DEF FreshSeen, Watching
    <2> QED
      BY <2>1, <2>2, <2>3, ViewKeeps
  <1> QED
    BY <1>1, <1>2

(* Only a poll of the present session shows a success while the popover     *)
(* waits for a download.                                                    *)
LEMMA SuccessComesFromPoll ==
    ASSUME TransferTypes, Transfer!TransferNext, s3' = "success", s3 = "in_progress", s7, s12' = s12
    PROVE  HasSeenSuccess
  <1>1. ASSUME NEW p \in s6, Transfer!StatusAnswered(p)
        PROVE  HasSeenSuccess
    <2>1. ~p.stale /\ p.seen.status = "success"
      BY <1>1 DEF Transfer!StatusAnswered, Transfer!Observe
    <2>2. p.seen \in FreshOf(s6)
      BY <2>1, Fresh
    <2> QED
      BY <2>1, <2>2 DEF HasSeenSuccess, FreshSeen
  <1>2. ASSUME NEW r \in s9, Transfer!StartDownload(r) \/ Transfer!DownloadAnswered(r) \/ Transfer!DownloadLost(r)
        PROVE  FALSE
    BY <1>2 DEF Transfer!StartDownload, Transfer!DownloadAnswered, Transfer!DownloadLost, Transfer!watch, Transfer!GiveUp
  <1>3. ASSUME NEW p \in s6, Transfer!ServeStatus(p) \/ Transfer!StatusLost(p)
        PROVE  FALSE
    BY <1>3 DEF Transfer!ServeStatus, Transfer!StatusLost
  <1>4. ASSUME NEW s \in Transfer!ServerStatuses, Transfer!EndDownload(s)
        PROVE  FALSE
    BY <1>4 DEF Transfer!EndDownload, Transfer!watch
  <1>5. ~(Transfer!RunUpload \/ Transfer!PollAgain \/ \E q \in s11 : Transfer!ServeCancel(q))
    BY DEF Transfer!RunUpload, Transfer!ServeCancel, Transfer!PollAgain, Transfer!watch
  <1>6. ~(\/ Transfer!OpenTransfer \/ Transfer!CloseTransfer \/ Transfer!Download \/ Transfer!CancelDownload
          \/ \E q \in s11 : Transfer!CancelAnswered(q) \/ Transfer!CancelLost(q))
    BY DEF Transfer!OpenTransfer, Transfer!CloseTransfer, Transfer!Download, Transfer!CancelDownload, Transfer!CancelAnswered, Transfer!CancelLost, Transfer!watch
  <1>7. ~(Transfer!ChooseFile \/ Transfer!Upload \/ Transfer!UploadAnswered)
    BY DEF Transfer!ChooseFile, Transfer!Upload, Transfer!UploadAnswered
  <1> QED
    BY <1>1, <1>2, <1>3, <1>4, <1>5, <1>6, <1>7 DEF Transfer!TransferNext

TransferKept == TransferInv /\ CancelTypes

(* What is kept holds at the beginning. *)
LEMMA TransferStarts == Transfer!TransferInit => TransferKept
  <1>1. Transfer!TransferInit => CancelTypes
    <2>1. Transfer!TransferInit => s10 = FALSE /\ s11 = {} /\ s15 = 0
      BY DEF Transfer!TransferInit
    <2>2. 0 \in 0 .. TransferClicks
      BY BoundsAreNaturals
    <2>3. s10 = FALSE /\ s11 = {} /\ s15 = 0 => CancelTypes
      <3>1. s10 = FALSE => s10 \in BOOLEAN
        OBVIOUS
      <3> QED
        BY <2>2, <3>1 DEF CancelTypes
    <2> QED
      BY <2>1, <2>3
  <1> QED
    BY <1>1, TransferInvInitially DEF TransferKept

(* Every step keeps it. *)
LEMMA TransferKeeps ==
  ASSUME TransferKept, [Transfer!TransferNext]_(Transfer!transferVars)
  PROVE  TransferKept'
  BY TransferInvKept, CancelsKeepTypes DEF TransferKept

(* It has the types in it. *)
LEMMA TransferPromises == TransferKept => Transfer!TransferTypeOK
  BY DEF TransferKept, CancelTypes, TransferInv, TransferTypes, DataTypes, FlagTypes, Transfer!TransferTypeOK,
     Polls, Requests

(* A download the popover watches is called successful only when a remote   *)
(* transfer succeeded after it was asked for, however polls, answers and    *)
(* clicks overlap (getDownloadStatus, download.tsx:123 and :175).           *)
LEMMA TransferSucceeds ==
  ASSUME TransferKept, Transfer!TransferNext
  PROVE  Transfer!NewSuccess
  <1> SUFFICES ASSUME s3' = "success", s3 = "in_progress", s7, ~s14, s12' = s12
               PROVE  s13
    BY DEF Transfer!NewSuccess
  <1>1. HasSeenSuccess
    BY SuccessComesFromPoll DEF TransferKept, TransferInv
  <1> QED
    BY <1>1 DEF TransferKept, TransferInv, WatchedIsNew, Watching

(* The same of the specification of the transfer alone: whatever is clicked,  *)
(* lost and polled, a success shown is that of the download asked for.        *)
THEOREM TransferHolds ==
  Transfer!TransferSpec =>
    []Transfer!TransferTypeOK /\ [][Transfer!NewSuccess]_(Transfer!transferVars)
  BY TransferStarts, TransferKeeps, TransferPromises, TransferSucceeds, PTL DEF Transfer!TransferSpec

-------------------------------------------------------------------------------
(******************************************************************************)
(* Conversation.                                                              *)
(* s1, s2, ... are its mounted, next, active, fresh, gateway, ws, shown,      *)
(* messages, handlers, switching, crossed, chatClicks, chatFrames.            *)
(******************************************************************************)

(* The messages of a list are those of one conversation, and each is there once. *)
AllOf(list, a) == \A i \in DOMAIN list : list[i].of = a
Distinct(list) ==
  \A i, j \in DOMAIN list :
    i # j => (list[i].id = "" \/ list[i].id # list[j].id) /\ ~(list[i].image /\ list[j].image)

ChatFlags == s1 \in BOOLEAN /\ s4 \in BOOLEAN /\ s10 \in BOOLEAN /\ s11 \in BOOLEAN
ChatNames == s3 \in Chat!Known /\ s5 \in [session : Chat!Known, socket : Chat!Known]
             /\ s6 \in {"none", "connecting", "open"} /\ s7 \in Chat!Shown
             /\ s9 \subseteq Chat!Handlers

(* The invariant of the chat, with the list of messages apart. *)
LEMMA ChatParts ==
  Chat!ChatInv <=> /\ ChatFlags /\ ChatNames /\ s8 \in Seq(Chat!Messages) /\ Distinct(s8)
                   /\ Chat!GatewayOfConversation /\ Chat!ClosedIsQuiet /\ Chat!ControlShownWhileOpen
                   /\ (s1 /\ ~s11 => AllOf(s8, s3))
  BY Zenon DEF Chat!ChatInv, Chat!ChatTypes, ChatFlags, ChatNames, Distinct, AllOf, Chat!OneOfEach,
    Chat!MessagesOfConversation

(* The same after a step. *)
LEMMA ChatPartsNext ==
  Chat!ChatInv' <=> /\ ChatFlags' /\ ChatNames' /\ s8' \in Seq(Chat!Messages) /\ Distinct(s8')
                    /\ Chat!GatewayOfConversation' /\ Chat!ClosedIsQuiet' /\ Chat!ControlShownWhileOpen'
                    /\ (s1' /\ ~s11' => AllOf(s8', s3'))
  BY Zenon DEF Chat!ChatInv, Chat!ChatTypes, ChatFlags, ChatNames, Distinct, AllOf, Chat!OneOfEach,
    Chat!MessagesOfConversation

(* A message that is added is one more, and one that comes again takes its own place. *)
LEMMA LongerList ==
  ASSUME NEW M, NEW list \in Seq(M), NEW m \in M
  PROVE  /\ Append(list, m) \in Seq(M)
         /\ \A i \in DOMAIN Append(list, m) :
              \/ i \in DOMAIN list /\ Append(list, m)[i] = list[i]
              \/ i = Len(list) + 1 /\ Append(list, m)[i] = m
  <1>1. /\ Append(list, m) \in Seq(M) /\ Len(Append(list, m)) = Len(list) + 1
        /\ Append(list, m)[Len(list) + 1] = m /\ \A i \in 1 .. Len(list) : Append(list, m)[i] = list[i]
    BY AppendProperties
  <1> QED
    BY <1>1

(* The other messages keep theirs. *)
LEMMA ChangedList ==
  ASSUME NEW M, NEW list \in Seq(M), NEW m \in M, NEW k \in DOMAIN list
  PROVE  /\ [list EXCEPT ![k] = m] \in Seq(M)
         /\ DOMAIN [list EXCEPT ![k] = m] = DOMAIN list
         /\ \A i \in DOMAIN list : [list EXCEPT ![k] = m][i] = IF i = k THEN m ELSE list[i]
  BY ExceptSeq

(* So a list grows by a message with no id or a new one, ... *)
LEMMA ListsGrow ==
  ASSUME NEW list \in Seq(Chat!Messages), NEW m \in Chat!Messages
  PROVE  /\ Append(list, m) \in Seq(Chat!Messages)
         /\ Distinct(list) /\ ~m.image /\ (\A i \in DOMAIN list : m.id = "" \/ list[i].id # m.id)
              => Distinct(Append(list, m))
         /\ \A a : AllOf(list, a) /\ m.of = a => AllOf(Append(list, m), a)
  <1> DEFINE longer == Append(list, m)
             last == Len(list) + 1
  <1>1. longer \in Seq(Chat!Messages)
    BY LongerList
  <1>2. \A i \in DOMAIN longer : (i \in DOMAIN list /\ longer[i] = list[i]) \/ (i = last /\ longer[i] = m)
    BY LongerList
  <1> HIDE DEF longer, last
  <1>3. Distinct(list) /\ ~m.image /\ (\A i \in DOMAIN list : m.id = "" \/ list[i].id # m.id) => Distinct(longer)
    BY <1>2 DEF Distinct
  <1>4. \A a : AllOf(list, a) /\ m.of = a => AllOf(longer, a)
    BY <1>2 DEF AllOf
  <1> QED
    BY <1>1, <1>3, <1>4 DEF longer

(* ... or the one with its id is replaced, and the list stays what it is. *)
LEMMA ListsChange ==
  ASSUME NEW list \in Seq(Chat!Messages), NEW m \in Chat!Messages, NEW k \in DOMAIN list
  PROVE  /\ [list EXCEPT ![k] = m] \in Seq(Chat!Messages)
         /\ Distinct(list) /\ ~m.image /\ m.id # "" /\ list[k].id = m.id => Distinct([list EXCEPT ![k] = m])
         /\ \A a : AllOf(list, a) /\ m.of = a => AllOf([list EXCEPT ![k] = m], a)
  <1> DEFINE new == [list EXCEPT ![k] = m]
  <1>1. new \in Seq(Chat!Messages)
    BY ChangedList
  <1>2. DOMAIN new = DOMAIN list /\ \A i \in DOMAIN list : new[i] = IF i = k THEN m ELSE list[i]
    BY ChangedList
  <1> HIDE DEF new
  <1>3. Distinct(list) /\ ~m.image /\ m.id # "" /\ list[k].id = m.id => Distinct(new)
    BY <1>2 DEF Distinct
  <1>4. \A a : AllOf(list, a) /\ m.of = a => AllOf(new, a)
    BY <1>2 DEF AllOf
  <1> QED
    BY <1>1, <1>3, <1>4 DEF new

(* Of the screenshots the last one is kept. *)
LEMMA FunctionIsList ==
  ASSUME NEW M, NEW n \in Nat, NEW f \in [1 .. n -> M]
  PROVE  f \in Seq(M)
  BY SeqDef

(* Blanking the screenshots before leaves one at most. *)
LEMMA ListsRetain ==
  ASSUME NEW list \in Seq(Chat!Messages)
  PROVE  /\ Chat!Retained(list) \in Seq(Chat!Messages)
         /\ (\A i, j \in DOMAIN list : i # j => list[i].id = "" \/ list[i].id # list[j].id)
              => Distinct(Chat!Retained(list))
         /\ \A a : AllOf(list, a) => AllOf(Chat!Retained(list), a)
  <1> DEFINE images == {i \in DOMAIN list : list[i].image}
             latest(i) == i \in images /\ \A j \in images : j <= i
             new == Chat!Retained(list)
  <1>0. DOMAIN list = 1 .. Len(list) /\ Len(list) \in Nat
    OBVIOUS
  <1>m. \A i \in 1 .. Len(list) : list[i] \in Chat!Messages
    BY ElementOfSeq
  <1>1. new = [i \in 1 .. Len(list) |-> [list[i] EXCEPT !.image = latest(i)]]
    BY <1>0, Zenon DEF Chat!Retained
  <1>3. \A i \in DOMAIN list : latest(i) \in BOOLEAN
    BY Zenon
  <1>4. ASSUME NEW i \in DOMAIN list, NEW j \in DOMAIN list, latest(i), latest(j)
        PROVE  i = j
    <2>1. i \in images /\ j \in images
      BY <1>4, Zenon
    <2>2. j <= i /\ i <= j
      BY <1>4, <2>1, Zenon
    <2>3. i \in Int /\ j \in Int
      BY <1>0
    <2> HIDE DEF images
    <2> QED
      BY <2>2, <2>3
  <1> HIDE DEF latest, images, new
  <1>2. \A i \in 1 .. Len(list) : new[i] = [list[i] EXCEPT !.image = latest(i)]
    BY <1>1
  <1>5. ASSUME NEW i \in 1 .. Len(list)
        PROVE  new[i] \in Chat!Messages /\ new[i].id = list[i].id /\ new[i].of = list[i].of /\ new[i].image = latest(i)
    <2>1. list[i] \in Chat!Messages /\ latest(i) \in BOOLEAN /\ new[i] = [list[i] EXCEPT !.image = latest(i)]
      BY <1>0, <1>2, <1>3, <1>m
    <2> QED
      BY <2>1 DEF Chat!Messages
  <1>6. new \in [1 .. Len(list) -> Chat!Messages]
    BY <1>1, <1>5
  <1>7. new \in Seq(Chat!Messages)
    BY <1>0, <1>6, FunctionIsList
  <1>8. DOMAIN new = DOMAIN list
    BY <1>0, <1>6
  <1>9. (\A i, j \in DOMAIN list : i # j => list[i].id = "" \/ list[i].id # list[j].id) => Distinct(new)
    BY <1>0, <1>8, <1>4, <1>5 DEF Distinct
  <1>10. \A a : AllOf(list, a) => AllOf(new, a)
    BY <1>0, <1>8, <1>5 DEF AllOf
  <1> QED
    BY <1>7, <1>9, <1>10 DEF new

(* A message has the id and the conversation it is written with. *)
LEMMA MessageFields ==
  \A k \in Chat!Kinds, id \in Ids \union {""}, of \in Chat!Known :
    /\ Chat!Message(k, id, of) \in Chat!Messages
    /\ Chat!Message(k, id, of).id = id /\ Chat!Message(k, id, of).of = of
    /\ k # "observation" => ~Chat!Message(k, id, of).image
  <1> SUFFICES ASSUME NEW k \in Chat!Kinds, NEW id \in Ids \union {""}, NEW of \in Chat!Known
               PROVE  /\ Chat!Message(k, id, of) \in Chat!Messages
                      /\ Chat!Message(k, id, of).id = id /\ Chat!Message(k, id, of).of = of
                      /\ k # "observation" => ~Chat!Message(k, id, of).image
    OBVIOUS
  <1>1. (k = "observation") \in BOOLEAN
    BY Zenon
  <1> QED
    BY <1>1 DEF Chat!Message, Chat!Messages

(* The kinds there are. *)
LEMMA KindsKnown ==
  /\ "user" \in Chat!Kinds /\ "assistant" \in Chat!Kinds /\ "observation" \in Chat!Kinds
  /\ "user" # "observation" /\ "assistant" # "observation"
  /\ "" \in Ids \union {""}
  BY DEF Chat!Kinds

(* Two messages are a list. *)
LEMMA TwoList == ASSUME NEW M, NEW x \in M, NEW y \in M PROVE <<x, y>> \in Seq(M)
  OBVIOUS

(* What is put into the list without an id and a screenshot is one more message. *)
LEMMA MessageAdded ==
  ASSUME s8 \in Seq(Chat!Messages), Distinct(s8), NEW k \in Chat!Kinds, k # "observation", NEW of \in Chat!Known
  PROVE  LET longer == Append(s8, Chat!Message(k, "", of)) IN
         /\ longer \in Seq(Chat!Messages) /\ Distinct(longer)
         /\ \A a : AllOf(s8, a) /\ of = a => AllOf(longer, a)
  <1> DEFINE m == Chat!Message(k, "", of)
  <1>1. m \in Chat!Messages /\ m.id = "" /\ m.of = of /\ ~m.image
    BY MessageFields, KindsKnown, Zenon
  <1> HIDE DEF m
  <1>2. /\ Append(s8, m) \in Seq(Chat!Messages) /\ Distinct(Append(s8, m))
        /\ \A a : AllOf(s8, a) /\ of = a => AllOf(Append(s8, m), a)
    BY <1>1, ListsGrow
  <1> QED
    BY <1>2 DEF m

(* A status or an error *)
LEMMA NoteAdded ==
  ASSUME s8 \in Seq(Chat!Messages), Distinct(s8), s3 \in Chat!Known
  PROVE  /\ Append(s8, Chat!Note) \in Seq(Chat!Messages) /\ Distinct(Append(s8, Chat!Note))
         /\ AllOf(s8, s3) => AllOf(Append(s8, Chat!Note), s3)
  BY MessageAdded DEF Chat!Note, Chat!Kinds

(* A conversation begins with no message, or with a question and its answer from the history. *)
LEMMA ListsStart ==
  /\ << >> \in Seq(Chat!Messages) /\ Distinct(<< >>) /\ \A a : AllOf(<< >>, a)
  /\ \A a \in Chat!Known :
       LET list == << Chat!Message("user", "", a), Chat!Message("assistant", "", a) >> IN
       list \in Seq(Chat!Messages) /\ Distinct(list) /\ AllOf(list, a)
  <1>1. << >> \in Seq(Chat!Messages) /\ Distinct(<< >>) /\ \A a : AllOf(<< >>, a)
    BY DEF Distinct, AllOf
  <1>2. ASSUME NEW a \in Chat!Known
        PROVE  LET list == << Chat!Message("user", "", a), Chat!Message("assistant", "", a) >> IN
               list \in Seq(Chat!Messages) /\ Distinct(list) /\ AllOf(list, a)
    <2> DEFINE m == Chat!Message("user", "", a)
               n == Chat!Message("assistant", "", a)
    <2>1. m \in Chat!Messages /\ m.id = "" /\ ~m.image /\ m.of = a
      BY MessageFields, KindsKnown, Zenon
    <2>2. n \in Chat!Messages /\ n.id = "" /\ ~n.image /\ n.of = a
      BY MessageFields, KindsKnown, Zenon
    <2> HIDE DEF m, n
    <2>3. <<m, n>> \in Seq(Chat!Messages)
      BY <2>1, <2>2, TwoList
    <2> DEFINE list == <<m, n>>
    <2>6. \A i \in DOMAIN list : (i = 1 \/ i = 2) /\ (list[i] = m \/ list[i] = n)
      OBVIOUS
    <2> HIDE DEF list
    <2>4. Distinct(list)
      BY <2>1, <2>2, <2>6 DEF Distinct
    <2>5. AllOf(list, a)
      BY <2>1, <2>2, <2>6 DEF AllOf
    <2> QED
      BY <2>3, <2>4, <2>5 DEF m, n, list
  <1> QED
    BY <1>1, <1>2

(* A handler under way is one. *)
LEMMA HandlerFields ==
  \A k \in {"open", "send", "reconnect", "new", "select"}, x \in Chat!Known,
     at \in {"loading", "refreshing", "connecting", "connected"} :
    Chat!Handler(k, x, at) \in Chat!Handlers
  BY DEF Chat!Handler, Chat!Handlers

(* While there is no connection nothing is shown of the control of the AI. *)
LEMMA QuietShown ==
  /\ Chat!Quiet \in Chat!Shown
  /\ ~Chat!Quiet.takeover /\ ~Chat!Quiet.overlay /\ ~Chat!Quiet.busy
  /\ \A x \in {"disconnected", "connecting", "connected", "error"} :
       /\ Chat!Disengaged(x) \in Chat!Shown
       /\ ~Chat!Disengaged(x).takeover /\ ~Chat!Disengaged(x).overlay /\ ~Chat!Disengaged(x).busy
  BY DEF Chat!Quiet, Chat!Shown, Chat!Disengaged

(* A message of the assistant, or an update of one. *)
LEMMA AssistantLists ==
  ASSUME s8 \in Seq(Chat!Messages), Distinct(s8), NEW id \in Ids, Chat!AssistantMessage(id), s5.socket \in Chat!Known
  PROVE  s8' \in Seq(Chat!Messages) /\ Distinct(s8') /\ \A a : AllOf(s8, a) /\ s5.socket = a => AllOf(s8', a)
  <1> DEFINE m == Chat!Message("assistant", id, s5.socket)
             same == {i \in DOMAIN s8 : s8[i].id = id}
  <1>0. id \in Ids \union {""} /\ id # ""
    BY IdsAssumption
  <1>1. m \in Chat!Messages /\ m.id = id /\ m.of = s5.socket /\ ~m.image
    BY <1>0, MessageFields, KindsKnown, Zenon
  <1>2. s8' = IF same = {} THEN Append(s8, m)
              ELSE [s8 EXCEPT ![CHOOSE i \in same : \A j \in same : i <= j] = m]
    BY DEF Chat!AssistantMessage
  <1> HIDE DEF m
  <1>3. CASE same = {}
    BY <1>0, <1>1, <1>2, <1>3, ListsGrow
  <1>4. CASE same # {}
    <2>1. PICK k \in same : TRUE
      BY <1>4
    <2>2. same = {k} /\ k \in DOMAIN s8 /\ s8[k].id = id
      BY <1>0, <1>1, <2>1 DEF Distinct
    <2>3. k \in Int
      BY <2>2
    <2>4. (CHOOSE i \in same : \A j \in same : i <= j) = k
      <3> HIDE DEF same
      <3>1. \A i \in same : i = k
        BY <2>2
      <3>2. k \in same /\ \A j \in same : k <= j
        BY <2>2, <2>3
      <3> QED
        BY <3>1, <3>2
    <2>5. s8' = [s8 EXCEPT ![k] = m]
      BY <1>2, <1>4, <2>4
    <2> QED
      BY <1>0, <1>1, <2>2, <2>5, ListsChange
  <1> QED
    BY <1>3, <1>4

(* A screenshot. *)
LEMMA ObservationLists ==
  ASSUME s8 \in Seq(Chat!Messages), Distinct(s8), Chat!Observation, s5.socket \in Chat!Known
  PROVE  s8' \in Seq(Chat!Messages) /\ Distinct(s8') /\ \A a : AllOf(s8, a) /\ s5.socket = a => AllOf(s8', a)
  <1> DEFINE m == Chat!Message("observation", "", s5.socket)
             longer == Append(s8, m)
  <1>1. m \in Chat!Messages /\ m.id = "" /\ m.of = s5.socket
    BY MessageFields, KindsKnown, Zenon
  <1>2. s8' = Chat!Retained(longer)
    BY DEF Chat!Observation
  <1> HIDE DEF m
  <1>3. longer \in Seq(Chat!Messages) /\ \A a : AllOf(s8, a) /\ s5.socket = a => AllOf(longer, a)
    BY <1>1, ListsGrow
  <1>4. \A i \in DOMAIN longer : \/ i \in DOMAIN s8 /\ longer[i] = s8[i]
                                 \/ i = Len(s8) + 1 /\ longer[i] = m
    BY <1>1, LongerList
  <1> HIDE DEF longer
  <1>5. \A i, j \in DOMAIN longer : i # j => longer[i].id = "" \/ longer[i].id # longer[j].id
    BY <1>1, <1>4 DEF Distinct
  <1> QED
    BY <1>2, <1>3, <1>5, ListsRetain

(* The gateway and its socket have a conversation. *)
LEMMA SocketKnown == ChatNames => s5.session \in Chat!Known /\ s5.socket \in Chat!Known
  BY DEF ChatNames

(* While the panel is shown it is the one that is active. *)
LEMMA GatewayFields ==
  Chat!GatewayOfConversation /\ s1 /\ ~s11 /\ s6 # "none" => s5.session = s3 /\ s5.socket = s3
  BY DEF Chat!GatewayOfConversation

(* The invariant of the chat holds at the beginning. *)
LEMMA ChatStarts == Chat!ChatInit => Chat!ChatInv
  <1> SUFFICES ASSUME Chat!ChatInit PROVE Chat!ChatInv
    OBVIOUS
  <1>1. ChatFlags
    BY DEF Chat!ChatInit, ChatFlags
  <1>2. ChatNames
    BY QuietShown DEF Chat!ChatInit, ChatNames, Chat!Known
  <1>3. s8 \in Seq(Chat!Messages) /\ Distinct(s8) /\ ~s1
    BY ListsStart DEF Chat!ChatInit
  <1>4. Chat!GatewayOfConversation
    BY DEF Chat!ChatInit, Chat!GatewayOfConversation
  <1>5. Chat!ClosedIsQuiet /\ Chat!ControlShownWhileOpen
    BY QuietShown DEF Chat!ChatInit, Chat!ClosedIsQuiet, Chat!ControlShownWhileOpen
  <1> QED
    BY <1>1, <1>2, <1>3, <1>4, <1>5, ChatParts

(* The socket opens. *)
LEMMA ChatOpensKeeps ==
  ASSUME Chat!ChatInv, Chat!SocketOpens
  PROVE  Chat!ChatInv'
  <1> USE DEF Chat!SocketOpens
  <1>0. /\ ChatFlags /\ ChatNames /\ s8 \in Seq(Chat!Messages) /\ Distinct(s8)
        /\ Chat!GatewayOfConversation /\ Chat!ClosedIsQuiet /\ Chat!ControlShownWhileOpen
        /\ (s1 /\ ~s11 => AllOf(s8, s3))
    BY ChatParts
  <1>1. ChatFlags'
    BY <1>0 DEF ChatFlags
  <1>2. ChatNames'
    <2>1. s3' \in Chat!Known
      BY <1>0 DEF ChatNames, Chat!Known, Chat!Handlers
    <2>2. s5' \in [session : Chat!Known, socket : Chat!Known]
      BY <1>0 DEF ChatNames, Chat!Known, Chat!Handlers
    <2>3. s6' \in {"none", "connecting", "open"}
      BY <1>0 DEF ChatNames
    <2>4. s7' \in Chat!Shown
      BY <1>0, QuietShown DEF ChatNames, Chat!Shown
    <2>5. s9' \subseteq Chat!Handlers
      BY <1>0, HandlerFields DEF ChatNames, Chat!Handlers, Chat!Known
    <2> QED
      BY <2>1, <2>2, <2>3, <2>4, <2>5 DEF ChatNames
  <1>3. s8' \in Seq(Chat!Messages) /\ Distinct(s8') /\ (s1' /\ ~s11' => AllOf(s8', s3'))
    BY <1>0, NoteAdded, SocketKnown, GatewayFields DEF ChatNames
  <1>4. Chat!GatewayOfConversation'
    BY <1>0 DEF Chat!GatewayOfConversation, ChatNames
  <1>5. Chat!ClosedIsQuiet'
    BY <1>0, QuietShown DEF Chat!ClosedIsQuiet
  <1>6. Chat!ControlShownWhileOpen'
    BY <1>0, QuietShown DEF Chat!ControlShownWhileOpen, Chat!ClosedIsQuiet
  <1> QED
    BY <1>1, <1>2, <1>3, <1>4, <1>5, <1>6, ChatPartsNext

(* It closes, or fails. *)
LEMMA ChatClosesKeeps ==
  ASSUME Chat!ChatInv, NEW error \in BOOLEAN, Chat!SocketCloses(error)
  PROVE  Chat!ChatInv'
  <1> USE DEF Chat!SocketCloses, Chat!Listened, Chat!Waiters
  <1>0. /\ ChatFlags /\ ChatNames /\ s8 \in Seq(Chat!Messages) /\ Distinct(s8)
        /\ Chat!GatewayOfConversation /\ Chat!ClosedIsQuiet /\ Chat!ControlShownWhileOpen
        /\ (s1 /\ ~s11 => AllOf(s8, s3))
    BY ChatParts
  <1>1. ChatFlags'
    BY <1>0 DEF ChatFlags
  <1>2. ChatNames'
    <2>1. s3' \in Chat!Known
      BY <1>0 DEF ChatNames, Chat!Known, Chat!Handlers
    <2>2. s5' \in [session : Chat!Known, socket : Chat!Known]
      BY <1>0 DEF ChatNames, Chat!Known, Chat!Handlers
    <2>3. s6' \in {"none", "connecting", "open"}
      BY <1>0 DEF ChatNames
    <2>4. s7' \in Chat!Shown
      BY <1>0, QuietShown DEF ChatNames, Chat!Shown
    <2>5. s9' \subseteq Chat!Handlers
      BY <1>0, HandlerFields DEF ChatNames, Chat!Handlers, Chat!Known
    <2> QED
      BY <2>1, <2>2, <2>3, <2>4, <2>5 DEF ChatNames
  <1>3. s8' \in Seq(Chat!Messages) /\ Distinct(s8') /\ (s1' /\ ~s11' => AllOf(s8', s3'))
    BY <1>0, NoteAdded DEF ChatNames
  <1>4. Chat!GatewayOfConversation'
    BY <1>0 DEF Chat!GatewayOfConversation, ChatNames
  <1>5. Chat!ClosedIsQuiet'
    BY <1>0, QuietShown DEF Chat!ClosedIsQuiet
  <1>6. Chat!ControlShownWhileOpen'
    BY <1>0, QuietShown DEF Chat!ControlShownWhileOpen, Chat!ClosedIsQuiet
  <1> QED
    BY <1>1, <1>2, <1>3, <1>4, <1>5, <1>6, ChatPartsNext

(* The panel connects by itself. *)
LEMMA ChatAutoKeeps ==
  ASSUME Chat!ChatInv, Chat!AutoConnect
  PROVE  Chat!ChatInv'
  <1> USE DEF Chat!AutoConnect, Chat!Connect, Chat!Listened
  <1>0. /\ ChatFlags /\ ChatNames /\ s8 \in Seq(Chat!Messages) /\ Distinct(s8)
        /\ Chat!GatewayOfConversation /\ Chat!ClosedIsQuiet /\ Chat!ControlShownWhileOpen
        /\ (s1 /\ ~s11 => AllOf(s8, s3))
    BY ChatParts
  <1>1. ChatFlags'
    BY <1>0 DEF ChatFlags
  <1>2. ChatNames'
    <2>1. s3' \in Chat!Known
      BY <1>0 DEF ChatNames, Chat!Known, Chat!Handlers
    <2>2. s5' \in [session : Chat!Known, socket : Chat!Known]
      BY <1>0 DEF ChatNames, Chat!Known, Chat!Handlers
    <2>3. s6' \in {"none", "connecting", "open"}
      BY <1>0 DEF ChatNames
    <2>4. s7' \in Chat!Shown
      BY <1>0, QuietShown DEF ChatNames, Chat!Shown
    <2>5. s9' \subseteq Chat!Handlers
      BY <1>0, HandlerFields DEF ChatNames, Chat!Handlers, Chat!Known
    <2> QED
      BY <2>1, <2>2, <2>3, <2>4, <2>5 DEF ChatNames
  <1>3. s8' \in Seq(Chat!Messages) /\ Distinct(s8') /\ (s1' /\ ~s11' => AllOf(s8', s3'))
    BY <1>0
  <1>4. Chat!GatewayOfConversation'
    BY <1>0 DEF Chat!GatewayOfConversation, ChatNames
  <1>5. Chat!ClosedIsQuiet'
    BY <1>0, QuietShown DEF Chat!ClosedIsQuiet
  <1>6. Chat!ControlShownWhileOpen'
    BY <1>0, QuietShown DEF Chat!ControlShownWhileOpen, Chat!ClosedIsQuiet
  <1> QED
    BY <1>1, <1>2, <1>3, <1>4, <1>5, <1>6, ChatPartsNext

(* A frame: the assistant types. *)
LEMMA ChatTypingKeeps ==
  ASSUME Chat!ChatInv, Chat!Typing
  PROVE  Chat!ChatInv'
  <1> USE DEF Chat!Typing, Chat!Frame
  <1>0. /\ ChatFlags /\ ChatNames /\ s8 \in Seq(Chat!Messages) /\ Distinct(s8)
        /\ Chat!GatewayOfConversation /\ Chat!ClosedIsQuiet /\ Chat!ControlShownWhileOpen
        /\ (s1 /\ ~s11 => AllOf(s8, s3))
    BY ChatParts
  <1>1. ChatFlags'
    BY <1>0 DEF ChatFlags
  <1>2. ChatNames'
    <2>1. s3' \in Chat!Known
      BY <1>0 DEF ChatNames, Chat!Known, Chat!Handlers
    <2>2. s5' \in [session : Chat!Known, socket : Chat!Known]
      BY <1>0 DEF ChatNames, Chat!Known, Chat!Handlers
    <2>3. s6' \in {"none", "connecting", "open"}
      BY <1>0 DEF ChatNames
    <2>4. s7' \in Chat!Shown
      BY <1>0, QuietShown DEF ChatNames, Chat!Shown
    <2>5. s9' \subseteq Chat!Handlers
      BY <1>0, HandlerFields DEF ChatNames, Chat!Handlers, Chat!Known
    <2> QED
      BY <2>1, <2>2, <2>3, <2>4, <2>5 DEF ChatNames
  <1>3. s8' \in Seq(Chat!Messages) /\ Distinct(s8') /\ (s1' /\ ~s11' => AllOf(s8', s3'))
    BY <1>0
  <1>4. Chat!GatewayOfConversation'
    BY <1>0 DEF Chat!GatewayOfConversation, ChatNames
  <1>5. Chat!ClosedIsQuiet'
    BY <1>0, QuietShown DEF Chat!ClosedIsQuiet
  <1>6. Chat!ControlShownWhileOpen'
    BY <1>0, QuietShown DEF Chat!ControlShownWhileOpen, Chat!ClosedIsQuiet
  <1> QED
    BY <1>1, <1>2, <1>3, <1>4, <1>5, <1>6, ChatPartsNext

(* A frame: an error. *)
LEMMA ChatErrorKeeps ==
  ASSUME Chat!ChatInv, Chat!ErrorFrame
  PROVE  Chat!ChatInv'
  <1> USE DEF Chat!ErrorFrame, Chat!Frame
  <1>0. /\ ChatFlags /\ ChatNames /\ s8 \in Seq(Chat!Messages) /\ Distinct(s8)
        /\ Chat!GatewayOfConversation /\ Chat!ClosedIsQuiet /\ Chat!ControlShownWhileOpen
        /\ (s1 /\ ~s11 => AllOf(s8, s3))
    BY ChatParts
  <1>1. ChatFlags'
    BY <1>0 DEF ChatFlags
  <1>2. ChatNames'
    <2>1. s3' \in Chat!Known
      BY <1>0 DEF ChatNames, Chat!Known, Chat!Handlers
    <2>2. s5' \in [session : Chat!Known, socket : Chat!Known]
      BY <1>0 DEF ChatNames, Chat!Known, Chat!Handlers
    <2>3. s6' \in {"none", "connecting", "open"}
      BY <1>0 DEF ChatNames
    <2>4. s7' \in Chat!Shown
      BY <1>0, QuietShown DEF ChatNames, Chat!Shown
    <2>5. s9' \subseteq Chat!Handlers
      BY <1>0, HandlerFields DEF ChatNames, Chat!Handlers, Chat!Known
    <2> QED
      BY <2>1, <2>2, <2>3, <2>4, <2>5 DEF ChatNames
  <1>3. s8' \in Seq(Chat!Messages) /\ Distinct(s8') /\ (s1' /\ ~s11' => AllOf(s8', s3'))
    BY <1>0, NoteAdded DEF ChatNames
  <1>4. Chat!GatewayOfConversation'
    BY <1>0 DEF Chat!GatewayOfConversation, ChatNames
  <1>5. Chat!ClosedIsQuiet'
    BY <1>0, QuietShown DEF Chat!ClosedIsQuiet
  <1>6. Chat!ControlShownWhileOpen'
    BY <1>0, QuietShown DEF Chat!ControlShownWhileOpen, Chat!ClosedIsQuiet
  <1> QED
    BY <1>1, <1>2, <1>3, <1>4, <1>5, <1>6, ChatPartsNext

(* A frame: the session is lost. *)
LEMMA ChatLostKeeps ==
  ASSUME Chat!ChatInv, NEW mcp \in BOOLEAN, Chat!ControlLost(mcp)
  PROVE  Chat!ChatInv'
  <1> USE DEF Chat!ControlLost, Chat!Frame
  <1>0. /\ ChatFlags /\ ChatNames /\ s8 \in Seq(Chat!Messages) /\ Distinct(s8)
        /\ Chat!GatewayOfConversation /\ Chat!ClosedIsQuiet /\ Chat!ControlShownWhileOpen
        /\ (s1 /\ ~s11 => AllOf(s8, s3))
    BY ChatParts
  <1>1. ChatFlags'
    BY <1>0 DEF ChatFlags
  <1>2. ChatNames'
    <2>1. s3' \in Chat!Known
      BY <1>0 DEF ChatNames, Chat!Known, Chat!Handlers
    <2>2. s5' \in [session : Chat!Known, socket : Chat!Known]
      BY <1>0 DEF ChatNames, Chat!Known, Chat!Handlers
    <2>3. s6' \in {"none", "connecting", "open"}
      BY <1>0 DEF ChatNames
    <2>4. s7' \in Chat!Shown
      BY <1>0, QuietShown DEF ChatNames, Chat!Shown
    <2>5. s9' \subseteq Chat!Handlers
      BY <1>0, HandlerFields DEF ChatNames, Chat!Handlers, Chat!Known
    <2> QED
      BY <2>1, <2>2, <2>3, <2>4, <2>5 DEF ChatNames
  <1>3. s8' \in Seq(Chat!Messages) /\ Distinct(s8') /\ (s1' /\ ~s11' => AllOf(s8', s3'))
    BY <1>0
  <1>4. Chat!GatewayOfConversation'
    BY <1>0 DEF Chat!GatewayOfConversation, ChatNames
  <1>5. Chat!ClosedIsQuiet'
    BY <1>0, QuietShown DEF Chat!ClosedIsQuiet
  <1>6. Chat!ControlShownWhileOpen'
    BY <1>0, QuietShown DEF Chat!ControlShownWhileOpen, Chat!ClosedIsQuiet
  <1> QED
    BY <1>1, <1>2, <1>3, <1>4, <1>5, <1>6, ChatPartsNext

(* A frame: a message of the assistant, or an update. *)
LEMMA ChatAssistantKeeps ==
  ASSUME Chat!ChatInv, NEW id \in Ids, Chat!AssistantMessage(id)
  PROVE  Chat!ChatInv'
  <1> USE DEF Chat!AssistantMessage, Chat!Frame
  <1>0. /\ ChatFlags /\ ChatNames /\ s8 \in Seq(Chat!Messages) /\ Distinct(s8)
        /\ Chat!GatewayOfConversation /\ Chat!ClosedIsQuiet /\ Chat!ControlShownWhileOpen
        /\ (s1 /\ ~s11 => AllOf(s8, s3))
    BY ChatParts
  <1>1. ChatFlags'
    BY <1>0 DEF ChatFlags
  <1>2. ChatNames'
    <2>1. s3' \in Chat!Known
      BY <1>0 DEF ChatNames, Chat!Known, Chat!Handlers
    <2>2. s5' \in [session : Chat!Known, socket : Chat!Known]
      BY <1>0 DEF ChatNames, Chat!Known, Chat!Handlers
    <2>3. s6' \in {"none", "connecting", "open"}
      BY <1>0 DEF ChatNames
    <2>4. s7' \in Chat!Shown
      BY <1>0, QuietShown DEF ChatNames, Chat!Shown
    <2>5. s9' \subseteq Chat!Handlers
      BY <1>0, HandlerFields DEF ChatNames, Chat!Handlers, Chat!Known
    <2> QED
      BY <2>1, <2>2, <2>3, <2>4, <2>5 DEF ChatNames
  <1>3. s8' \in Seq(Chat!Messages) /\ Distinct(s8') /\ (s1' /\ ~s11' => AllOf(s8', s3'))
    BY <1>0, AssistantLists, SocketKnown, GatewayFields DEF ChatNames
  <1>4. Chat!GatewayOfConversation'
    BY <1>0 DEF Chat!GatewayOfConversation, ChatNames
  <1>5. Chat!ClosedIsQuiet'
    BY <1>0, QuietShown DEF Chat!ClosedIsQuiet
  <1>6. Chat!ControlShownWhileOpen'
    BY <1>0, QuietShown DEF Chat!ControlShownWhileOpen, Chat!ClosedIsQuiet
  <1> QED
    BY <1>1, <1>2, <1>3, <1>4, <1>5, <1>6, ChatPartsNext

(* A frame: a screenshot. *)
LEMMA ChatObservationKeeps ==
  ASSUME Chat!ChatInv, Chat!Observation
  PROVE  Chat!ChatInv'
  <1> USE DEF Chat!Observation, Chat!Frame
  <1>0. /\ ChatFlags /\ ChatNames /\ s8 \in Seq(Chat!Messages) /\ Distinct(s8)
        /\ Chat!GatewayOfConversation /\ Chat!ClosedIsQuiet /\ Chat!ControlShownWhileOpen
        /\ (s1 /\ ~s11 => AllOf(s8, s3))
    BY ChatParts
  <1>1. ChatFlags'
    BY <1>0 DEF ChatFlags
  <1>2. ChatNames'
    <2>1. s3' \in Chat!Known
      BY <1>0 DEF ChatNames, Chat!Known, Chat!Handlers
    <2>2. s5' \in [session : Chat!Known, socket : Chat!Known]
      BY <1>0 DEF ChatNames, Chat!Known, Chat!Handlers
    <2>3. s6' \in {"none", "connecting", "open"}
      BY <1>0 DEF ChatNames
    <2>4. s7' \in Chat!Shown
      BY <1>0, QuietShown DEF ChatNames, Chat!Shown
    <2>5. s9' \subseteq Chat!Handlers
      BY <1>0, HandlerFields DEF ChatNames, Chat!Handlers, Chat!Known
    <2> QED
      BY <2>1, <2>2, <2>3, <2>4, <2>5 DEF ChatNames
  <1>3. s8' \in Seq(Chat!Messages) /\ Distinct(s8') /\ (s1' /\ ~s11' => AllOf(s8', s3'))
    BY <1>0, ObservationLists, SocketKnown, GatewayFields DEF ChatNames
  <1>4. Chat!GatewayOfConversation'
    BY <1>0 DEF Chat!GatewayOfConversation, ChatNames
  <1>5. Chat!ClosedIsQuiet'
    BY <1>0, QuietShown DEF Chat!ClosedIsQuiet
  <1>6. Chat!ControlShownWhileOpen'
    BY <1>0, QuietShown DEF Chat!ControlShownWhileOpen, Chat!ClosedIsQuiet
  <1> QED
    BY <1>1, <1>2, <1>3, <1>4, <1>5, <1>6, ChatPartsNext

(* A frame: an action of the AI. *)
LEMMA ChatActionKeeps ==
  ASSUME Chat!ChatInv, Chat!ToolAction
  PROVE  Chat!ChatInv'
  <1> USE DEF Chat!ToolAction, Chat!Frame
  <1>0. /\ ChatFlags /\ ChatNames /\ s8 \in Seq(Chat!Messages) /\ Distinct(s8)
        /\ Chat!GatewayOfConversation /\ Chat!ClosedIsQuiet /\ Chat!ControlShownWhileOpen
        /\ (s1 /\ ~s11 => AllOf(s8, s3))
    BY ChatParts
  <1>1. ChatFlags'
    BY <1>0 DEF ChatFlags
  <1>2. ChatNames'
    <2>1. s3' \in Chat!Known
      BY <1>0 DEF ChatNames, Chat!Known, Chat!Handlers
    <2>2. s5' \in [session : Chat!Known, socket : Chat!Known]
      BY <1>0 DEF ChatNames, Chat!Known, Chat!Handlers
    <2>3. s6' \in {"none", "connecting", "open"}
      BY <1>0 DEF ChatNames
    <2>4. s7' \in Chat!Shown
      BY <1>0, QuietShown DEF ChatNames, Chat!Shown
    <2>5. s9' \subseteq Chat!Handlers
      BY <1>0, HandlerFields DEF ChatNames, Chat!Handlers, Chat!Known
    <2> QED
      BY <2>1, <2>2, <2>3, <2>4, <2>5 DEF ChatNames
  <1>3. s8' \in Seq(Chat!Messages) /\ Distinct(s8') /\ (s1' /\ ~s11' => AllOf(s8', s3'))
    BY <1>0, MessageAdded, SocketKnown, GatewayFields DEF ChatNames, Chat!Kinds
  <1>4. Chat!GatewayOfConversation'
    BY <1>0 DEF Chat!GatewayOfConversation, ChatNames
  <1>5. Chat!ClosedIsQuiet'
    BY <1>0, QuietShown DEF Chat!ClosedIsQuiet
  <1>6. Chat!ControlShownWhileOpen'
    BY <1>0, QuietShown DEF Chat!ControlShownWhileOpen, Chat!ClosedIsQuiet
  <1> QED
    BY <1>1, <1>2, <1>3, <1>4, <1>5, <1>6, ChatPartsNext

(* The panel is opened. *)
LEMMA ChatOpenKeeps ==
  ASSUME Chat!ChatInv, Chat!OpenPanel
  PROVE  Chat!ChatInv'
  <1> USE DEF Chat!OpenPanel, Chat!ChatClick, Chat!Waiters
  <1>0. /\ ChatFlags /\ ChatNames /\ s8 \in Seq(Chat!Messages) /\ Distinct(s8)
        /\ Chat!GatewayOfConversation /\ Chat!ClosedIsQuiet /\ Chat!ControlShownWhileOpen
        /\ (s1 /\ ~s11 => AllOf(s8, s3))
    BY ChatParts
  <1>1. ChatFlags'
    BY <1>0 DEF ChatFlags
  <1>2. ChatNames'
    <2>1. s3' \in Chat!Known
      BY <1>0 DEF ChatNames, Chat!Known, Chat!Handlers
    <2>2. s5' \in [session : Chat!Known, socket : Chat!Known]
      BY <1>0 DEF ChatNames, Chat!Known, Chat!Handlers
    <2>3. s6' \in {"none", "connecting", "open"}
      BY <1>0 DEF ChatNames
    <2>4. s7' \in Chat!Shown
      BY <1>0, QuietShown DEF ChatNames, Chat!Shown
    <2>5. s9' \subseteq Chat!Handlers
      BY <1>0, HandlerFields DEF ChatNames, Chat!Handlers, Chat!Known
    <2> QED
      BY <2>1, <2>2, <2>3, <2>4, <2>5 DEF ChatNames
  <1>3. s8' \in Seq(Chat!Messages) /\ Distinct(s8') /\ (s1' /\ ~s11' => AllOf(s8', s3'))
    BY ListsStart
  <1>4. Chat!GatewayOfConversation'
    BY <1>0 DEF Chat!GatewayOfConversation, ChatNames
  <1>5. Chat!ClosedIsQuiet'
    BY <1>0, QuietShown DEF Chat!ClosedIsQuiet
  <1>6. Chat!ControlShownWhileOpen'
    BY <1>0, QuietShown DEF Chat!ControlShownWhileOpen, Chat!ClosedIsQuiet
  <1> QED
    BY <1>1, <1>2, <1>3, <1>4, <1>5, <1>6, ChatPartsNext

(* It is closed. *)
LEMMA ChatCloseKeeps ==
  ASSUME Chat!ChatInv, Chat!ClosePanel
  PROVE  Chat!ChatInv'
  <1> USE DEF Chat!ClosePanel, Chat!ChatClick, Chat!Waiters
  <1>0. /\ ChatFlags /\ ChatNames /\ s8 \in Seq(Chat!Messages) /\ Distinct(s8)
        /\ Chat!GatewayOfConversation /\ Chat!ClosedIsQuiet /\ Chat!ControlShownWhileOpen
        /\ (s1 /\ ~s11 => AllOf(s8, s3))
    BY ChatParts
  <1>1. ChatFlags'
    BY <1>0 DEF ChatFlags
  <1>2. ChatNames'
    <2>1. s3' \in Chat!Known
      BY <1>0 DEF ChatNames, Chat!Known, Chat!Handlers
    <2>2. s5' \in [session : Chat!Known, socket : Chat!Known]
      BY <1>0 DEF ChatNames, Chat!Known, Chat!Handlers
    <2>3. s6' \in {"none", "connecting", "open"}
      BY <1>0 DEF ChatNames
    <2>4. s7' \in Chat!Shown
      BY <1>0, QuietShown DEF ChatNames, Chat!Shown
    <2>5. s9' \subseteq Chat!Handlers
      BY <1>0, HandlerFields DEF ChatNames, Chat!Handlers, Chat!Known
    <2> QED
      BY <2>1, <2>2, <2>3, <2>4, <2>5 DEF ChatNames
  <1>3. s8' \in Seq(Chat!Messages) /\ Distinct(s8') /\ (s1' /\ ~s11' => AllOf(s8', s3'))
    BY <1>0
  <1>4. Chat!GatewayOfConversation'
    BY <1>0 DEF Chat!GatewayOfConversation, ChatNames
  <1>5. Chat!ClosedIsQuiet'
    BY <1>0, QuietShown DEF Chat!ClosedIsQuiet
  <1>6. Chat!ControlShownWhileOpen'
    BY <1>0, QuietShown DEF Chat!ControlShownWhileOpen, Chat!ClosedIsQuiet
  <1> QED
    BY <1>1, <1>2, <1>3, <1>4, <1>5, <1>6, ChatPartsNext

(* A message is sent. *)
LEMMA ChatSendKeeps ==
  ASSUME Chat!ChatInv, Chat!Send
  PROVE  Chat!ChatInv'
  <1> USE DEF Chat!Send, Chat!SendNow, Chat!ChatClick, Chat!Listened
  <1>0. /\ ChatFlags /\ ChatNames /\ s8 \in Seq(Chat!Messages) /\ Distinct(s8)
        /\ Chat!GatewayOfConversation /\ Chat!ClosedIsQuiet /\ Chat!ControlShownWhileOpen
        /\ (s1 /\ ~s11 => AllOf(s8, s3))
    BY ChatParts
  <1>1. ChatFlags'
    BY <1>0 DEF ChatFlags
  <1>2. ChatNames'
    <2>1. s3' \in Chat!Known
      BY <1>0 DEF ChatNames, Chat!Known, Chat!Handlers
    <2>2. s5' \in [session : Chat!Known, socket : Chat!Known]
      BY <1>0 DEF ChatNames, Chat!Known, Chat!Handlers
    <2>3. s6' \in {"none", "connecting", "open"}
      BY <1>0 DEF ChatNames
    <2>4. s7' \in Chat!Shown
      BY <1>0, QuietShown DEF ChatNames, Chat!Shown
    <2>5. s9' \subseteq Chat!Handlers
      <3>1. Chat!Handler("send", s3, "refreshing") \in Chat!Handlers
        BY <1>0, HandlerFields DEF ChatNames
      <3>2. s9' \subseteq s9 \union {Chat!Handler("send", s3, "refreshing")}
        BY Zenon
      <3> QED
        BY <1>0, <3>1, <3>2, Zenon DEF ChatNames
    <2> QED
      BY <2>1, <2>2, <2>3, <2>4, <2>5 DEF ChatNames
  <1>3. s8' \in Seq(Chat!Messages) /\ Distinct(s8') /\ (s1' /\ ~s11' => AllOf(s8', s3'))
    BY <1>0, MessageAdded, SocketKnown, GatewayFields DEF ChatNames, Chat!Kinds, Chat!Known
  <1>4. Chat!GatewayOfConversation'
    BY <1>0 DEF Chat!GatewayOfConversation, ChatNames
  <1>5. Chat!ClosedIsQuiet'
    BY <1>0, QuietShown DEF Chat!ClosedIsQuiet
  <1>6. Chat!ControlShownWhileOpen'
    BY <1>0, QuietShown DEF Chat!ControlShownWhileOpen, Chat!ClosedIsQuiet
  <1> QED
    BY <1>1, <1>2, <1>3, <1>4, <1>5, <1>6, ChatPartsNext

(* The operator reconnects. *)
LEMMA ChatReconnectKeeps ==
  ASSUME Chat!ChatInv, Chat!Reconnect
  PROVE  Chat!ChatInv'
  <1> USE DEF Chat!Reconnect, Chat!ChatClick
  <1>0. /\ ChatFlags /\ ChatNames /\ s8 \in Seq(Chat!Messages) /\ Distinct(s8)
        /\ Chat!GatewayOfConversation /\ Chat!ClosedIsQuiet /\ Chat!ControlShownWhileOpen
        /\ (s1 /\ ~s11 => AllOf(s8, s3))
    BY ChatParts
  <1>1. ChatFlags'
    BY <1>0 DEF ChatFlags
  <1>2. ChatNames'
    <2>1. s3' \in Chat!Known
      BY <1>0 DEF ChatNames, Chat!Known, Chat!Handlers
    <2>2. s5' \in [session : Chat!Known, socket : Chat!Known]
      BY <1>0 DEF ChatNames, Chat!Known, Chat!Handlers
    <2>3. s6' \in {"none", "connecting", "open"}
      BY <1>0 DEF ChatNames
    <2>4. s7' \in Chat!Shown
      BY <1>0, QuietShown DEF ChatNames, Chat!Shown
    <2>5. s9' \subseteq Chat!Handlers
      BY <1>0, HandlerFields DEF ChatNames, Chat!Handlers, Chat!Known
    <2> QED
      BY <2>1, <2>2, <2>3, <2>4, <2>5 DEF ChatNames
  <1>3. s8' \in Seq(Chat!Messages) /\ Distinct(s8') /\ (s1' /\ ~s11' => AllOf(s8', s3'))
    BY <1>0
  <1>4. Chat!GatewayOfConversation'
    BY <1>0 DEF Chat!GatewayOfConversation, ChatNames
  <1>5. Chat!ClosedIsQuiet'
    BY <1>0, QuietShown DEF Chat!ClosedIsQuiet
  <1>6. Chat!ControlShownWhileOpen'
    BY <1>0, QuietShown DEF Chat!ControlShownWhileOpen, Chat!ClosedIsQuiet
  <1> QED
    BY <1>1, <1>2, <1>3, <1>4, <1>5, <1>6, ChatPartsNext

(* A new conversation is begun. *)
LEMMA ChatNewKeeps ==
  ASSUME Chat!ChatInv, Chat!NewConversation
  PROVE  Chat!ChatInv'
  <1> USE DEF Chat!NewConversation, Chat!ChatClick, Chat!Waiters
  <1>0. /\ ChatFlags /\ ChatNames /\ s8 \in Seq(Chat!Messages) /\ Distinct(s8)
        /\ Chat!GatewayOfConversation /\ Chat!ClosedIsQuiet /\ Chat!ControlShownWhileOpen
        /\ (s1 /\ ~s11 => AllOf(s8, s3))
    BY ChatParts
  <1>1. ChatFlags'
    BY <1>0 DEF ChatFlags
  <1>2. ChatNames'
    <2>1. s3' \in Chat!Known
      BY <1>0 DEF ChatNames, Chat!Known, Chat!Handlers
    <2>2. s5' \in [session : Chat!Known, socket : Chat!Known]
      BY <1>0 DEF ChatNames, Chat!Known, Chat!Handlers
    <2>3. s6' \in {"none", "connecting", "open"}
      BY <1>0 DEF ChatNames
    <2>4. s7' \in Chat!Shown
      BY <1>0, QuietShown DEF ChatNames, Chat!Shown
    <2>5. s9' \subseteq Chat!Handlers
      BY <1>0, HandlerFields DEF ChatNames, Chat!Handlers, Chat!Known
    <2> QED
      BY <2>1, <2>2, <2>3, <2>4, <2>5 DEF ChatNames
  <1>3. s8' \in Seq(Chat!Messages) /\ Distinct(s8') /\ (s1' /\ ~s11' => AllOf(s8', s3'))
    BY ListsStart
  <1>4. Chat!GatewayOfConversation'
    BY <1>0 DEF Chat!GatewayOfConversation, ChatNames
  <1>5. Chat!ClosedIsQuiet'
    BY <1>0, QuietShown DEF Chat!ClosedIsQuiet
  <1>6. Chat!ControlShownWhileOpen'
    BY <1>0, QuietShown DEF Chat!ControlShownWhileOpen, Chat!ClosedIsQuiet
  <1> QED
    BY <1>1, <1>2, <1>3, <1>4, <1>5, <1>6, ChatPartsNext

(* The AI is stopped. *)
LEMMA ChatStopKeeps ==
  ASSUME Chat!ChatInv, Chat!Stop
  PROVE  Chat!ChatInv'
  <1> USE DEF Chat!Stop, Chat!ChatClick
  <1>0. /\ ChatFlags /\ ChatNames /\ s8 \in Seq(Chat!Messages) /\ Distinct(s8)
        /\ Chat!GatewayOfConversation /\ Chat!ClosedIsQuiet /\ Chat!ControlShownWhileOpen
        /\ (s1 /\ ~s11 => AllOf(s8, s3))
    BY ChatParts
  <1>1. ChatFlags'
    BY <1>0 DEF ChatFlags
  <1>2. ChatNames'
    <2>1. s3' \in Chat!Known
      BY <1>0 DEF ChatNames, Chat!Known, Chat!Handlers
    <2>2. s5' \in [session : Chat!Known, socket : Chat!Known]
      BY <1>0 DEF ChatNames, Chat!Known, Chat!Handlers
    <2>3. s6' \in {"none", "connecting", "open"}
      BY <1>0 DEF ChatNames
    <2>4. s7' \in Chat!Shown
      BY <1>0, QuietShown DEF ChatNames, Chat!Shown
    <2>5. s9' \subseteq Chat!Handlers
      BY <1>0, HandlerFields DEF ChatNames, Chat!Handlers, Chat!Known
    <2> QED
      BY <2>1, <2>2, <2>3, <2>4, <2>5 DEF ChatNames
  <1>3. s8' \in Seq(Chat!Messages) /\ Distinct(s8') /\ (s1' /\ ~s11' => AllOf(s8', s3'))
    BY <1>0, NoteAdded DEF ChatNames
  <1>4. Chat!GatewayOfConversation'
    BY <1>0 DEF Chat!GatewayOfConversation, ChatNames
  <1>5. Chat!ClosedIsQuiet'
    BY <1>0, QuietShown DEF Chat!ClosedIsQuiet
  <1>6. Chat!ControlShownWhileOpen'
    BY <1>0, QuietShown DEF Chat!ControlShownWhileOpen, Chat!ClosedIsQuiet
  <1> QED
    BY <1>1, <1>2, <1>3, <1>4, <1>5, <1>6, ChatPartsNext

(* Another conversation is selected. *)
LEMMA ChatSelectKeeps ==
  ASSUME Chat!ChatInv, NEW s \in Stored, Chat!Select(s)
  PROVE  Chat!ChatInv'
  <1> USE DEF Chat!Select, Chat!ChatClick
  <1>0. /\ ChatFlags /\ ChatNames /\ s8 \in Seq(Chat!Messages) /\ Distinct(s8)
        /\ Chat!GatewayOfConversation /\ Chat!ClosedIsQuiet /\ Chat!ControlShownWhileOpen
        /\ (s1 /\ ~s11 => AllOf(s8, s3))
    BY ChatParts
  <1>1. ChatFlags'
    BY <1>0 DEF ChatFlags
  <1>2. ChatNames'
    <2>1. s3' \in Chat!Known
      BY <1>0 DEF ChatNames, Chat!Known, Chat!Handlers
    <2>2. s5' \in [session : Chat!Known, socket : Chat!Known]
      BY <1>0 DEF ChatNames, Chat!Known, Chat!Handlers
    <2>3. s6' \in {"none", "connecting", "open"}
      BY <1>0 DEF ChatNames
    <2>4. s7' \in Chat!Shown
      BY <1>0, QuietShown DEF ChatNames, Chat!Shown
    <2>5. s9' \subseteq Chat!Handlers
      BY <1>0, HandlerFields DEF ChatNames, Chat!Handlers, Chat!Known
    <2> QED
      BY <2>1, <2>2, <2>3, <2>4, <2>5 DEF ChatNames
  <1>3. s8' \in Seq(Chat!Messages) /\ Distinct(s8') /\ (s1' /\ ~s11' => AllOf(s8', s3'))
    BY <1>0
  <1>4. Chat!GatewayOfConversation'
    BY <1>0 DEF Chat!GatewayOfConversation, ChatNames
  <1>5. Chat!ClosedIsQuiet'
    BY <1>0, QuietShown DEF Chat!ClosedIsQuiet
  <1>6. Chat!ControlShownWhileOpen'
    BY <1>0, QuietShown DEF Chat!ControlShownWhileOpen, Chat!ClosedIsQuiet
  <1> QED
    BY <1>1, <1>2, <1>3, <1>4, <1>5, <1>6, ChatPartsNext

(* Its messages have been loaded. *)
LEMMA ChatLoadedKeeps ==
  ASSUME Chat!ChatInv, NEW h \in s9, Chat!Loaded(h)
  PROVE  Chat!ChatInv'
  <1> USE DEF Chat!Loaded, Chat!Listened, Chat!Waiters
  <1>0. /\ ChatFlags /\ ChatNames /\ s8 \in Seq(Chat!Messages) /\ Distinct(s8)
        /\ Chat!GatewayOfConversation /\ Chat!ClosedIsQuiet /\ Chat!ControlShownWhileOpen
        /\ (s1 /\ ~s11 => AllOf(s8, s3))
    BY ChatParts
  <1>1. ChatFlags'
    BY <1>0 DEF ChatFlags
  <1>2. ChatNames'
    <2>1. s3' \in Chat!Known
      BY <1>0 DEF ChatNames, Chat!Known, Chat!Handlers
    <2>2. s5' \in [session : Chat!Known, socket : Chat!Known]
      BY <1>0 DEF ChatNames, Chat!Known, Chat!Handlers
    <2>3. s6' \in {"none", "connecting", "open"}
      BY <1>0 DEF ChatNames
    <2>4. s7' \in Chat!Shown
      BY <1>0, QuietShown DEF ChatNames, Chat!Shown
    <2>5. s9' \subseteq Chat!Handlers
      <3>1. [h EXCEPT !.at = "refreshing"] \in Chat!Handlers
        BY <1>0 DEF ChatNames, Chat!Handlers
      <3>2. s9' \subseteq s9 \union {[h EXCEPT !.at = "refreshing"]}
        BY Zenon
      <3> QED
        BY <1>0, <3>1, <3>2, Zenon DEF ChatNames
    <2> QED
      BY <2>1, <2>2, <2>3, <2>4, <2>5 DEF ChatNames
  <1>3. s8' \in Seq(Chat!Messages) /\ Distinct(s8') /\ (s1' /\ ~s11' => AllOf(s8', s3'))
    BY <1>0, ListsStart DEF ChatNames, Chat!Handlers
  <1>4. Chat!GatewayOfConversation'
    BY <1>0 DEF Chat!GatewayOfConversation, ChatNames
  <1>5. Chat!ClosedIsQuiet'
    BY <1>0, QuietShown DEF Chat!ClosedIsQuiet
  <1>6. Chat!ControlShownWhileOpen'
    BY <1>0, QuietShown DEF Chat!ControlShownWhileOpen, Chat!ClosedIsQuiet
  <1> QED
    BY <1>1, <1>2, <1>3, <1>4, <1>5, <1>6, ChatPartsNext

(* They could not be. *)
LEMMA ChatNotLoadedKeeps ==
  ASSUME Chat!ChatInv, NEW h \in s9, Chat!NotLoaded(h)
  PROVE  Chat!ChatInv'
  <1> USE DEF Chat!NotLoaded
  <1>0. /\ ChatFlags /\ ChatNames /\ s8 \in Seq(Chat!Messages) /\ Distinct(s8)
        /\ Chat!GatewayOfConversation /\ Chat!ClosedIsQuiet /\ Chat!ControlShownWhileOpen
        /\ (s1 /\ ~s11 => AllOf(s8, s3))
    BY ChatParts
  <1>1. ChatFlags'
    BY <1>0 DEF ChatFlags
  <1>2. ChatNames'
    <2>1. s3' \in Chat!Known
      BY <1>0 DEF ChatNames, Chat!Known, Chat!Handlers
    <2>2. s5' \in [session : Chat!Known, socket : Chat!Known]
      BY <1>0 DEF ChatNames, Chat!Known, Chat!Handlers
    <2>3. s6' \in {"none", "connecting", "open"}
      BY <1>0 DEF ChatNames
    <2>4. s7' \in Chat!Shown
      BY <1>0, QuietShown DEF ChatNames, Chat!Shown
    <2>5. s9' \subseteq Chat!Handlers
      BY <1>0, HandlerFields DEF ChatNames, Chat!Handlers, Chat!Known
    <2> QED
      BY <2>1, <2>2, <2>3, <2>4, <2>5 DEF ChatNames
  <1>3. s8' \in Seq(Chat!Messages) /\ Distinct(s8') /\ (s1' /\ ~s11' => AllOf(s8', s3'))
    BY <1>0, NoteAdded DEF ChatNames
  <1>4. Chat!GatewayOfConversation'
    BY <1>0 DEF Chat!GatewayOfConversation, ChatNames
  <1>5. Chat!ClosedIsQuiet'
    BY <1>0, QuietShown DEF Chat!ClosedIsQuiet
  <1>6. Chat!ControlShownWhileOpen'
    BY <1>0, QuietShown DEF Chat!ControlShownWhileOpen, Chat!ClosedIsQuiet
  <1> QED
    BY <1>1, <1>2, <1>3, <1>4, <1>5, <1>6, ChatPartsNext

(* The status of the runtime has been asked for again. *)
LEMMA ChatRefreshedKeeps ==
  ASSUME Chat!ChatInv, NEW h \in s9, Chat!Refreshed(h)
  PROVE  Chat!ChatInv'
  <1> USE DEF Chat!Refreshed, Chat!Connect, Chat!Listened
  <1>0. /\ ChatFlags /\ ChatNames /\ s8 \in Seq(Chat!Messages) /\ Distinct(s8)
        /\ Chat!GatewayOfConversation /\ Chat!ClosedIsQuiet /\ Chat!ControlShownWhileOpen
        /\ (s1 /\ ~s11 => AllOf(s8, s3))
    BY ChatParts
  <1>1. ChatFlags'
    BY <1>0 DEF ChatFlags
  <1>2. ChatNames'
    <2>1. s3' \in Chat!Known
      BY <1>0 DEF ChatNames, Chat!Known, Chat!Handlers
    <2>2. s5' \in [session : Chat!Known, socket : Chat!Known]
      BY <1>0 DEF ChatNames, Chat!Known, Chat!Handlers
    <2>3. s6' \in {"none", "connecting", "open"}
      BY <1>0 DEF ChatNames
    <2>4. s7' \in Chat!Shown
      BY <1>0, QuietShown DEF ChatNames, Chat!Shown
    <2>5. s9' \subseteq Chat!Handlers
      BY <1>0, HandlerFields DEF ChatNames, Chat!Handlers, Chat!Known
    <2> QED
      BY <2>1, <2>2, <2>3, <2>4, <2>5 DEF ChatNames
  <1>3. s8' \in Seq(Chat!Messages) /\ Distinct(s8') /\ (s1' /\ ~s11' => AllOf(s8', s3'))
    BY <1>0, NoteAdded DEF ChatNames
  <1>4. Chat!GatewayOfConversation'
    <2> SUFFICES ASSUME s1', ~s11', s6' # "none" PROVE s5' = [session |-> s3', socket |-> s3']
      BY DEF Chat!GatewayOfConversation
    <2>1. s1 /\ ~s11 /\ h.session = s3 /\ s3' = s3
      BY <1>0 DEF ChatFlags
    <2>2. s6 = "none" => s5' = [session |-> s3, socket |-> s3]
      BY <2>1
    <2>3. s6 # "none" => s5.socket = s3
      BY <1>0, <2>1, GatewayFields
    <2> QED
      BY <2>1, <2>2, <2>3
  <1>5. Chat!ClosedIsQuiet'
    BY <1>0, QuietShown DEF Chat!ClosedIsQuiet
  <1>6. Chat!ControlShownWhileOpen'
    BY <1>0, QuietShown DEF Chat!ControlShownWhileOpen, Chat!ClosedIsQuiet
  <1> QED
    BY <1>1, <1>2, <1>3, <1>4, <1>5, <1>6, ChatPartsNext

(* It could not be. *)
LEMMA ChatNotRefreshedKeeps ==
  ASSUME Chat!ChatInv, NEW h \in s9, Chat!NotRefreshed(h)
  PROVE  Chat!ChatInv'
  <1> USE DEF Chat!NotRefreshed
  <1>0. /\ ChatFlags /\ ChatNames /\ s8 \in Seq(Chat!Messages) /\ Distinct(s8)
        /\ Chat!GatewayOfConversation /\ Chat!ClosedIsQuiet /\ Chat!ControlShownWhileOpen
        /\ (s1 /\ ~s11 => AllOf(s8, s3))
    BY ChatParts
  <1>1. ChatFlags'
    BY <1>0 DEF ChatFlags
  <1>2. ChatNames'
    <2>1. s3' \in Chat!Known
      BY <1>0 DEF ChatNames, Chat!Known, Chat!Handlers
    <2>2. s5' \in [session : Chat!Known, socket : Chat!Known]
      BY <1>0 DEF ChatNames, Chat!Known, Chat!Handlers
    <2>3. s6' \in {"none", "connecting", "open"}
      BY <1>0 DEF ChatNames
    <2>4. s7' \in Chat!Shown
      BY <1>0, QuietShown DEF ChatNames, Chat!Shown
    <2>5. s9' \subseteq Chat!Handlers
      BY <1>0, HandlerFields DEF ChatNames, Chat!Handlers, Chat!Known
    <2> QED
      BY <2>1, <2>2, <2>3, <2>4, <2>5 DEF ChatNames
  <1>3. s8' \in Seq(Chat!Messages) /\ Distinct(s8') /\ (s1' /\ ~s11' => AllOf(s8', s3'))
    BY <1>0, NoteAdded DEF ChatNames
  <1>4. Chat!GatewayOfConversation'
    BY <1>0 DEF Chat!GatewayOfConversation, ChatNames
  <1>5. Chat!ClosedIsQuiet'
    BY <1>0, QuietShown DEF Chat!ClosedIsQuiet
  <1>6. Chat!ControlShownWhileOpen'
    BY <1>0, QuietShown DEF Chat!ControlShownWhileOpen, Chat!ClosedIsQuiet
  <1> QED
    BY <1>1, <1>2, <1>3, <1>4, <1>5, <1>6, ChatPartsNext

(* The connection has been waited for. *)
LEMMA ChatConnectedKeeps ==
  ASSUME Chat!ChatInv, NEW h \in s9, Chat!Connected(h)
  PROVE  Chat!ChatInv'
  <1> USE DEF Chat!Connected, Chat!SendNow, Chat!Listened
  <1>0. /\ ChatFlags /\ ChatNames /\ s8 \in Seq(Chat!Messages) /\ Distinct(s8)
        /\ Chat!GatewayOfConversation /\ Chat!ClosedIsQuiet /\ Chat!ControlShownWhileOpen
        /\ (s1 /\ ~s11 => AllOf(s8, s3))
    BY ChatParts
  <1>1. ChatFlags'
    BY <1>0 DEF ChatFlags
  <1>2. ChatNames'
    <2>1. s3' \in Chat!Known
      BY <1>0 DEF ChatNames, Chat!Known, Chat!Handlers
    <2>2. s5' \in [session : Chat!Known, socket : Chat!Known]
      BY <1>0 DEF ChatNames, Chat!Known, Chat!Handlers
    <2>3. s6' \in {"none", "connecting", "open"}
      BY <1>0 DEF ChatNames
    <2>4. s7' \in Chat!Shown
      BY <1>0, QuietShown DEF ChatNames, Chat!Shown
    <2>5. s9' \subseteq Chat!Handlers
      BY <1>0, HandlerFields DEF ChatNames, Chat!Handlers, Chat!Known
    <2> QED
      BY <2>1, <2>2, <2>3, <2>4, <2>5 DEF ChatNames
  <1>3. s8' \in Seq(Chat!Messages) /\ Distinct(s8') /\ (s1' /\ ~s11' => AllOf(s8', s3'))
    BY <1>0, MessageAdded, SocketKnown, GatewayFields DEF ChatNames, Chat!Kinds, Chat!Known
  <1>4. Chat!GatewayOfConversation'
    BY <1>0 DEF Chat!GatewayOfConversation, ChatNames
  <1>5. Chat!ClosedIsQuiet'
    BY <1>0, QuietShown DEF Chat!ClosedIsQuiet
  <1>6. Chat!ControlShownWhileOpen'
    BY <1>0, QuietShown DEF Chat!ControlShownWhileOpen, Chat!ClosedIsQuiet
  <1> QED
    BY <1>1, <1>2, <1>3, <1>4, <1>5, <1>6, ChatPartsNext

(* The time for it is over. *)
LEMMA ChatIdlesKeeps ==
  ASSUME Chat!ChatInv, UNCHANGED Chat!chatVars
  PROVE  Chat!ChatInv'
  <1> USE DEF Chat!chatVars
  <1>0. /\ ChatFlags /\ ChatNames /\ s8 \in Seq(Chat!Messages) /\ Distinct(s8)
        /\ Chat!GatewayOfConversation /\ Chat!ClosedIsQuiet /\ Chat!ControlShownWhileOpen
        /\ (s1 /\ ~s11 => AllOf(s8, s3))
    BY ChatParts
  <1>1. ChatFlags'
    BY <1>0 DEF ChatFlags
  <1>2. ChatNames'
    <2>1. s3' \in Chat!Known
      BY <1>0 DEF ChatNames, Chat!Known, Chat!Handlers
    <2>2. s5' \in [session : Chat!Known, socket : Chat!Known]
      BY <1>0 DEF ChatNames, Chat!Known, Chat!Handlers
    <2>3. s6' \in {"none", "connecting", "open"}
      BY <1>0 DEF ChatNames
    <2>4. s7' \in Chat!Shown
      BY <1>0, QuietShown DEF ChatNames, Chat!Shown
    <2>5. s9' \subseteq Chat!Handlers
      BY <1>0, HandlerFields DEF ChatNames, Chat!Handlers, Chat!Known
    <2> QED
      BY <2>1, <2>2, <2>3, <2>4, <2>5 DEF ChatNames
  <1>3. s8' \in Seq(Chat!Messages) /\ Distinct(s8') /\ (s1' /\ ~s11' => AllOf(s8', s3'))
    BY <1>0
  <1>4. Chat!GatewayOfConversation'
    BY <1>0 DEF Chat!GatewayOfConversation, ChatNames
  <1>5. Chat!ClosedIsQuiet'
    BY <1>0, QuietShown DEF Chat!ClosedIsQuiet
  <1>6. Chat!ControlShownWhileOpen'
    BY <1>0, QuietShown DEF Chat!ControlShownWhileOpen, Chat!ClosedIsQuiet
  <1> QED
    BY <1>1, <1>2, <1>3, <1>4, <1>5, <1>6, ChatPartsNext

(* Every frame, answer and click keeps the invariant of the chat. *)
LEMMA ChatKeeps == Chat!ChatInv /\ [Chat!ChatNext]_(Chat!chatVars) => Chat!ChatInv'
  BY ChatOpensKeeps, ChatClosesKeeps, ChatAutoKeeps, ChatTypingKeeps, ChatErrorKeeps, ChatLostKeeps,
    ChatAssistantKeeps, ChatObservationKeeps, ChatActionKeeps, ChatOpenKeeps, ChatCloseKeeps, ChatSendKeeps,
    ChatReconnectKeeps, ChatNewKeeps, ChatStopKeeps, ChatSelectKeeps, ChatLoadedKeeps, ChatNotLoadedKeeps,
    ChatRefreshedKeeps, ChatNotRefreshedKeeps, ChatConnectedKeeps, ChatIdlesKeeps
  DEF Chat!ChatNext

(* It has in it what the chat promises. *)
LEMMA ChatPromises ==
  Chat!ChatInv => Chat!ChatTypeOK /\ Chat!MessagesOfConversation /\ Chat!ControlShownWhileOpen /\ Chat!OneOfEach
  <1> SUFFICES ASSUME Chat!ChatInv
               PROVE  Chat!ChatTypeOK /\ Chat!MessagesOfConversation /\ Chat!ControlShownWhileOpen /\ Chat!OneOfEach
    OBVIOUS
  <1>1. Chat!MessagesOfConversation /\ Chat!ControlShownWhileOpen /\ Chat!OneOfEach
    BY DEF Chat!ChatInv
  <1>2. ChatFlags /\ ChatNames /\ s8 \in Seq(Chat!Messages)
    BY ChatParts
  <1>3. \A i \in DOMAIN s8 : s8[i] \in Chat!Messages
    BY <1>2, ElementOfSeq
  <1>4. \A i \in DOMAIN s8 : s8[i].kind \in Chat!Kinds /\ s8[i].image \in BOOLEAN
    BY <1>3, Zenon DEF Chat!Messages
  <1>5. \A h \in s9 : h.at \in {"loading", "refreshing", "connecting", "connected"}
    BY <1>2 DEF ChatNames, Chat!Handlers
  <1>6. /\ s1 \in BOOLEAN /\ s4 \in BOOLEAN /\ s10 \in BOOLEAN /\ s11 \in BOOLEAN
        /\ s3 \in Chat!Known /\ s5 \in [session : Chat!Known, socket : Chat!Known]
        /\ s6 \in {"none", "connecting", "open"} /\ s7 \in Chat!Shown
    BY <1>2, Zenon DEF ChatFlags, ChatNames
  <1> QED
    BY <1>1, <1>4, <1>5, <1>6, Zenon DEF Chat!ChatTypeOK

(* However frames, answers and clicks overlap: the messages shown are those   *)
(* of the conversation that is active, unless the panel was closed while one  *)
(* was being switched to; an update stays one message; and the AI is shown in *)
(* control only over an open socket (picoclaw-gateway.ts,                     *)
(* sidebar-session-actions.ts, sidebar-effects.ts).                           *)
THEOREM ChatHolds ==
  Chat!ChatSpec => [](/\ Chat!ChatTypeOK /\ Chat!MessagesOfConversation
                      /\ Chat!ControlShownWhileOpen /\ Chat!OneOfEach)
  BY ChatStarts, ChatKeeps, ChatPromises, PTL DEF Chat!ChatSpec

-------------------------------------------------------------------------------
(******************************************************************************)
(* Preferences.                                                               *)
(* s1, s2, ... are its key, browser, stored, chosen, pages, today,            *)
(* preferenceEvents.                                                          *)
(******************************************************************************)

(* What is applied of a preference nobody has chosen. *)
LEMMA DefaultOf ==
  /\ s1 = "style" => Preference!Default = "cursor-default"
  /\ s1 = "mouseMode" => Preference!Default = "absolute"
  /\ s1 = "interval" => Preference!Default = 0
  /\ s1 = "direction" => Preference!Default = -1
  /\ s1 = "scale" => Preference!Default = 100
  /\ s1 = "video" => Preference!Default = Preference!DefaultVideoMode
  /\ s1 = "icons" => Preference!Default = {}
  /\ s1 = "menuMode" => Preference!Default = "auto"
  /\ s1 = "leds" => Preference!Default = TRUE
  /\ s1 = "power" => Preference!Default = FALSE
  /\ s1 = "system" => Preference!Default = "win"
  /\ s1 \in {"keyboard", "language"} => Preference!Default = "en"
  /\ s1 \in Preference!Notices => Preference!Default = TRUE
  /\ s1 = "resolution" => Preference!Default = 0
  /\ s1 = "quality" => Preference!Default = 2
  /\ s1 \in {"fps", "gop"} => Preference!Default = 30
  BY DEF Preference!Default, Preference!Notices

(* What a page should show: a preference is what was chosen last, a notice is due when its days are over. *)
LEMMA WantedOf ==
  ASSUME NEW p
  PROVE  /\ s1 \in Preference!Notices =>
              Preference!Wanted(p) = (s4 = <<>> \/ p.day > s4[1] + Preference!SkipDays)
         /\ s1 \notin Preference!Notices /\ s4 = <<>> => Preference!Wanted(p) = Preference!Default
         /\ s1 \notin Preference!Notices /\ s4 # <<>> => Preference!Wanted(p) = s4[1]
  BY Zenon DEF Preference!Wanted

(* What a page reads when it is loaded. *)
LEMMA MountedOf ==
  ASSUME NEW v
  PROVE  /\ s1 \in Preference!MouseKeys => Preference!Mounted(v) = Preference!MouseRead(v)
         /\ s1 = "video" => Preference!Mounted(v) = Preference!VideoRead
         /\ s1 = "icons" => Preference!Mounted(v) = Preference!IconsRead
         /\ s1 = "menuMode" => Preference!Mounted(v) = Preference!MenuModeRead
         /\ s1 = "leds" => Preference!Mounted(v) = Preference!LedsRead
         /\ s1 = "power" => Preference!Mounted(v) = Preference!ConfirmRead
         /\ s1 \in {"system", "keyboard"} => Preference!Mounted(v) = Preference!LayoutRead
         /\ s1 \in Preference!Notices => Preference!Mounted(v) = Preference!Due
         /\ s1 = "resolution" => Preference!Mounted(v) = Preference!ResolutionRead
         /\ s1 = "quality" => Preference!Mounted(v) = 2
         /\ s1 \in {"fps", "gop"} => Preference!Mounted(v) = 30
         /\ s1 \in {"scale", "language"} => Preference!Mounted(v) = v
  BY Zenon DEF Preference!Mounted, Preference!MouseKeys, Preference!Notices

(* What is stored of a preference is the last choice; of a notice the day until which it stays away. *)
LEMMA StoredOf ==
  ASSUME Preference!StoredIsChosen
  PROVE  /\ s1 \notin Preference!Notices => s3 = s4
         /\ s1 \in Preference!Notices /\ s3 # <<>> => s4 # <<>> /\ s3 = << s4[1] + Preference!SkipDays >>
         /\ s1 \in Preference!Notices /\ s3 = <<>> /\ s4 # <<>> => s6 > s4[1] + Preference!SkipDays
  BY Zenon DEF Preference!StoredIsChosen

(* A stored value is one. *)
LEMMA SingleValue == \A x, y : <<x>> # <<>> /\ (<<x>> = <<y>> => x = y) /\ <<x>>[1] = x
  OBVIOUS

(* A notice is no preference. *)
LEMMA KeysApart ==
  /\ \A k \in Preference!MouseKeys : k \notin Preference!Notices
  /\ \A k \in {"video", "icons", "menuMode", "leds", "power", "system", "keyboard", "resolution", "scale",
               "language", "quality", "fps", "gop"} : k \notin Preference!Notices
  BY DEF Preference!MouseKeys, Preference!Notices

(* What a page that is mounted applies. *)
LEMMA MountedIsWanted ==
  ASSUME Preference!StoredIsChosen, Preference!ChosenWasOffered, Preference!AtMostOne(s4), NEW v, NEW p, p.day = s6,
         s1 \in Preference!Keys \ {"scale", "language", "quality", "fps", "gop"},
         s1 \in Preference!MouseKeys /\ s4 = <<>> => v = Preference!Default,
         s1 = "interval" /\ s4 # <<>> /\ s4[1] = 0 => v = 0
  PROVE  Preference!Mounted(v) = Preference!Wanted(p)
  <1>1. CASE s1 \in Preference!MouseKeys
    <2>1. s1 \notin Preference!Notices /\ s3 = s4
      BY <1>1, KeysApart, StoredOf, Zenon
    <2>2. Preference!Mounted(v) = Preference!MouseRead(v)
      BY <1>1, MountedOf, Zenon
    <2>3. CASE s4 = <<>>
      BY <1>1, <2>1, <2>2, <2>3, WantedOf, Zenon DEF Preference!MouseRead
    <2>4. CASE s4 # <<>>
      BY <1>1, <2>1, <2>2, <2>4, WantedOf, Zenon DEF Preference!MouseRead
    <2> QED
      BY <2>3, <2>4
  <1>2. CASE s1 = "video"
    <2>1. s1 \notin Preference!Notices /\ s3 = s4 /\ Preference!Mounted(v) = Preference!VideoRead
      BY <1>2, KeysApart, StoredOf, MountedOf, Zenon
    <2>2. s4 # <<>> => (s4[1] = "direct" => s2 = "all")
      BY <1>2, Zenon DEF Preference!ChosenWasOffered
    <2> QED
      BY <1>2, <2>1, <2>2, WantedOf, DefaultOf, Zenon DEF Preference!VideoRead
  <1>3. CASE s1 \in {"icons", "menuMode", "system", "keyboard", "resolution"}
    <2>1. s1 \notin Preference!Notices /\ s3 = s4
      BY <1>3, KeysApart, StoredOf, Zenon
    <2>2. CASE s1 = "icons"
      BY <2>1, <2>2, WantedOf, DefaultOf, MountedOf, Zenon DEF Preference!IconsRead
    <2>3. CASE s1 = "menuMode"
      BY <2>1, <2>3, WantedOf, DefaultOf, MountedOf, Zenon DEF Preference!MenuModeRead
    <2>4. CASE s1 = "system"
      <3>1. Preference!Mounted(v) = Preference!LayoutRead /\ Preference!Default = "win"
        BY <2>4, MountedOf, DefaultOf, Zenon
      <3>2. Preference!LayoutRead = IF s3 # <<>> THEN s3[1] ELSE "win"
        BY <2>4, Zenon DEF Preference!LayoutRead
      <3> QED
        BY <2>1, <3>1, <3>2, WantedOf, Zenon
    <2>5. CASE s1 = "keyboard"
      <3>1. s1 # "system"
        BY <2>5
      <3> QED
        BY <2>1, <2>5, <3>1, WantedOf, DefaultOf, MountedOf, Zenon DEF Preference!LayoutRead
    <2>6. CASE s1 = "resolution"
      BY <2>1, <2>6, WantedOf, DefaultOf, MountedOf, Zenon DEF Preference!ResolutionRead
    <2> QED
      BY <1>3, <2>2, <2>3, <2>4, <2>5, <2>6
  <1>4. CASE s1 \in {"leds", "power"}
    <2>1. s1 \notin Preference!Notices /\ s3 = s4
      BY <1>4, KeysApart, StoredOf, Zenon
    <2>2. s4 # <<>> => s4[1] \in BOOLEAN /\ s4 = <<s4[1]>>
      BY <1>4, Zenon DEF Preference!ChosenWasOffered, Preference!AtMostOne
    <2>3. CASE s1 = "leds"
      BY <2>1, <2>2, <2>3, WantedOf, DefaultOf, MountedOf, SingleValue, Zenon DEF Preference!LedsRead
    <2>4. CASE s1 = "power"
      BY <2>1, <2>2, <2>4, WantedOf, DefaultOf, MountedOf, SingleValue, Zenon DEF Preference!ConfirmRead
    <2> QED
      BY <1>4, <2>3, <2>4
  <1>5. CASE s1 \in Preference!Notices
    <2>1. Preference!Mounted(v) = Preference!Due
      BY <1>5, MountedOf, Zenon
    <2>2. Preference!Wanted(p) = (s4 = <<>> \/ s6 > s4[1] + Preference!SkipDays)
      BY <1>5, WantedOf, Zenon
    <2>3. s3 # <<>> => s4 # <<>> /\ s3[1] = s4[1] + Preference!SkipDays
      BY <1>5, StoredOf, SingleValue
    <2>4. s3 = <<>> /\ s4 # <<>> => s6 > s4[1] + Preference!SkipDays
      BY <1>5, StoredOf
    <2>5. Preference!Due <=> (s4 = <<>> \/ s6 > s4[1] + Preference!SkipDays)
      BY <2>3, <2>4, Zenon DEF Preference!Due, Preference!Expired
    <2>6. Preference!Due \in BOOLEAN /\ (s4 = <<>> \/ s6 > s4[1] + Preference!SkipDays) \in BOOLEAN
      BY Zenon DEF Preference!Due
    <2>7. Preference!Due = (s4 = <<>> \/ s6 > s4[1] + Preference!SkipDays)
      BY <2>5, <2>6, Zenon
    <2> QED
      BY <2>1, <2>2, <2>7, Zenon
  <1> QED
    BY <1>1, <1>2, <1>3, <1>4, <1>5 DEF Preference!Keys, Preference!MouseKeys, Preference!Notices

(* Nothing or one value is at most one. *)
LEMMA SingleIsOne == \A x : Preference!AtMostOne(<<>>) /\ Preference!AtMostOne(<<x>>)
  BY SingleValue DEF Preference!AtMostOne

(* A page that is loaded. *)
LEMMA LoadedFields ==
  ASSUME NEW role
  PROVE  LET n == Preference!Loaded(role) IN
         /\ DOMAIN n = {"at", "role", "fresh", "menu", "zoom", "reloads", "day", "asks", "value"}
         /\ n.at = "loaded" /\ n.fresh /\ ~n.menu /\ n.zoom = <<>> /\ ~n.reloads
         /\ n.day = s6 /\ n.asks = Preference!Asked
         /\ n.value = IF s1 = "language" THEN Preference!LanguageRead ELSE Preference!Mounted(Preference!Default)
  <1>1. Preference!Loaded(role).fresh /\ ~Preference!Loaded(role).menu /\ ~Preference!Loaded(role).reloads
    BY DEF Preference!Loaded
  <1> QED
    BY <1>1 DEF Preference!Loaded

(* It asks the device for what is stored. *)
LEMMA AskedIsStored ==
  ASSUME Preference!PreferencesInv
  PROVE  /\ Preference!AtMostOne(Preference!Asked)
         /\ Preference!Asked # <<>> => s1 \in {"quality", "fps", "gop"} /\ s4 # <<>>
         /\ s1 \in {"quality", "fps", "gop"} => Preference!Asked = s4
  <1>1. CASE s1 \in {"quality", "fps", "gop"}
    <2>1. s1 \notin Preference!Notices /\ Preference!Asked = s3
      BY <1>1, KeysApart, Zenon DEF Preference!Asked
    <2>2. s3 = s4
      BY <2>1, StoredOf, Zenon DEF Preference!PreferencesInv
    <2> QED
      BY <1>1, <2>1, <2>2, Zenon DEF Preference!PreferencesInv
  <1>2. CASE s1 \notin {"quality", "fps", "gop"}
    BY <1>2, SingleIsOne, Zenon DEF Preference!Asked
  <1> QED
    BY <1>1, <1>2

(* The items hidden are some of those there are. *)
LEMMA HiddenItems ==
  ASSUME Preference!PreferencesInv, s1 = "icons", NEW v
  PROVE  Preference!Mounted(v) \subseteq Items
  <1>1. s1 \notin Preference!Notices /\ s3 = s4 /\ Preference!Mounted(v) = Preference!IconsRead
    BY KeysApart, StoredOf, MountedOf, Zenon DEF Preference!PreferencesInv
  <1>2. s4 # <<>> => s4[1] \subseteq Items
    BY Zenon DEF Preference!PreferencesInv, Preference!ChosenWasOffered
  <1> QED
    BY <1>1, <1>2, Zenon DEF Preference!IconsRead

(* A page that is loaded applies the last choice. *)
LEMMA LoadedIsOK ==
  ASSUME Preference!PreferencesInv, NEW role
  PROVE  Preference!PageOK(Preference!Loaded(role))
  <1> DEFINE n == Preference!Loaded(role)
  <1>1. /\ DOMAIN n = {"at", "role", "fresh", "menu", "zoom", "reloads", "day", "asks", "value"}
        /\ n.at = "loaded" /\ n.fresh /\ ~n.menu /\ n.zoom = <<>> /\ ~n.reloads
        /\ n.day = s6 /\ n.asks = Preference!Asked
        /\ n.value = IF s1 = "language" THEN Preference!LanguageRead ELSE Preference!Mounted(Preference!Default)
    BY LoadedFields, Zenon
  <1> HIDE DEF n
  <1>2. Preference!PageWaits(n)
    BY <1>1, AskedIsStored, SingleIsOne, Zenon DEF Preference!PageWaits
  <1>3. Preference!PageDay(n)
    BY <1>1 DEF Preference!PageDay, Preference!PreferencesInv
  <1>4. s1 = "icons" => n.value \subseteq Items
    BY <1>1, HiddenItems
  <1>5. s1 = "scale" => Preference!Scale(n) = Preference!Default
    <2>1. s1 = "scale" => n.value = Preference!Mounted(Preference!Default)
      BY <1>1
    <2> QED
      BY <1>1, <2>1, MountedOf, Zenon DEF Preference!Scale
  <1>6. s1 # "scale" /\ n.asks = <<>> => n.value = Preference!Wanted(n)
    <2> SUFFICES ASSUME s1 # "scale", n.asks = <<>> PROVE n.value = Preference!Wanted(n)
      OBVIOUS
    <2>1. /\ s1 \in Preference!Keys /\ Preference!StoredIsChosen /\ Preference!ChosenWasOffered
          /\ Preference!AtMostOne(s4)
      BY DEF Preference!PreferencesInv
    <2>2. CASE s1 \in {"quality", "fps", "gop"}
      <3>1. s4 = <<>> /\ s1 \notin Preference!Notices
        BY <1>1, <2>2, AskedIsStored, KeysApart, Zenon
      <3>2. n.value = Preference!Mounted(Preference!Default)
        BY <1>1, <2>2
      <3>3. Preference!Mounted(Preference!Default) = Preference!Default
        BY <2>2, MountedOf, DefaultOf, Zenon
      <3> QED
        BY <3>1, <3>2, <3>3, WantedOf, Zenon
    <2>3. CASE s1 = "language"
      <3>1. s1 \notin Preference!Notices /\ s3 = s4 /\ n.value = Preference!LanguageRead
        BY <1>1, <2>1, <2>3, KeysApart, StoredOf, Zenon
      <3>2. s4 # <<>> => s4[1] \in Preference!Languages
        BY <2>1, <2>3, Zenon DEF Preference!ChosenWasOffered
      <3>3. Preference!Default = "en"
        BY <2>3, DefaultOf, Zenon
      <3> QED
        BY <3>1, <3>2, <3>3, WantedOf, Zenon DEF Preference!LanguageRead
    <2>4. CASE s1 \notin {"quality", "fps", "gop", "language"}
      <3>1. s1 \in Preference!Keys \ {"scale", "language", "quality", "fps", "gop"}
        BY <2>1, <2>4
      <3>2. n.value = Preference!Mounted(Preference!Default)
        BY <1>1, <2>4
      <3>3. s1 = "interval" => Preference!Default = 0
        BY DefaultOf, Zenon
      <3> QED
        BY <1>1, <2>1, <3>1, <3>2, <3>3, MountedIsWanted
    <2> QED
      BY <2>2, <2>3, <2>4
  <1>7. Preference!PageShows(n)
    BY <1>1, <1>4, <1>5, <1>6, Zenon DEF Preference!PageShows
  <1> QED
    BY <1>2, <1>3, <1>7 DEF n, Preference!PageOK

(* What no action touches stays as it is. *)
LEMMA DefaultStays == UNCHANGED <<s1, s2>> => Preference!Default' = Preference!Default
  BY DEF Preference!Default, Preference!DefaultVideoMode

(* Nor does what should be shown, ... *)
LEMMA WantedStays ==
  ASSUME UNCHANGED <<s1, s2, s4>>, NEW r
  PROVE  Preference!Wanted(s5[r])' = Preference!Wanted(s5'[r])
  BY DefaultStays DEF Preference!Wanted

(* ... and a page that was right stays right when days pass. *)
LEMMA PageStays ==
  ASSUME UNCHANGED <<s1, s2, s4>>, s6 \in Nat, s6' \in Nat, s6 <= s6', NEW r, Preference!PageOK(s5'[r])
  PROVE  Preference!PageOK(s5[r])'
  <1>1. Preference!Wanted(s5[r])' = Preference!Wanted(s5'[r]) /\ Preference!Default' = Preference!Default
    BY WantedStays, DefaultStays
  <1>2. Preference!PageWaits(s5[r])'
    BY Zenon DEF Preference!PageOK, Preference!PageWaits, Preference!AtMostOne
  <1>3. Preference!PageDay(s5[r])'
    BY DEF Preference!PageOK, Preference!PageDay
  <1>4. Preference!Scale(s5[r])' = Preference!Scale(s5'[r])
    BY Zenon DEF Preference!Scale
  <1>5. Preference!PageShows(s5[r])'
    BY <1>1, <1>4, Zenon DEF Preference!PageOK, Preference!PageShows
  <1> QED
    BY <1>2, <1>3, <1>5 DEF Preference!PageOK

(* One page becomes q. *)
LEMMA OnePage ==
  ASSUME Preference!PreferencesInv, NEW p \in Pages, NEW q, s5' = [s5 EXCEPT ![p] = q],
         UNCHANGED <<s1, s2, s4, s6>>, Preference!StoredIsChosen', Preference!PageOK(q)
  PROVE  Preference!PreferencesInv'
  <1>1. s1' \in Preference!Keys /\ s6' \in Nat /\ s6 \in Nat /\ s6 <= s6'
    BY DEF Preference!PreferencesInv
  <1>2. Preference!AtMostOne(s4)' /\ Preference!ChosenWasOffered'
    BY Zenon DEF Preference!PreferencesInv, Preference!ChosenWasOffered, Preference!AtMostOne
  <1>3. DOMAIN s5' = Pages
    BY DEF Preference!PreferencesInv
  <1>4. ASSUME NEW r \in Pages PROVE (s5[r] = Preference!Closed)' \/ Preference!PageOK(s5[r])'
    <2>1. s5'[r] = Preference!Closed \/ Preference!PageOK(s5'[r])
      BY DEF Preference!PreferencesInv
    <2> QED
      BY <1>1, <2>1, PageStays DEF Preference!Closed
  <1> QED
    BY <1>1, <1>2, <1>3, <1>4 DEF Preference!PreferencesInv

(* A notice that has expired is removed, and then it is due. *)
LEMMA CleanedStays ==
  ASSUME Preference!PreferencesInv, Preference!Cleaned, UNCHANGED <<s1, s4, s6>>
  PROVE  Preference!StoredIsChosen'
  <1>1. CASE s1 \in Preference!Notices /\ Preference!Expired
    <2>1. s3' = <<>> /\ s3 # <<>> /\ s6 > s3[1]
      BY <1>1, Zenon DEF Preference!Cleaned, Preference!Expired
    <2>2. s4 # <<>> /\ s3 = << s4[1] + Preference!SkipDays >>
      BY <1>1, <2>1, StoredOf, Zenon DEF Preference!PreferencesInv
    <2>3. s6 > s4[1] + Preference!SkipDays
      BY <2>1, <2>2, SingleValue
    <2> QED
      BY <1>1, <2>1, <2>3, Zenon DEF Preference!StoredIsChosen
  <1>2. CASE ~(s1 \in Preference!Notices /\ Preference!Expired)
    <2>1. s3' = s3
      BY <1>2, Zenon DEF Preference!Cleaned
    <2> QED
      BY <2>1, Zenon DEF Preference!StoredIsChosen, Preference!PreferencesInv
  <1> QED
    BY <1>1, <1>2

(* What is stored is untouched, and so is the last choice. *)
LEMMA StoredStays ==
  Preference!PreferencesInv /\ UNCHANGED <<s1, s3, s4, s6>> => Preference!StoredIsChosen'
  BY Zenon DEF Preference!StoredIsChosen, Preference!PreferencesInv

(* A page is loaded, or loaded again. *)
LEMMA LoadKeeps ==
  ASSUME Preference!PreferencesInv, NEW p \in Pages, Preference!Load(p) \/ Preference!Reload(p)
  PROVE  Preference!PreferencesInv'
  <1>1. PICK role : s5' = [s5 EXCEPT ![p] = Preference!Loaded(role)]
    BY Zenon DEF Preference!Load, Preference!Reload
  <1>2. UNCHANGED <<s1, s2, s4, s6>> /\ (Preference!Cleaned \/ s3' = s3)
    BY Zenon DEF Preference!Load, Preference!Reload
  <1>3. Preference!StoredIsChosen'
    BY <1>2, CleanedStays, StoredStays, Zenon
  <1> QED
    BY <1>1, <1>2, <1>3, LoadedIsOK, OnePage

(* A page that is logged in to anew. *)
LEMMA LogInKeeps ==
  ASSUME Preference!PreferencesInv, NEW p \in Pages, Preference!LogIn(p)
  PROVE  Preference!PreferencesInv'
  <1> DEFINE old == s5[p]
  <1>1. old # Preference!Closed /\ old.zoom = <<>> /\ Preference!Cleaned /\ UNCHANGED <<s1, s2, s4, s6>>
    BY Zenon DEF Preference!LogIn
  <1>2. Preference!PageOK(old)
    BY <1>1, Zenon DEF Preference!PreferencesInv
  <1>3. PICK role : s5' = [s5 EXCEPT ![p] =
          [Preference!Loaded(role) EXCEPT !.at = "again", !.reloads = old.reloads,
             !.fresh = (IF s1 \in {"language", "interval"} THEN old.fresh ELSE TRUE),
             !.value = Preference!Mounted(old.value)]]
    BY Zenon DEF Preference!LogIn
  <1> DEFINE fresh == IF s1 \in {"language", "interval"} THEN old.fresh ELSE TRUE
             n == [Preference!Loaded(role) EXCEPT !.at = "again", !.reloads = old.reloads,
                     !.fresh = fresh, !.value = Preference!Mounted(old.value)]
  <1>4. /\ DOMAIN n = {"at", "role", "fresh", "menu", "zoom", "reloads", "day", "asks", "value"}
        /\ n.at = "again" /\ n.fresh = fresh /\ ~n.menu /\ n.zoom = <<>> /\ n.reloads = old.reloads
        /\ n.day = s6 /\ n.asks = Preference!Asked /\ n.value = Preference!Mounted(old.value)
    <2> DEFINE l == Preference!Loaded(role)
    <2>1. /\ DOMAIN l = {"at", "role", "fresh", "menu", "zoom", "reloads", "day", "asks", "value"}
          /\ ~l.menu /\ l.zoom = <<>> /\ l.day = s6 /\ l.asks = Preference!Asked
      BY LoadedFields, Zenon
    <2> HIDE DEF l, fresh
    <2> QED
      BY <2>1 DEF l
  <1>5. s5' = [s5 EXCEPT ![p] = n]
    BY <1>3
  <1> HIDE DEF n
  <1>6. s4 = <<>> => old.fresh /\ old.asks = <<>>
    BY <1>2, Zenon DEF Preference!PageOK, Preference!PageWaits
  <1>7. Preference!PageWaits(n)
    BY <1>2, <1>4, <1>6, AskedIsStored, SingleIsOne, Zenon DEF Preference!PageOK, Preference!PageWaits
  <1>8. Preference!PageDay(n)
    BY <1>4 DEF Preference!PageDay, Preference!PreferencesInv
  <1>9. s1 = "icons" => n.value \subseteq Items
    BY <1>4, HiddenItems
  <1>10. s1 = "scale" /\ s4 = <<>> => Preference!Scale(n) = Preference!Default
    <2> SUFFICES ASSUME s1 = "scale", s4 = <<>> PROVE Preference!Scale(n) = Preference!Default
      OBVIOUS
    <2>1. n.value = old.value
      BY <1>4, MountedOf, Zenon
    <2>2. Preference!Scale(old) = Preference!Default
      BY <1>2, Zenon DEF Preference!PageOK, Preference!PageShows
    <2> QED
      BY <1>1, <1>4, <2>1, <2>2, Zenon DEF Preference!Scale
  <1>11. s1 # "scale" /\ n.fresh /\ n.asks = <<>> => n.value = Preference!Wanted(n)
    <2> SUFFICES ASSUME s1 # "scale", n.fresh, n.asks = <<>> PROVE n.value = Preference!Wanted(n)
      OBVIOUS
    <2>1. /\ s1 \in Preference!Keys /\ Preference!StoredIsChosen /\ Preference!ChosenWasOffered
          /\ Preference!AtMostOne(s4)
      BY DEF Preference!PreferencesInv
    <2>a. old.fresh /\ old.asks = <<>> => old.value = Preference!Wanted(old)
      BY <1>2, Zenon DEF Preference!PageOK, Preference!PageShows
    <2>2. CASE s1 \in {"quality", "fps", "gop"}
      <3>1. s4 = <<>> /\ s1 \notin Preference!Notices
        BY <1>4, <2>2, AskedIsStored, KeysApart, Zenon
      <3>2. Preference!Mounted(old.value) = Preference!Default
        BY <2>2, MountedOf, DefaultOf, Zenon
      <3> QED
        BY <1>4, <3>1, <3>2, WantedOf, Zenon
    <2>3. CASE s1 = "language"
      <3>1. s1 \notin Preference!Notices /\ n.value = old.value
        BY <1>4, <2>3, KeysApart, MountedOf, Zenon
      <3>2. old.fresh /\ old.asks = <<>>
        <4>1. n.fresh = old.fresh
          BY <1>4, <2>3
        <4>2. old.asks = <<>>
          BY <1>2, <2>3, Zenon DEF Preference!PageOK, Preference!PageWaits
        <4> QED
          BY <4>1, <4>2
      <3>3. Preference!Wanted(old) = Preference!Wanted(n)
        <4>1. CASE s4 = <<>>
          BY <3>1, <4>1, WantedOf, Zenon
        <4>2. CASE s4 # <<>>
          BY <3>1, <4>2, WantedOf, Zenon
        <4> QED
          BY <4>1, <4>2
      <3> QED
        BY <2>a, <3>1, <3>2, <3>3, Zenon
    <2>4. CASE s1 \notin {"quality", "fps", "gop", "language"}
      <3>1. s1 \in Preference!Keys \ {"scale", "language", "quality", "fps", "gop"}
        BY <2>1, <2>4
      <3>2. s1 \in Preference!MouseKeys /\ s4 = <<>> => old.value = Preference!Default
        BY <1>6, <2>a, WantedOf, KeysApart, Zenon
      <3>3. s1 = "interval" /\ s4 # <<>> /\ s4[1] = 0 => old.value = 0
        <4> SUFFICES ASSUME s1 = "interval", s4 # <<>>, s4[1] = 0 PROVE old.value = 0
          OBVIOUS
        <4>1. n.fresh = old.fresh
          BY <1>4
        <4>2. old.asks = <<>>
          BY <1>2, Zenon DEF Preference!PageOK, Preference!PageWaits
        <4>3. s1 \notin Preference!Notices
          BY KeysApart DEF Preference!MouseKeys
        <4> QED
          BY <2>a, <4>1, <4>2, <4>3, WantedOf, Zenon
      <3> QED
        BY <1>4, <2>1, <3>1, <3>2, <3>3, MountedIsWanted
    <2> QED
      BY <2>2, <2>3, <2>4
  <1>12. Preference!PageShows(n)
    BY <1>4, <1>9, <1>10, <1>11, Zenon DEF Preference!PageShows
  <1>13. Preference!StoredIsChosen'
    BY <1>1, CleanedStays
  <1> QED
    BY <1>1, <1>5, <1>7, <1>8, <1>12, <1>13, OnePage DEF Preference!PageOK

(* The device has answered. *)
LEMMA AnsweredIsShown ==
  ASSUME Preference!PreferencesInv, NEW p \in Pages, NEW ok, Preference!Answered(p, ok)
  PROVE  Preference!PreferencesInv'
  <1> DEFINE old == s5[p]
             value == IF ok THEN old.asks[1] ELSE old.value
             fresh == old.fresh /\ ok /\ old.asks = s4
             n == [old EXCEPT !.asks = <<>>, !.value = value, !.fresh = fresh]
  <1>1. old # Preference!Closed /\ old.asks # <<>> /\ UNCHANGED <<s1, s2, s3, s4, s6>>
    BY Zenon DEF Preference!Answered
  <1>2. Preference!PageOK(old) /\ DOMAIN s5 = Pages
    BY <1>1, Zenon DEF Preference!PreferencesInv
  <1>3. s5' = [s5 EXCEPT ![p] = n]
    BY <1>2 DEF Preference!Answered
  <1>4. /\ s1 \in {"quality", "fps", "gop"} /\ s1 \notin Preference!Notices /\ s4 # <<>>
        /\ DOMAIN old = {"at", "role", "fresh", "menu", "zoom", "reloads", "day", "asks", "value"}
    BY <1>1, <1>2, KeysApart, Zenon DEF Preference!PageOK, Preference!PageWaits
  <1>5. /\ DOMAIN n = DOMAIN old /\ n.at = old.at /\ n.zoom = old.zoom /\ n.reloads = old.reloads
        /\ n.day = old.day /\ n.asks = <<>> /\ n.value = value /\ n.fresh = fresh /\ n.menu = old.menu
    <2> HIDE DEF old, value, fresh
    <2> QED
      BY <1>4
  <1> HIDE DEF n
  <1>6. Preference!PageWaits(n)
    BY <1>2, <1>4, <1>5, SingleIsOne, Zenon DEF Preference!PageOK, Preference!PageWaits
  <1>7. Preference!PageDay(n)
    BY <1>2, <1>5, Zenon DEF Preference!PageOK, Preference!PageDay
  <1>8. s1 # "icons" /\ s1 # "scale" /\ n.zoom = <<>>
    <2>1. s1 # "icons" /\ s1 # "scale"
      BY <1>4
    <2> QED
      BY <1>2, <1>5, <2>1, Zenon DEF Preference!PageOK, Preference!PageWaits
  <1>9. n.fresh => n.value = Preference!Wanted(n)
    <2>1. n.fresh => n.value = s4[1]
      BY <1>5
    <2> QED
      BY <1>4, <2>1, WantedOf, Zenon
  <1>10. Preference!PageShows(n)
    BY <1>8, <1>9, Zenon DEF Preference!PageShows
  <1> QED
    BY <1>1, <1>3, <1>6, <1>7, <1>10, StoredStays, OnePage DEF Preference!PageOK

(* The scale: the menu is opened, and the overlay comes and goes. *)
LEMMA ScaleKeeps ==
  ASSUME Preference!PreferencesInv, NEW p \in Pages,
         Preference!OpenMenu(p) \/ Preference!Zoom(p) \/ Preference!Unzoom(p)
  PROVE  Preference!PreferencesInv'
  <1> DEFINE old == s5[p]
  <1>1. /\ s1 = "scale" /\ old # Preference!Closed /\ UNCHANGED <<s1, s2, s3, s4, s6>>
    BY Zenon DEF Preference!OpenMenu, Preference!Zoom, Preference!Unzoom
  <1>2. Preference!PageOK(old) /\ DOMAIN s5 = Pages
    BY <1>1, Zenon DEF Preference!PreferencesInv
  <1>3. /\ s1 \notin Preference!Notices /\ s3 = s4 /\ s1 \notin {"quality", "fps", "gop", "icons", "video"}
        /\ DOMAIN old = {"at", "role", "fresh", "menu", "zoom", "reloads", "day", "asks", "value"}
    <2>1. s1 \notin {"quality", "fps", "gop", "icons", "video"}
      BY <1>1
    <2>2. s1 \notin Preference!Notices
      BY <1>1, KeysApart, Zenon
    <2> QED
      BY <1>2, <2>1, <2>2, StoredOf, Zenon DEF Preference!PreferencesInv, Preference!PageOK, Preference!PageWaits
  <1>4. /\ s4 = <<>> => Preference!Scale(old) = Preference!Default
        /\ old.fresh /\ old.menu => Preference!Scale(old) = Preference!Wanted(old)
    BY <1>1, <1>2, Zenon DEF Preference!PageOK, Preference!PageShows
  <1>5. \A q, r : Preference!Wanted(q) = Preference!Wanted(r)
    <2>1. CASE s4 = <<>>
      BY <1>3, <2>1, WantedOf, Zenon
    <2>2. CASE s4 # <<>>
      BY <1>3, <2>2, WantedOf, Zenon
    <2> QED
      BY <2>1, <2>2
  <1>6. ASSUME NEW q, DOMAIN q = DOMAIN old, q.at = old.at, q.fresh = old.fresh, q.reloads = old.reloads,
               q.day = old.day, q.asks = old.asks, Preference!AtMostOne(q.zoom), q.zoom # <<>> => q.value = 75,
               s4 = <<>> => Preference!Scale(q) = Preference!Default,
               q.fresh /\ q.menu => Preference!Scale(q) = Preference!Wanted(q)
        PROVE  Preference!PageOK(q)
    <2>1. Preference!PageWaits(q)
      BY <1>1, <1>2, <1>6, Zenon DEF Preference!PageOK, Preference!PageWaits
    <2>2. Preference!PageDay(q)
      BY <1>2, <1>6, Zenon DEF Preference!PageOK, Preference!PageDay
    <2>3. Preference!PageShows(q)
      BY <1>1, <1>3, <1>6 DEF Preference!PageShows
    <2> QED
      BY <2>1, <2>2, <2>3 DEF Preference!PageOK
  <1>7. CASE Preference!OpenMenu(p)
    <2> DEFINE value == Preference!ScaleRead(old.value)
               q == [old EXCEPT !.menu = TRUE, !.value = value]
    <2>1. s5' = [s5 EXCEPT ![p] = q] /\ old.zoom = <<>>
      BY <1>2, <1>7 DEF Preference!OpenMenu
    <2>2. /\ DOMAIN q = DOMAIN old /\ q.at = old.at /\ q.fresh = old.fresh /\ q.reloads = old.reloads
          /\ q.day = old.day /\ q.asks = old.asks /\ q.zoom = old.zoom /\ q.value = value /\ q.menu
      <3> HIDE DEF old, value
      <3> QED
        BY <1>3
    <2> HIDE DEF q
    <2>3. s4 = <<>> => value = old.value
      BY <1>3, Zenon DEF Preference!ScaleRead
    <2>4. s4 = <<>> => value = Preference!Default
      BY <1>4, <2>1, <2>3, Zenon DEF Preference!Scale
    <2>5. s4 # <<>> => value = s4[1]
      BY <1>3, Zenon DEF Preference!ScaleRead
    <2>6. value = Preference!Wanted(q) /\ Preference!Scale(q) = value
      BY <1>3, <2>1, <2>2, <2>4, <2>5, WantedOf, Zenon DEF Preference!Scale
    <2>7. Preference!PageOK(q)
      BY <1>6, <2>1, <2>2, <2>4, <2>6, SingleIsOne
    <2> QED
      BY <1>1, <2>1, <2>7, StoredStays, OnePage
  <1>8. CASE Preference!Zoom(p)
    <2> DEFINE zoom == <<old.value>>
               q == [old EXCEPT !.zoom = zoom, !.value = 75]
    <2>1. s5' = [s5 EXCEPT ![p] = q] /\ old.zoom = <<>>
      BY <1>2, <1>8 DEF Preference!Zoom
    <2>2. /\ DOMAIN q = DOMAIN old /\ q.at = old.at /\ q.fresh = old.fresh /\ q.reloads = old.reloads
          /\ q.day = old.day /\ q.asks = old.asks /\ q.zoom = zoom /\ q.value = 75 /\ q.menu = old.menu
      <3> HIDE DEF old, zoom
      <3> QED
        BY <1>3
    <2> HIDE DEF q
    <2>3. zoom # <<>> /\ zoom[1] = old.value /\ Preference!AtMostOne(zoom)
      BY SingleValue, SingleIsOne, Zenon
    <2> HIDE DEF zoom
    <2>4. Preference!Scale(q) = Preference!Scale(old)
      BY <2>1, <2>2, <2>3, Zenon DEF Preference!Scale
    <2>5. Preference!Wanted(q) = Preference!Wanted(old)
      BY <1>5
    <2>6. Preference!PageOK(q)
      BY <1>4, <1>6, <2>2, <2>3, <2>4, <2>5
    <2> QED
      BY <1>1, <2>1, <2>6, StoredStays, OnePage
  <1>9. CASE Preference!Unzoom(p)
    <2> DEFINE value == old.zoom[1]
               q == [old EXCEPT !.zoom = <<>>, !.value = value]
    <2>1. s5' = [s5 EXCEPT ![p] = q] /\ old.zoom # <<>>
      BY <1>2, <1>9 DEF Preference!Unzoom
    <2>2. /\ DOMAIN q = DOMAIN old /\ q.at = old.at /\ q.fresh = old.fresh /\ q.reloads = old.reloads
          /\ q.day = old.day /\ q.asks = old.asks /\ q.zoom = <<>> /\ q.value = value /\ q.menu = old.menu
      <3> HIDE DEF old, value
      <3> QED
        BY <1>3
    <2> HIDE DEF q
    <2>4. Preference!Scale(q) = Preference!Scale(old)
      BY <2>1, <2>2, Zenon DEF Preference!Scale
    <2>5. Preference!Wanted(q) = Preference!Wanted(old)
      BY <1>5
    <2>6. Preference!PageOK(q)
      BY <1>4, <1>6, <2>2, <2>4, <2>5, SingleIsOne
    <2> QED
      BY <1>1, <2>1, <2>6, StoredStays, OnePage
  <1> QED
    BY <1>7, <1>8, <1>9

(* A choice is made in page p; the other pages do not hear of it. *)
LEMMA AllPages ==
  ASSUME Preference!PreferencesInv, NEW p \in Pages, NEW n, NEW c, s4' = <<c>>,
         s5' = [q \in Pages |-> IF q # p THEN Preference!Stale(s5[q]) ELSE n],
         UNCHANGED <<s1, s2, s6>>, Preference!StoredIsChosen', Preference!ChosenWasOffered',
         Preference!PageOK(s5[p])'
  PROVE  Preference!PreferencesInv'
  <1>1. s1' \in Preference!Keys /\ s6' \in Nat /\ s6 \in Nat
    BY DEF Preference!PreferencesInv
  <1>2. s4' # <<>> /\ Preference!AtMostOne(s4)'
    BY SingleValue DEF Preference!AtMostOne
  <1>3. DOMAIN s5' = Pages
    OBVIOUS
  <1>4. ASSUME NEW r \in Pages, r # p, s5[r] # Preference!Closed
        PROVE  Preference!PageOK(s5[r])'
    <2> DEFINE old == s5[r]
    <2>1. Preference!PageOK(old)
      BY <1>4, Zenon DEF Preference!PreferencesInv
    <2>2. s5'[r] = [old EXCEPT !.fresh = FALSE]
      BY <1>4, Zenon DEF Preference!Stale
    <2>3. DOMAIN old = {"at", "role", "fresh", "menu", "zoom", "reloads", "day", "asks", "value"}
      BY <2>1, Zenon DEF Preference!PageOK, Preference!PageWaits
    <2>4. LET q == s5'[r] IN
          /\ DOMAIN q = DOMAIN old /\ q.at = old.at /\ ~q.fresh /\ q.reloads = old.reloads
          /\ q.day = old.day /\ q.asks = old.asks /\ q.zoom = old.zoom /\ q.value = old.value
      <3> HIDE DEF old
      <3> QED
        BY <2>2, <2>3
    <2>5. Preference!PageWaits(s5[r])'
      BY <1>2, <2>1, <2>4, Zenon DEF Preference!PageOK, Preference!PageWaits, Preference!AtMostOne
    <2>6. Preference!PageDay(s5[r])'
      BY <1>1, <2>1, <2>4 DEF Preference!PageOK, Preference!PageDay
    <2>7. Preference!PageShows(s5[r])'
      BY <1>2, <2>1, <2>4, Zenon DEF Preference!PageOK, Preference!PageShows
    <2> QED
      BY <2>5, <2>6, <2>7 DEF Preference!PageOK
  <1>5. ASSUME NEW r \in Pages, r # p, s5[r] = Preference!Closed
        PROVE  (s5[r] = Preference!Closed)'
    BY <1>5, Zenon DEF Preference!Stale, Preference!Closed
  <1> QED
    BY <1>1, <1>2, <1>3, <1>4, <1>5 DEF Preference!PreferencesInv

(* What is on offer. *)
LEMMA ChoicesOf ==
  ASSUME NEW p
  PROVE  /\ s1 = "video" => Preference!Choices(p) = Preference!VideoModes \ {p.value}
         /\ s1 = "icons" => Preference!Choices(p) = Preference!Toggled(p.value, p.role)
         /\ s1 \in {"leds", "power"} => Preference!Choices(p) = BOOLEAN
         /\ s1 = "language" => Preference!Choices(p) = Preference!Languages \ {p.value}
         /\ s1 \in Preference!Notices => Preference!Choices(p) = {}
  BY Zenon DEF Preference!Choices, Preference!Notices

(* What can be chosen is on offer. *)
LEMMA ChoiceIsOffered ==
  ASSUME NEW p, NEW v \in Preference!Choices(p), s1 = "icons" => p.value \subseteq Items
  PROVE  /\ s1 \notin Preference!Notices
         /\ s1 = "video" => (v = "direct" => s2 = "all")
         /\ s1 \in {"leds", "power"} => v \in BOOLEAN
         /\ s1 = "language" => v \in Preference!Languages
         /\ s1 = "icons" => v \subseteq Items
  <1>1. s1 \notin Preference!Notices
    BY ChoicesOf, Zenon
  <1>2. s1 = "video" => (v = "direct" => s2 = "all")
    BY ChoicesOf DEF Preference!VideoModes
  <1>3. s1 \in {"leds", "power"} => v \in BOOLEAN
    BY ChoicesOf, Zenon
  <1>4. s1 = "language" => v \in Preference!Languages
    BY ChoicesOf, Zenon
  <1>5. s1 = "icons" => v \subseteq Items
    <2> SUFFICES ASSUME s1 = "icons" PROVE v \subseteq Items
      OBVIOUS
    <2>1. v \in Preference!Toggled(p.value, p.role)
      BY ChoicesOf, Zenon
    <2>2. PICK i \in Items : v = p.value \ {i} \/ v = p.value \union {i}
      BY <2>1 DEF Preference!Toggled
    <2> QED
      BY <2>2
  <1> QED
    BY <1>1, <1>2, <1>3, <1>4, <1>5

(* Choosing keeps the invariant. *)
LEMMA ChooseKeeps ==
  ASSUME Preference!PreferencesInv, NEW p \in Pages, Preference!Choose(p)
  PROVE  Preference!PreferencesInv'
  <1> DEFINE old == s5[p]
  <1>1. old # Preference!Closed /\ UNCHANGED <<s1, s2, s6>> /\ (s1 = "scale" => old.menu /\ old.zoom = <<>>)
    BY Zenon DEF Preference!Choose
  <1>2. PICK v \in Preference!Choices(old) :
          /\ s3' = <<v>> /\ s4' = <<v>>
          /\ s5' = [q \in Pages |->
               IF q # p THEN Preference!Stale(s5[q])
               ELSE IF s1 = "video" THEN [Preference!Stale(old) EXCEPT !.reloads = TRUE]
               ELSE [old EXCEPT !.value = v, !.fresh = TRUE]]
    BY Zenon DEF Preference!Choose
  <1>3. Preference!PageOK(old) /\ s6 \in Nat
    BY <1>1, Zenon DEF Preference!PreferencesInv
  <1>4. s1 = "icons" => old.value \subseteq Items
    BY <1>3, Zenon DEF Preference!PageOK, Preference!PageShows
  <1>5. /\ s1 \notin Preference!Notices
        /\ s1 = "video" => (v = "direct" => s2 = "all")
        /\ s1 \in {"leds", "power"} => v \in BOOLEAN
        /\ s1 = "language" => v \in Preference!Languages
        /\ s1 = "icons" => v \subseteq Items
    BY <1>4, ChoiceIsOffered
  <1>6. s4' # <<>> /\ s4'[1] = v
    BY <1>2, SingleValue
  <1>7. Preference!StoredIsChosen'
    BY <1>1, <1>2, <1>5, Zenon DEF Preference!StoredIsChosen
  <1>8. Preference!ChosenWasOffered'
    BY <1>1, <1>5, <1>6, Zenon DEF Preference!ChosenWasOffered
  <1> DEFINE n == IF s1 = "video" THEN [Preference!Stale(old) EXCEPT !.reloads = TRUE]
                  ELSE [old EXCEPT !.value = v, !.fresh = TRUE]
  <1>9. s5' = [q \in Pages |-> IF q # p THEN Preference!Stale(s5[q]) ELSE n] /\ s5'[p] = n
    BY <1>2
  <1>10. /\ DOMAIN old = {"at", "role", "fresh", "menu", "zoom", "reloads", "day", "asks", "value"}
         /\ s1 # "scale" => old.zoom = <<>>
    BY <1>3, Zenon DEF Preference!PageOK, Preference!PageWaits
  <1>11. /\ DOMAIN n = DOMAIN old /\ n.at = old.at /\ n.zoom = old.zoom /\ n.day = old.day /\ n.asks = old.asks
         /\ n.menu = old.menu /\ old.zoom = <<>>
         /\ s1 = "video" => n.reloads /\ ~n.fresh /\ n.value = old.value
         /\ s1 # "video" => n.reloads = old.reloads /\ n.fresh /\ n.value = v
    <2>1. Preference!Stale(old) = [old EXCEPT !.fresh = FALSE]
      BY <1>1, Zenon DEF Preference!Stale
    <2>2. old.zoom = <<>>
      BY <1>1, <1>10
    <2> HIDE DEF old
    <2> QED
      BY <1>10, <2>1, <2>2
  <1> HIDE DEF n
  <1>12. Preference!PageWaits(s5[p])'
    BY <1>1, <1>3, <1>6, <1>9, <1>11, Zenon DEF Preference!PageOK, Preference!PageWaits, Preference!AtMostOne
  <1>13. Preference!PageDay(s5[p])'
    BY <1>1, <1>3, <1>9, <1>11, Zenon DEF Preference!PageOK, Preference!PageDay
  <1>14. Preference!Wanted(s5[p])' = v
    BY <1>1, <1>5, <1>6, Zenon DEF Preference!Wanted
  <1>15. Preference!PageShows(s5[p])'
    <2>1. s1 = "icons" => n.value \subseteq Items
      BY <1>5, <1>11
    <2>2. s1 = "scale" => n.value = v
      BY <1>11
    <2>3. n.fresh => n.value = v
      BY <1>11
    <2> QED
      BY <1>1, <1>6, <1>9, <1>11, <1>14, <2>1, <2>2, <2>3, Zenon DEF Preference!PageShows, Preference!Scale
  <1>16. Preference!PageOK(s5[p])'
    BY <1>12, <1>13, <1>15 DEF Preference!PageOK
  <1>17. UNCHANGED <<s1, s2, s6>> /\ s4' = <<v>>
    BY <1>1, <1>2, Zenon
  <1>18. s5' = [q \in Pages |-> IF q # p THEN Preference!Stale(s5[q]) ELSE n]
    BY <1>9
  <1> HIDE DEF old
  <1> QED
    BY <1>7, <1>8, <1>16, <1>17, <1>18, AllPages

(* A notice is dismissed. *)
LEMMA DismissKeeps ==
  ASSUME Preference!PreferencesInv, NEW p \in Pages, Preference!Dismiss(p)
  PROVE  Preference!PreferencesInv'
  <1> DEFINE old == s5[p]
             n == [old EXCEPT !.value = FALSE, !.fresh = TRUE, !.day = s6]
  <1>1. /\ old # Preference!Closed /\ UNCHANGED <<s1, s2, s6>> /\ s1 \in Preference!Notices
        /\ s3' = << s6 + Preference!SkipDays >> /\ s4' = <<s6>>
    BY Zenon DEF Preference!Dismiss
  <1>2. s5' = [q \in Pages |-> IF q # p THEN Preference!Stale(s5[q]) ELSE n] /\ s5'[p] = n
    <2>1. s5' = [q \in Pages |-> IF q = p THEN n ELSE Preference!Stale(s5[q])]
      BY Zenon DEF Preference!Dismiss
    <2> HIDE DEF n
    <2> QED
      BY <2>1
  <1>3. Preference!PageOK(old) /\ s6 \in Nat
    BY <1>1, Zenon DEF Preference!PreferencesInv
  <1>4. s1 \notin {"video", "leds", "power", "language", "icons", "scale", "quality", "fps", "gop"}
    BY <1>1 DEF Preference!Notices
  <1>5. s4' # <<>> /\ s4'[1] = s6 /\ s3' # <<>>
    BY <1>1, SingleValue
  <1>6. Preference!StoredIsChosen'
    BY <1>1, <1>5, Zenon DEF Preference!StoredIsChosen
  <1>7. Preference!ChosenWasOffered'
    BY <1>1, <1>3, <1>4, <1>5 DEF Preference!ChosenWasOffered
  <1>8. /\ DOMAIN old = {"at", "role", "fresh", "menu", "zoom", "reloads", "day", "asks", "value"}
        /\ old.zoom = <<>>
    BY <1>3, <1>4, Zenon DEF Preference!PageOK, Preference!PageWaits
  <1>9. /\ DOMAIN n = DOMAIN old /\ n.at = old.at /\ n.zoom = <<>> /\ n.day = s6 /\ n.asks = old.asks
        /\ n.reloads = old.reloads /\ n.fresh /\ n.value = FALSE
    <2> HIDE DEF old
    <2> QED
      BY <1>8
  <1> HIDE DEF n
  <1>10. Preference!PageWaits(s5[p])'
    BY <1>1, <1>2, <1>3, <1>5, <1>9, SingleIsOne, Zenon DEF Preference!PageOK, Preference!PageWaits, Preference!AtMostOne
  <1>11. Preference!PageDay(s5[p])'
    BY <1>1, <1>2, <1>3, <1>9 DEF Preference!PageDay
  <1>12. Preference!Wanted(s5[p])' = FALSE
    <2>1. Preference!Wanted(s5[p])' = (s4' = <<>> \/ s5'[p].day > s4'[1] + Preference!SkipDays)
      BY <1>1, Zenon DEF Preference!Wanted
    <2>2. ~(s5'[p].day > s4'[1] + Preference!SkipDays)
      BY <1>2, <1>3, <1>5, <1>9 DEF Preference!SkipDays
    <2> QED
      BY <1>5, <2>1, <2>2, Zenon
  <1>13. Preference!PageShows(s5[p])'
    BY <1>1, <1>2, <1>4, <1>9, <1>12, Zenon DEF Preference!PageShows
  <1>14. Preference!PageOK(s5[p])'
    BY <1>10, <1>11, <1>13 DEF Preference!PageOK
  <1> QED
    BY <1>1, <1>2, <1>3, <1>6, <1>7, <1>14, AllPages

(* A day passes. *)
LEMMA NextDayKeeps ==
  ASSUME Preference!PreferencesInv, Preference!NextDay
  PROVE  Preference!PreferencesInv'
  <1>1. UNCHANGED <<s1, s2, s3, s4, s5>> /\ s6' = s6 + 1 /\ s6 \in Nat /\ s1 \in Preference!Notices
    BY DEF Preference!NextDay, Preference!PreferencesInv
  <1>2. s1' \in Preference!Keys /\ s6' \in Nat /\ s6 <= s6' /\ DOMAIN s5' = Pages
    BY <1>1 DEF Preference!PreferencesInv
  <1>3. Preference!AtMostOne(s4)' /\ Preference!ChosenWasOffered'
    BY <1>1, Zenon DEF Preference!PreferencesInv, Preference!ChosenWasOffered, Preference!AtMostOne
  <1>4. s4 # <<>> => s4[1] \in Nat
    BY <1>1, Zenon DEF Preference!PreferencesInv, Preference!ChosenWasOffered
  <1>5. s3 = <<>> /\ s4 # <<>> => s6 + 1 > s4[1] + Preference!SkipDays
    BY <1>1, <1>4, StoredOf DEF Preference!PreferencesInv, Preference!SkipDays
  <1>6. s3 # <<>> => s4 # <<>> /\ s3 = << s4[1] + Preference!SkipDays >>
    BY <1>1, StoredOf, Zenon DEF Preference!PreferencesInv
  <1>7. Preference!StoredIsChosen'
    BY <1>1, <1>5, <1>6, Zenon DEF Preference!StoredIsChosen
  <1>8. ASSUME NEW r \in Pages PROVE (s5[r] = Preference!Closed)' \/ Preference!PageOK(s5[r])'
    <2>1. s5'[r] = Preference!Closed \/ Preference!PageOK(s5'[r])
      BY <1>1 DEF Preference!PreferencesInv
    <2> QED
      BY <1>1, <1>2, <2>1, PageStays DEF Preference!Closed
  <1> QED
    BY <1>2, <1>3, <1>7, <1>8 DEF Preference!PreferencesInv

(* The invariant of the preferences holds before a page is opened. *)
LEMMA PreferencesStart == Preference!PreferencesInit => Preference!PreferencesInv
  <1> SUFFICES ASSUME Preference!PreferencesInit PROVE Preference!PreferencesInv
    OBVIOUS
  <1>1. s1 \in Preference!Keys /\ s6 \in Nat /\ DOMAIN s5 = Pages
    BY PreferredAssumption DEF Preference!PreferencesInit
  <1>2. s3 = <<>> /\ s4 = <<>> /\ \A p \in Pages : s5[p] = Preference!Closed
    BY DEF Preference!PreferencesInit
  <1>3. Preference!AtMostOne(s4) /\ Preference!StoredIsChosen /\ Preference!ChosenWasOffered
    BY <1>2, SingleIsOne, Zenon DEF Preference!StoredIsChosen, Preference!ChosenWasOffered
  <1> QED
    BY <1>1, <1>2, <1>3 DEF Preference!PreferencesInv

(* Every load, choice, answer and day keeps it. *)
LEMMA PreferencesKeep ==
  ASSUME Preference!PreferencesInv, [Preference!PreferencesNext]_(Preference!preferenceVars)
  PROVE  Preference!PreferencesInv'
  <1>1. CASE Preference!PreferencesNext
    <2>1. ASSUME NEW p \in Pages, \E ok \in BOOLEAN : Preference!Answered(p, ok)
          PROVE  Preference!PreferencesInv'
      BY <2>1, AnsweredIsShown
    <2> QED
      BY <1>1, <2>1, LoadKeeps, LogInKeeps, ScaleKeeps, ChooseKeeps, DismissKeeps, NextDayKeeps, Zenon
        DEF Preference!PreferencesNext
  <1>2. CASE UNCHANGED Preference!preferenceVars
    <2>1. UNCHANGED <<s1, s2, s3, s4, s5, s6>>
      BY <1>2 DEF Preference!preferenceVars
    <2>2. s1' \in Preference!Keys /\ s6' \in Nat /\ s6 \in Nat /\ s6 <= s6' /\ DOMAIN s5' = Pages
      BY <2>1 DEF Preference!PreferencesInv
    <2>3. Preference!AtMostOne(s4)' /\ Preference!ChosenWasOffered' /\ Preference!StoredIsChosen'
      BY <2>1, StoredStays, Zenon DEF Preference!PreferencesInv, Preference!ChosenWasOffered, Preference!AtMostOne
    <2>4. ASSUME NEW r \in Pages PROVE (s5[r] = Preference!Closed)' \/ Preference!PageOK(s5[r])'
      <3>1. s5'[r] = Preference!Closed \/ Preference!PageOK(s5'[r])
        BY <2>1 DEF Preference!PreferencesInv
      <3> QED
        BY <2>1, <2>2, <3>1, PageStays DEF Preference!Closed
    <2> QED
      BY <2>2, <2>3, <2>4 DEF Preference!PreferencesInv
  <1> QED
    BY <1>1, <1>2

(* At most one value is no more than one. *)
LEMMA ShortList == ASSUME NEW s, Preference!AtMostOne(s) PROVE Len(s) <= 1
  <1>1. CASE s = <<>>
    BY <1>1
  <1>2. CASE s = <<s[1]>>
    <2>1. \A x : Len(<<x>>) = 1
      OBVIOUS
    <2> QED
      BY <1>2, <2>1
  <1> QED
    BY <1>1, <1>2, Zenon DEF Preference!AtMostOne

(* It has in it what the preferences promise. *)
LEMMA PreferencesPromise ==
  Preference!PreferencesInv => Preference!PreferencesTypeOK /\ Preference!ChoiceIsKept
  <1> SUFFICES ASSUME Preference!PreferencesInv
               PROVE  Preference!PreferencesTypeOK /\ Preference!ChoiceIsKept
    OBVIOUS
  <1>1. s1 \in Preference!Keys /\ Preference!AtMostOne(s4) /\ Preference!StoredIsChosen
    BY DEF Preference!PreferencesInv
  <1>2. Preference!AtMostOne(s3)
    <2>1. CASE s1 \in Preference!Notices
      BY <1>1, <2>1, StoredOf, SingleIsOne, Zenon
    <2>2. CASE s1 \notin Preference!Notices
      BY <1>1, <2>2, StoredOf, Zenon
    <2> QED
      BY <2>1, <2>2
  <1>3. Len(s3) <= 1 /\ Len(s4) <= 1
    BY <1>1, <1>2, ShortList
  <1>4. \A p \in Pages : s5[p] # Preference!Closed => Preference!PageOK(s5[p])
    BY Zenon DEF Preference!PreferencesInv
  <1>5. \A p \in Pages : s5[p] # Preference!Closed =>
          /\ s5[p].at \in {"loaded", "again"} /\ s5[p].day <= s6
          /\ s5[p].reloads => s1 = "video"
          /\ s5[p].zoom # <<>> => s5[p].value = 75
    BY <1>4, Zenon DEF Preference!PageOK, Preference!PageWaits, Preference!PageDay, Preference!PageShows
  <1>6. s1 = "icons" /\ s3 # <<>> => s3[1] \subseteq Items
    <2> SUFFICES ASSUME s1 = "icons", s3 # <<>> PROVE s3[1] \subseteq Items
      OBVIOUS
    <2>1. s3 = s4
      BY <1>1, KeysApart, StoredOf, Zenon
    <2> QED
      BY <2>1, Zenon DEF Preference!PreferencesInv, Preference!ChosenWasOffered
  <1>7. Preference!PreferencesTypeOK
    BY <1>1, <1>3, <1>5, <1>6, Zenon DEF Preference!PreferencesTypeOK
  <1>8. Preference!ChoiceIsKept
    <2> SUFFICES ASSUME NEW p \in Pages, s5[p] # Preference!Closed, s5[p].fresh, s5[p].zoom = <<>>,
                        s5[p].asks = <<>>, s1 = "scale" => s5[p].menu
                 PROVE  s5[p].value = Preference!Wanted(s5[p])
      BY Zenon DEF Preference!ChoiceIsKept
    <2>1. Preference!PageShows(s5[p])
      BY <1>4, Zenon DEF Preference!PageOK
    <2> QED
      BY <2>1, Zenon DEF Preference!PageShows, Preference!Scale
  <1> QED
    BY <1>7, <1>8

(* For any number of pages and days: a page applies what was chosen last in   *)
(* any page before it was loaded, and a notice that was dismissed stays away  *)
(* for its days (localstorage.ts).                                            *)
THEOREM PreferencesHold ==
  Preference!PreferencesSpec => [](Preference!PreferencesTypeOK /\ Preference!ChoiceIsKept)
  BY PreferencesStart, PreferencesKeep, PreferencesPromise, PTL DEF Preference!PreferencesSpec

-------------------------------------------------------------------------------
(****************************************************************************)
(* All parts.                                                                 *)
(****************************************************************************)

PartNames == {"keyboard", "mouse", "pad", "region", "menu", "transfer", "overlay", "chat",
              "preference"}

(* Of the part that runs, its invariant.                                      *)
PartsInv ==
  /\ part \in PartNames
  /\ part = "keyboard" => KeyTypesAndReports
  /\ part = "mouse" => Mouse!MouseInv
  /\ part = "pad" => Pad!PadInv
  /\ part = "region" => RegionKept
  /\ part = "menu" => Menu!MenuInv
  /\ part = "transfer" => TransferKept
  /\ part = "overlay" => Overlay!OverlayInv
  /\ part = "chat" => Chat!ChatInv
  /\ part = "preference" => Preference!PreferencesInv

(* It holds of whatever part a behaviour picks, ...                           *)
LEMMA PartsStart == Init => PartsInv
  BY Zenon, KeyboardStarts, MouseStarts, PadStarts, RegionStarts, MenuStarts, TransferStarts,
     OverlayStarts, ChatStarts, PreferencesStart
  DEF Init, PartsInv, PartNames

(* ... which runs alone: a step is one of its own, or none.                   *)
LEMMA StepIsOfPart ==
  ASSUME [Next]_pageVars
  PROVE  /\ part' = part
         /\ part = "keyboard" => [Keyboard!KeyboardNext]_(Keyboard!keyboardVars)
         /\ part = "mouse" => [Mouse!MouseNext]_(Mouse!mouseVars)
         /\ part = "pad" => [Pad!PadNext]_(Pad!padVars)
         /\ part = "region" => [Region!RegionNext]_(Region!regionVars)
         /\ part = "menu" => [Menu!MenuNext]_(Menu!menuVars)
         /\ part = "transfer" => [Transfer!TransferNext]_(Transfer!transferVars)
         /\ part = "overlay" => [Overlay!OverlayNext]_(Overlay!overlayVars)
         /\ part = "chat" => [Chat!ChatNext]_(Chat!chatVars)
         /\ part = "preference" => [Preference!PreferencesNext]_(Preference!preferenceVars)
  <1>1. CASE Next
    BY <1>1, Zenon DEF Next
  <1>2. CASE UNCHANGED pageVars
    <2>1. UNCHANGED << part, s1, s2, s3, s4, s5, s6, s7, s8, s9, s10, s11, s12, s13, s14, s15,
                       s16, s17 >>
      BY <1>2 DEF pageVars
    <2>2. UNCHANGED Keyboard!keyboardVars
      BY <2>1 DEF Keyboard!keyboardVars, Keyboard!operator, Keyboard!virtual
    <2>3. UNCHANGED Mouse!mouseVars /\ UNCHANGED Pad!padVars
      BY <2>1 DEF Mouse!mouseVars, Mouse!gesture, Pad!padVars, Pad!motion, Pad!touch
    <2>4. UNCHANGED Region!regionVars /\ UNCHANGED Menu!menuVars /\ UNCHANGED Transfer!transferVars
      BY <2>1 DEF Region!regionVars, Menu!menuVars, Transfer!transferVars
    <2>5. /\ UNCHANGED Overlay!overlayVars /\ UNCHANGED Chat!chatVars
          /\ UNCHANGED Preference!preferenceVars
      BY <2>1 DEF Overlay!overlayVars, Chat!chatVars, Preference!preferenceVars
    <2> QED
      BY <2>1, <2>2, <2>3, <2>4, <2>5
  <1> QED
    BY <1>1, <1>2

LEMMA PartsKeep ==
  ASSUME PartsInv, [Next]_pageVars
  PROVE  PartsInv'
  <1>1. part' = part /\ part \in PartNames
    BY StepIsOfPart, Zenon DEF PartsInv
  <1>2. CASE part = "keyboard"
    <2>1. KeyTypesAndReports /\ [Keyboard!KeyboardNext]_(Keyboard!keyboardVars)
      BY <1>2, StepIsOfPart, Zenon DEF PartsInv
    <2> QED
      BY <1>1, <1>2, <2>1, KeyboardKeeps, Zenon DEF PartsInv
  <1>3. CASE part = "mouse"
    BY <1>1, <1>3, StepIsOfPart, MouseKeeps, Zenon DEF PartsInv
  <1>4. CASE part = "pad"
    BY <1>1, <1>4, StepIsOfPart, PadKeeps, Zenon DEF PartsInv
  <1>5. CASE part = "region"
    <2>1. RegionKept /\ [Region!RegionNext]_(Region!regionVars)
      BY <1>5, StepIsOfPart, Zenon DEF PartsInv
    <2> QED
      BY <1>1, <1>5, <2>1, RegionKeeps, Zenon DEF PartsInv
  <1>6. CASE part = "menu"
    BY <1>1, <1>6, StepIsOfPart, MenuKeeps, Zenon DEF PartsInv
  <1>7. CASE part = "transfer"
    BY <1>1, <1>7, StepIsOfPart, TransferKeeps, Zenon DEF PartsInv
  <1>8. CASE part = "overlay"
    BY <1>1, <1>8, StepIsOfPart, OverlayKeeps, Zenon DEF PartsInv
  <1>9. CASE part = "chat"
    BY <1>1, <1>9, StepIsOfPart, ChatKeeps, Zenon DEF PartsInv
  <1>10. CASE part = "preference"
    <2>1. Preference!PreferencesInv /\ [Preference!PreferencesNext]_(Preference!preferenceVars)
      BY <1>10, StepIsOfPart, Zenon DEF PartsInv
    <2> QED
      BY <1>1, <1>10, <2>1, PreferencesKeep, Zenon DEF PartsInv
  <1> QED
    BY <1>1, <1>2, <1>3, <1>4, <1>5, <1>6, <1>7, <1>8, <1>9, <1>10 DEF PartNames

LEMMA PartsInvariance == Spec => []PartsInv
  BY PartsStart, PartsKeep, PTL DEF Spec

(* The variables of the part that runs keep their types.                      *)
THEOREM ControlsTypeCorrect == Spec => []ControlsTypeOK
  <1>1. PartsInv => ControlsTypeOK
    BY Zenon, KeyboardPromises, MousePromises, PadPromises, RegionPromises, MenuPromises,
       TransferPromises, OverlayPromises, ChatPromises, PreferencesPromise
    DEF PartsInv, PartNames, ControlsTypeOK
  <1> QED
    BY <1>1, PartsInvariance, PTL

(* No key stays down that the page has forgotten, no button that nobody holds, *)
(* no typing into a dialog reaches the host (keyboard/index.tsx, mouse,       *)
(* jotai/keyboard.ts, useMenuVisibility.ts).                                  *)
THEOREM HeldStaysKnown == Spec => []HeldIsKnown
  <1>1. PartsInv => HeldIsKnown
    BY Zenon, KeyboardPromises, MousePromises, PadPromises, MenuPromises DEF PartsInv, HeldIsKnown
  <1> QED
    BY <1>1, PartsInvariance, PTL

(* The region in force has the selected size, and is the one the page lists   *)
(* under it unless that selection was overtaken, and a selection stays on the *)
(* picture (original-resolution.tsx, input_region.go,                         *)
(* input-region-overlay.tsx), the messages shown are those of the             *)
(* conversation, and a page applies what was chosen last                      *)
(* (picoclaw-gateway.ts, sidebar-effects.ts, localstorage.ts).                *)
THEOREM KeptStaysShown == Spec => []KeptIsShown
  <1>1. PartsInv => KeptIsShown
    BY Zenon, RegionPromises, OverlayPromises, ChatPromises, PreferencesPromise
    DEF PartsInv, KeptIsShown
  <1> QED
    BY <1>1, PartsInvariance, PTL

(* A button goes down where the pointer is; reports account for every motion  *)
(* of a finger (MotionAccounted, with its doubling and its clamping); what is *)
(* saved of a drag is in the picture; and a download the popover watches is called     *)
(* successful only when a remote transfer succeeded after it was asked for,   *)
(* however polls, answers and clicks overlap (mouse/absolute.tsx,             *)
(* mouse/relative.tsx, input-region-overlay.tsx, download.tsx:123 and :175).  *)
THEOREM ToldStaysTrue == Spec => ToldIsTrue
  <1>1. ASSUME PartsInv, Next
        PROVE  ToldStep
    <2>1. ASSUME part = "mouse"
          PROVE  Mouse!PressWherePointed
      BY <1>1, <2>1, MousePresses, Zenon DEF Next
    <2>2. ASSUME part = "pad"
          PROVE  Pad!MotionAccounted'
      BY <1>1, <2>2, PartsKeep, StepIsOfPart, Zenon DEF PartsInv, Pad!PadInv
    <2>3. ASSUME part = "overlay"
          PROVE  Overlay!SavedInPicture
      BY <1>1, <2>3, OverlaySaves, Zenon DEF Next, PartsInv
    <2>4. ASSUME part = "transfer"
          PROVE  Transfer!NewSuccess
      BY <1>1, <2>4, TransferSucceeds, Zenon DEF Next, PartsInv
    <2> QED
      BY <2>1, <2>2, <2>3, <2>4, Zenon DEF ToldStep
  <1>2. PartsInv /\ [Next]_pageVars => [ToldStep]_pageVars
    BY <1>1
  <1> QED
    BY <1>2, PartsInvariance, PTL DEF Spec, ToldIsTrue
===============================================================================
