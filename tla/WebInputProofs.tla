---------------------------- MODULE WebInputProofs ----------------------------
(****************************************************************************)
(* Theorems about what the operator works the host with, for any values of    *)
(* the constants that MCWebControls admits, its bounds included: keyboard,    *)
(* both mice, the dialogs that take the keyboard away and the overlay the     *)
(* control region is drawn on.  Of each part there is an invariant that holds *)
(* at the beginning (...Starts), that every step keeps (...Keeps) and that    *)
(* has the part's properties in it (...Promises).                             *)
(****************************************************************************)
EXTENDS MCWebControls, FiniteSetTheorems, TLAPS

(* The bounds of the instance, one by one. *)
LEMMA BoundsAreNaturals ==
  /\ MaxKeys \in Nat /\ RegionCalls \in Nat /\ RegionClicks \in Nat /\ MenuClicks \in Nat
  /\ TransferClicks \in Nat /\ TransferFaults \in Nat /\ MaxPolls \in Nat /\ Gestures \in Nat
  /\ ChatClicks \in Nat /\ ChatFrames \in Nat /\ LastDay \in Nat /\ PreferenceEvents \in Nat
  BY BoundsAssumption

-------------------------------------------------------------------------------
(******************************************************************************)
(* Keyboard.                                                                  *)
(* s1, s2, ... are its keys, windows, held, focused, locked, bound, pressed,  *)
(* down, host, composing, leaderKnown, record, modifiers, altGr, swallowed,   *)
(* virtualKey, virtualModifiers.                                              *)
(******************************************************************************)

\* What the last report of all holds comes from the last physical one, or from
\* the virtual keyboard.
HostIsReported == s9 \subseteq s8 \union s17 \union {s16}

\* What the last physical report holds the operator holds, or its release was not
\* sent on, or the record mode keeps it.
DownIsKnown == s8 \subseteq s3 \union s15 \union s13

\* A key that is not a modifier is only forgotten as one whose release was not
\* sent on; so the key that starts the record mode is, if it is down at all.
KeysAreTracked == s8 \ Keyboard!Modifiers \subseteq s7 \union s15
LeaderIsSwallowed == s12 => s11 /\ (Keyboard!Leader \in s8 => Keyboard!Leader \in s15)

KeyboardInv ==
  /\ HostIsReported
  /\ DownIsKnown
  /\ KeysAreTracked
  /\ LeaderIsSwallowed
  /\ s13 \subseteq Keyboard!Modifiers
  /\ Keyboard!NothingDownUnseen

(* What the reports do to it *)

\* The leader key is no modifier.
LEMMA LeaderIsAKey == Keyboard!Leader \notin Keyboard!Modifiers
  BY DEF Keyboard!Leader, Keyboard!Modifiers

\* A report of a key adds at most that key.
LEMMA WithKeyAdds ==
  ASSUME NEW D, NEW k
  PROVE  D \subseteq Keyboard!WithKey(D, k) /\ Keyboard!WithKey(D, k) \subseteq D \union {k}
  BY DEF Keyboard!WithKey

\* Releasing everything re-establishes the invariant.
LEMMA ReleaseKeysKeeps ==
  ASSUME KeyboardInv, Keyboard!ReleaseKeys, UNCHANGED <<s11, Keyboard!virtual>>
  PROVE  KeyboardInv'
  BY DEF KeyboardInv, Keyboard!ReleaseKeys, HostIsReported, DownIsKnown, KeysAreTracked,
         LeaderIsSwallowed, Keyboard!NothingDownUnseen, Keyboard!virtual

\* A key goes down.
LEMMA KeyDownKeeps ==
  ASSUME KeyboardInv, NEW k, Keyboard!KeyDown(k)
  PROVE  KeyboardInv'
  <1> USE DEF KeyboardInv
  <1>1. s3' = s3 \union {k} /\ UNCHANGED <<s4, s6, s11, s16, s17>>
    BY DEF Keyboard!KeyDown, Keyboard!virtual
  <1>2. CASE Keyboard!SendNothing /\ UNCHANGED <<s7, s12, s13, s14>>
    BY <1>1, <1>2 DEF Keyboard!SendNothing, HostIsReported, DownIsKnown, KeysAreTracked,
                      LeaderIsSwallowed, Keyboard!NothingDownUnseen
  <1>3. CASE Keyboard!Handled /\ k \notin s7 /\ s11 /\ Keyboard!LeaderDown(k)
    <2>1. Keyboard!NothingDownUnseen'
      BY <1>1, <1>3 DEF Keyboard!Handled, Keyboard!NothingDownUnseen
    <2>2. s7' = s7 \union {k}
      BY <1>3 DEF Keyboard!LeaderDown
    <2>3. CASE k = Keyboard!Leader /\ s12' = TRUE /\ Keyboard!SendNothing /\ UNCHANGED s13
      BY <1>1, <1>3, <2>1, <2>2, <2>3, LeaderIsAKey
         DEF Keyboard!SendNothing, HostIsReported, DownIsKnown, KeysAreTracked, LeaderIsSwallowed
    <2>4. CASE /\ k \in Keyboard!Modifiers \ s13
               /\ s13' = s13 \union {k} /\ Keyboard!SendDown(k) /\ UNCHANGED s12
      <3>1. s8' = Keyboard!WithKey(s8, k) /\ s9' = s8' /\ s15' = s15
        BY <2>4 DEF Keyboard!SendDown
      <3>2. s8' \subseteq s8 \union {k}
        BY <3>1, WithKeyAdds
      <3> QED
        BY <1>1, <2>1, <2>2, <2>4, <3>1, <3>2, LeaderIsAKey
           DEF HostIsReported, DownIsKnown, KeysAreTracked, LeaderIsSwallowed
    <2>5. CASE k \in s13 /\ Keyboard!SendNothing /\ UNCHANGED <<s12, s13>>
      BY <1>1, <2>1, <2>2, <2>5
         DEF Keyboard!SendNothing, HostIsReported, DownIsKnown, KeysAreTracked, LeaderIsSwallowed
    <2>6. CASE k \notin Keyboard!Modifiers \union {Keyboard!Leader} /\ Keyboard!SendUp({k}) /\ UNCHANGED <<s12, s13>>
      BY <1>1, <2>1, <2>2, <2>6
         DEF Keyboard!SendUp, HostIsReported, DownIsKnown, KeysAreTracked, LeaderIsSwallowed
    <2> QED
      BY <1>3, <2>3, <2>4, <2>5, <2>6 DEF Keyboard!LeaderDown
  <1>4. CASE Keyboard!Handled /\ k \notin s7 /\ ~(s11 /\ (k = Keyboard!Leader \/ s12)) /\ Keyboard!PlainDown(k)
    <2>1. Keyboard!NothingDownUnseen' /\ ~s12' /\ s13' = s13
      BY <1>1, <1>4 DEF Keyboard!Handled, Keyboard!NothingDownUnseen, LeaderIsSwallowed, Keyboard!PlainDown
    <2>2. CASE /\ k = "AltRight"
               /\ s7' = (s7 \ {"ControlLeft"}) \union {k}
               /\ s8' = Keyboard!WithKey(s8 \ {"ControlLeft"}, k) /\ s9' = s8'
               /\ s15' = s15 \ {"ControlLeft"}
      <3>1. s8' \subseteq (s8 \ {"ControlLeft"}) \union {k}
        BY <2>2, WithKeyAdds
      <3> QED
        BY <1>1, <2>1, <2>2, <3>1
           DEF HostIsReported, DownIsKnown, KeysAreTracked, LeaderIsSwallowed, Keyboard!Modifiers
    <2>3. CASE Keyboard!SendDown(k) /\ s7' = s7 \union {k}
      <3>1. s8' \subseteq s8 \union {k} /\ s9' = s8' /\ s15' = s15
        BY <2>3, WithKeyAdds DEF Keyboard!SendDown
      <3> QED
        BY <1>1, <2>1, <2>3, <3>1 DEF HostIsReported, DownIsKnown, KeysAreTracked, LeaderIsSwallowed
    <2> QED
      BY <1>4, <2>2, <2>3 DEF Keyboard!PlainDown
  <1> QED
    BY <1>2, <1>3, <1>4 DEF Keyboard!KeyDown

\* A release is not sent on.
LEMMA SwallowKeeps ==
  ASSUME KeyboardInv, NEW k, Keyboard!Swallow(k), s3' = s3 \ {k}, s7' \in {s7, s7 \ {k}},
         UNCHANGED <<s4, s6, s11, s16, s17>>
  PROVE  KeyboardInv'
  BY LeaderIsAKey DEF KeyboardInv, Keyboard!Swallow, HostIsReported, DownIsKnown, KeysAreTracked,
         LeaderIsSwallowed, Keyboard!NothingDownUnseen

\* A key comes up.
LEMMA KeyUpKeeps ==
  ASSUME KeyboardInv, NEW k, Keyboard!KeyUp(k)
  PROVE  KeyboardInv'
  <1>1. s3' = s3 \ {k} /\ UNCHANGED <<s4, s6, s11, s16, s17>>
    BY DEF Keyboard!KeyUp, Keyboard!virtual
  <1>2. CASE ~Keyboard!Handled /\ Keyboard!Swallow(k) /\ UNCHANGED <<s7, s14>>
    BY <1>1, <1>2, SwallowKeeps
  <1>3. CASE Keyboard!LeaderUp(k)
    <2>1. s7' = s7 \ {k}
      BY <1>3 DEF Keyboard!LeaderUp
    <2>2. CASE k = Keyboard!Leader /\ s12 /\ Keyboard!LeaderReset
      <3>1. /\ ~s12' /\ s13' = {}
            /\ s8' = s8 \ s13 /\ s15' = s15 \ s13
            /\ s9' = IF s13 = {} THEN s9 ELSE s8'
        BY <2>2 DEF Keyboard!LeaderReset, Keyboard!SendUp
      <3>2. Keyboard!Leader \notin s13 /\ (Keyboard!Leader \in s8 => Keyboard!Leader \in s15)
        BY <2>2, LeaderIsAKey DEF KeyboardInv, LeaderIsSwallowed
      <3>3. HostIsReported'
        BY <1>1, <3>1 DEF KeyboardInv, HostIsReported
      <3>4. DownIsKnown'
        BY <1>1, <2>2, <3>1, <3>2 DEF KeyboardInv, DownIsKnown
      <3>5. KeysAreTracked'
        BY <2>1, <2>2, <3>1, <3>2 DEF KeyboardInv, KeysAreTracked
      <3> QED
        BY <1>1, <3>1, <3>3, <3>4, <3>5 DEF KeyboardInv, LeaderIsSwallowed, Keyboard!NothingDownUnseen
    <2>3. CASE Keyboard!Swallow(k)
      BY <1>1, <2>1, <2>3, SwallowKeeps
    <2> QED
      BY <1>3, <2>2, <2>3 DEF Keyboard!LeaderUp
  <1>4. CASE Keyboard!PlainUp(k)
    <2>1. CASE k = "ControlLeft" /\ Keyboard!Swallow(k) /\ s7' = s7 \ {k}
      BY <1>1, <2>1, SwallowKeeps
    <2>2. CASE /\ Keyboard!SendUp({k} \union Keyboard!MetaCombinations(k))
               /\ s7' = s7 \ ({k} \union Keyboard!MetaCombinations(k)
                                        \union (IF s14 /\ k = "AltRight" THEN {"ControlLeft"} ELSE {}))
               /\ UNCHANGED <<s12, s13>>
      <3> DEFINE up == {k} \union Keyboard!MetaCombinations(k)
      <3>1. s8' = s8 \ up /\ s15' = s15 \ up /\ s9' = s8'
        BY <2>2 DEF Keyboard!SendUp
      <3>2. \A x \in s7 \ Keyboard!Modifiers : x \notin up => x \in s7'
        BY <2>2 DEF Keyboard!Modifiers
      <3>3. k \in up
        OBVIOUS
      <3> HIDE DEF up
      <3> QED
        BY <1>1, <2>2, <3>1, <3>2, <3>3
           DEF KeyboardInv, HostIsReported, DownIsKnown, KeysAreTracked, LeaderIsSwallowed,
               Keyboard!NothingDownUnseen
    <2> QED
      BY <1>4, <2>1, <2>2 DEF Keyboard!PlainUp
  <1> QED
    BY <1>2, <1>3, <1>4 DEF Keyboard!KeyUp

\* Keys that are not there change only what the last report of all holds.
LEMMA VirtualKeeps ==
  ASSUME KeyboardInv,
         (\E k \in s1 : Keyboard!VirtualPress(k)) \/ Keyboard!VirtualRelease \/ Keyboard!SendShortcut
  PROVE  KeyboardInv'
  <1>1. UNCHANGED <<s3, s4, s6, s7, s8, s11, s12, s13, s15>>
    BY DEF Keyboard!VirtualPress, Keyboard!VirtualRelease, Keyboard!SendShortcut, Keyboard!operator
  <1>2. HostIsReported'
    <2>1. ASSUME NEW k \in s1, Keyboard!VirtualPress(k)
          PROVE  HostIsReported'
      BY <1>1, <2>1 DEF Keyboard!VirtualPress, KeyboardInv, HostIsReported
    <2>2. CASE Keyboard!VirtualRelease \/ Keyboard!SendShortcut
      BY <2>2 DEF Keyboard!VirtualRelease, Keyboard!SendShortcut, HostIsReported
    <2> QED
      BY <2>1, <2>2
  <1> QED
    BY <1>1, <1>2 DEF KeyboardInv, DownIsKnown, KeysAreTracked, LeaderIsSwallowed, Keyboard!NothingDownUnseen

\* What else happens to the page, and nothing at all.
LEMMA PageKeeps ==
  ASSUME KeyboardInv,
         Keyboard!Blur \/ Keyboard!Focus \/ Keyboard!Lock \/ Keyboard!Rerender \/ Keyboard!Takeover \/ Keyboard!Composition \/ Keyboard!LeaderKnown \/ UNCHANGED Keyboard!keyboardVars
  PROVE  KeyboardInv'
  <1>1. CASE Keyboard!Blur \/ Keyboard!Rerender \/ Keyboard!Takeover
    BY <1>1, ReleaseKeysKeeps DEF Keyboard!Blur, Keyboard!Rerender, Keyboard!Takeover
  <1>2. CASE Keyboard!Focus
    <2>1. s8 = {}
      BY <1>2 DEF Keyboard!Focus, KeyboardInv, Keyboard!NothingDownUnseen
    <2> QED
      BY <1>2, <2>1 DEF Keyboard!Focus, KeyboardInv, HostIsReported, DownIsKnown, KeysAreTracked,
         LeaderIsSwallowed, Keyboard!NothingDownUnseen, Keyboard!virtual
  <1>3. CASE Keyboard!Lock \/ Keyboard!Composition \/ Keyboard!LeaderKnown \/ UNCHANGED Keyboard!keyboardVars
    <2>1. /\ UNCHANGED <<s3, s4, s6, s7, s8, s9, s12, s13, s15,
                         s16, s17>>
          /\ s11 => s11'
      BY <1>3 DEF Keyboard!Lock, Keyboard!Composition, Keyboard!LeaderKnown, Keyboard!keyboardVars, Keyboard!operator, Keyboard!virtual
    <2> QED
      BY <2>1 DEF KeyboardInv, HostIsReported, DownIsKnown, KeysAreTracked,
         LeaderIsSwallowed, Keyboard!NothingDownUnseen
  <1> QED
    BY <1>1, <1>2, <1>3

(* Types *)

\* The keys of a keyboard are finitely many; the types are kept by them.
KeySets ==
  /\ s3 \subseteq s1 /\ s7 \subseteq s1 /\ s8 \subseteq s1 /\ s9 \subseteq s1
  /\ s15 \subseteq s1
  /\ s13 \subseteq Keyboard!Modifiers \intersect s1
  /\ s17 \subseteq Keyboard!Modifiers \intersect s1
  /\ s16 \in s1 \union {Keyboard!NoKey}
KeyFlags ==
  /\ s2 \in BOOLEAN /\ s4 \in BOOLEAN /\ s5 \in BOOLEAN /\ s6 \in BOOLEAN
  /\ s10 \in BOOLEAN /\ s11 \in BOOLEAN /\ s12 \in BOOLEAN /\ s14 \in BOOLEAN
ReportFits == IsFiniteSet(s8) /\ Cardinality(s8 \ Keyboard!Modifiers) <= MaxKeys
KeyboardTypes == IsFiniteSet(s1) /\ KeySets /\ KeyFlags /\ ReportFits

\* The sets and the flags keep their types.
LEMMA SetsKeep ==
  ASSUME KeySets, KeyFlags, Keyboard!KeyboardNext
  PROVE  KeySets' /\ KeyFlags'
  <1> USE DEF KeySets, KeyFlags
  <1>1. ASSUME NEW k \in s1, Keyboard!KeyDown(k)
        PROVE  KeySets' /\ KeyFlags'
    <2>1. /\ s3' = s3 \union {k}
          /\ UNCHANGED <<s1, s2, s4, s5, s6, s10, s11, s16, s17>>
      BY <1>1 DEF Keyboard!KeyDown, Keyboard!virtual
    <2>2. /\ \A D : D \subseteq s1 => Keyboard!WithKey(D, k) \subseteq s1
          /\ {k} \subseteq s1
      BY WithKeyAdds
    <2>3. /\ s7' \subseteq s1 /\ s8' \subseteq s1 /\ s9' \subseteq s1
          /\ s15' \subseteq s1 /\ s13' \subseteq Keyboard!Modifiers \intersect s1
          /\ s12' \in BOOLEAN /\ s14' \in BOOLEAN
      <3>1. CASE Keyboard!SendNothing /\ UNCHANGED <<s7, s12, s13, s14>>
        BY <3>1 DEF Keyboard!SendNothing
      <3>2. CASE Keyboard!LeaderDown(k)
        BY <2>2, <3>2 DEF Keyboard!LeaderDown, Keyboard!SendNothing, Keyboard!SendDown, Keyboard!SendUp
      <3>3. CASE Keyboard!PlainDown(k)
        BY <2>2, <3>3 DEF Keyboard!PlainDown, Keyboard!SendDown
      <3> QED
        BY <1>1, <3>1, <3>2, <3>3 DEF Keyboard!KeyDown
    <2> QED
      BY <2>1, <2>3
  <1>2. ASSUME NEW k \in s1, Keyboard!KeyUp(k)
        PROVE  KeySets' /\ KeyFlags'
    <2>1. /\ s3' = s3 \ {k}
          /\ UNCHANGED <<s1, s2, s4, s5, s6, s10, s11, s16, s17>>
      BY <1>2 DEF Keyboard!KeyUp, Keyboard!virtual
    <2>2. /\ s7' \subseteq s7
          /\ s14' = s14 \/ s14' = (s14 /\ k # "AltRight")
      BY <1>2 DEF Keyboard!KeyUp, Keyboard!LeaderUp, Keyboard!PlainUp
    <2>3. \/ Keyboard!Swallow(k)
          \/ Keyboard!LeaderReset
          \/ Keyboard!SendUp({k} \union Keyboard!MetaCombinations(k)) /\ UNCHANGED <<s12, s13>>
      BY <1>2 DEF Keyboard!KeyUp, Keyboard!LeaderUp, Keyboard!PlainUp
    <2>4. /\ s8' \subseteq s1 /\ s9' \subseteq s1 /\ s15' \subseteq s1
          /\ s13' \subseteq Keyboard!Modifiers \intersect s1 /\ s12' \in BOOLEAN
      BY <2>3 DEF Keyboard!Swallow, Keyboard!LeaderReset, Keyboard!SendUp
    <2> QED
      BY <2>1, <2>2, <2>4
  <1>3. ASSUME NEW k \in s1, Keyboard!VirtualPress(k)
        PROVE  KeySets' /\ KeyFlags'
    <2>1. UNCHANGED <<s1, s2, s3, s4, s5, s6, s7, s8, s10, s11,
                      s12, s13, s14, s15>>
      BY <1>3 DEF Keyboard!VirtualPress, Keyboard!operator
    <2>2. /\ s17' \subseteq Keyboard!Modifiers \intersect s1 /\ s9' \subseteq s1
          /\ s16' \in s1 \union {Keyboard!NoKey}
      BY <1>3 DEF Keyboard!VirtualPress
    <2> QED
      BY <2>1, <2>2
  <1>4. CASE Keyboard!VirtualRelease \/ Keyboard!SendShortcut
    BY <1>4 DEF Keyboard!VirtualRelease, Keyboard!SendShortcut, Keyboard!operator, Keyboard!virtual
  <1>5. CASE Keyboard!Blur \/ Keyboard!Rerender \/ Keyboard!Takeover
    BY <1>5 DEF Keyboard!Blur, Keyboard!Rerender, Keyboard!Takeover, Keyboard!ReleaseKeys, Keyboard!operator, Keyboard!virtual
  <1>6. CASE Keyboard!Focus \/ Keyboard!Lock \/ Keyboard!Composition \/ Keyboard!LeaderKnown
    <2>1. /\ UNCHANGED <<s1, s7, s8, s9, s15, s13, s16, s17>>
          /\ s3' = s3 \/ s3' \subseteq s1
      BY <1>6 DEF Keyboard!Focus, Keyboard!Lock, Keyboard!Composition, Keyboard!LeaderKnown, Keyboard!operator, Keyboard!virtual
    <2>2. KeySets'
      BY <2>1
    <2>3. KeyFlags'
      BY <1>6 DEF Keyboard!Focus, Keyboard!Lock, Keyboard!Composition, Keyboard!LeaderKnown, Keyboard!operator
    <2> QED
      BY <2>2, <2>3
  <1> QED
    BY <1>1, <1>2, <1>3, <1>4, <1>5, <1>6 DEF Keyboard!KeyboardNext

\* Fewer keys fit as well.
LEMMA FewerFit ==
  ASSUME MaxKeys \in Nat, ReportFits, NEW D, D \subseteq s8
  PROVE  IsFiniteSet(D) /\ Cardinality(D \ Keyboard!Modifiers) <= MaxKeys
  <1>1. IsFiniteSet(D) /\ IsFiniteSet(s8 \ Keyboard!Modifiers)
    BY FS_Subset DEF ReportFits
  <1>2. D \ Keyboard!Modifiers \in SUBSET (s8 \ Keyboard!Modifiers)
    OBVIOUS
  <1>3. /\ Cardinality(D \ Keyboard!Modifiers) <= Cardinality(s8 \ Keyboard!Modifiers)
        /\ IsFiniteSet(D \ Keyboard!Modifiers)
    BY <1>1, <1>2, FS_Subset
  <1> QED
    BY <1>1, <1>3, FS_CardinalityType DEF ReportFits

\* The operators of the library are the same in the module of the keyboard.
LEMMA SameKeyCount == \A S : Keyboard!Cardinality(S) = Cardinality(S)
  BY Zenon DEF Keyboard!Cardinality, Cardinality

\* A key is only added to a report that has room for it (KeyboardReport.keyDown).
LEMMA WithKeyFits ==
  ASSUME MaxKeys \in Nat, NEW D, NEW k, IsFiniteSet(D), Cardinality(D \ Keyboard!Modifiers) <= MaxKeys
  PROVE  IsFiniteSet(Keyboard!WithKey(D, k)) /\ Cardinality(Keyboard!WithKey(D, k) \ Keyboard!Modifiers) <= MaxKeys
  <1>1. IsFiniteSet(D \union {k})
    BY FS_AddElement
  <1>2. IsFiniteSet(D \ Keyboard!Modifiers)
    BY FS_Subset
  <1>3. Cardinality(D \ Keyboard!Modifiers) \in Nat
    BY <1>2, FS_CardinalityType
  <1>4. CASE k \in Keyboard!Modifiers
    <2>1. (D \union {k}) \ Keyboard!Modifiers = D \ Keyboard!Modifiers
      BY <1>4
    <2> QED
      BY <1>1, <1>4, <2>1 DEF Keyboard!WithKey
  <1>5. CASE k \notin Keyboard!Modifiers /\ Cardinality(D \ Keyboard!Modifiers) < MaxKeys
    <2>1. (D \union {k}) \ Keyboard!Modifiers = (D \ Keyboard!Modifiers) \union {k}
      BY <1>5
    <2>2. Cardinality((D \ Keyboard!Modifiers) \union {k}) <= Cardinality(D \ Keyboard!Modifiers) + 1
      BY <1>2, <1>3, FS_AddElement
    <2>3. Cardinality((D \ Keyboard!Modifiers) \union {k}) \in Nat
      BY <1>2, FS_AddElement, FS_CardinalityType
    <2> QED
      BY <1>1, <1>3, <1>5, <2>1, <2>2, <2>3 DEF Keyboard!WithKey
  <1>6. CASE k \notin Keyboard!Modifiers /\ ~(Cardinality(D \ Keyboard!Modifiers) < MaxKeys)
    <2>1. Keyboard!WithKey(D, k) = D
      BY <1>6, SameKeyCount, Zenon DEF Keyboard!WithKey
    <2> QED
      BY <2>1
  <1> QED
    BY <1>4, <1>5, <1>6

\* The physical report never holds more than its keys.
LEMMA FitKeeps ==
  ASSUME MaxKeys \in Nat, KeyboardTypes, Keyboard!KeyboardNext
  PROVE  ReportFits'
  <1> USE DEF KeyboardTypes
  <1>1. \/ s8' \subseteq s8
        \/ \E D, k : D \subseteq s8 /\ s8' = Keyboard!WithKey(D, k)
    <2>1. ASSUME NEW k \in s1, Keyboard!KeyDown(k)
          PROVE  s8' \subseteq s8 \/ \E D : D \subseteq s8 /\ s8' = Keyboard!WithKey(D, k)
      BY <2>1 DEF Keyboard!KeyDown, Keyboard!SendNothing, Keyboard!LeaderDown, Keyboard!PlainDown, Keyboard!SendDown, Keyboard!SendUp
    <2>2. ASSUME NEW k \in s1, Keyboard!KeyUp(k)
          PROVE  s8' \subseteq s8
      BY <2>2 DEF Keyboard!KeyUp, Keyboard!LeaderUp, Keyboard!LeaderReset, Keyboard!Swallow, Keyboard!PlainUp, Keyboard!SendUp
    <2>3. ASSUME NEW k \in s1, Keyboard!VirtualPress(k)
          PROVE  s8' \subseteq s8
      BY <2>3 DEF Keyboard!VirtualPress
    <2>4. CASE \/ Keyboard!Blur \/ Keyboard!Focus \/ Keyboard!Lock \/ Keyboard!Rerender \/ Keyboard!Takeover \/ Keyboard!Composition \/ Keyboard!LeaderKnown
               \/ Keyboard!VirtualRelease \/ Keyboard!SendShortcut
      BY <2>4 DEF Keyboard!Blur, Keyboard!Focus, Keyboard!Lock, Keyboard!Rerender, Keyboard!Takeover, Keyboard!Composition, Keyboard!LeaderKnown, Keyboard!VirtualRelease,
                  Keyboard!SendShortcut, Keyboard!ReleaseKeys
    <2> QED
      BY <2>1, <2>2, <2>3, <2>4 DEF Keyboard!KeyboardNext
  <1>2. CASE s8' \subseteq s8
    BY <1>2, FewerFit DEF ReportFits
  <1>3. ASSUME NEW D, NEW k, D \subseteq s8, s8' = Keyboard!WithKey(D, k)
        PROVE  ReportFits'
    BY <1>3, FewerFit, WithKeyFits DEF ReportFits
  <1> QED
    BY <1>1, <1>2, <1>3

\* What the keyboard starts with, keeps and promises: reports and types.
KeyTypesAndReports == KeyboardTypes /\ KeyboardInv

(* What the steps keep is at least what the types say. *)
LEMMA KeyTypes == KeyboardTypes => Keyboard!KeyboardTypeOK
  <1> SUFFICES ASSUME KeyboardTypes PROVE Keyboard!KeyboardTypeOK
    OBVIOUS
  <1>1. {s3, s7, s8, s9, s15} \subseteq SUBSET s1
    BY DEF KeyboardTypes, KeySets
  <1>2. /\ s13 \subseteq Keyboard!Modifiers \intersect s1
        /\ s17 \subseteq Keyboard!Modifiers \intersect s1
        /\ s16 \in s1 \union {Keyboard!NoKey}
    BY Zenon DEF KeyboardTypes, KeySets
  <1>3. Keyboard!Cardinality(s8 \ Keyboard!Modifiers) <= MaxKeys
    BY SameKeyCount, Zenon DEF KeyboardTypes, ReportFits
  <1> QED
    BY <1>1, <1>2, <1>3, Zenon DEF KeyboardTypes, KeyFlags, Keyboard!KeyboardTypeOK

(* It holds when the page appears. *)
LEMMA KeyboardStarts == Keyboard!KeyboardInit => KeyTypesAndReports
  <1> SUFFICES ASSUME Keyboard!KeyboardInit PROVE KeyTypesAndReports
    OBVIOUS
  <1>1. KeyboardInv
    BY DEF Keyboard!KeyboardInit, KeyboardInv, HostIsReported, DownIsKnown, KeysAreTracked,
           LeaderIsSwallowed, Keyboard!NothingDownUnseen
  <1>2. IsFiniteSet(s1) /\ KeySets /\ KeyFlags
    BY KeyboardsAssumption DEF Keyboard!KeyboardInit, KeySets, KeyFlags
  <1>3. s8 = {} /\ s8 \ Keyboard!Modifiers = {}
    BY DEF Keyboard!KeyboardInit
  <1>4. ReportFits
    BY <1>3, FS_EmptySet, BoundsAreNaturals DEF ReportFits
  <1> QED
    BY <1>1, <1>2, <1>4 DEF KeyTypesAndReports, KeyboardTypes

(* And every event keeps it. *)
LEMMA KeyboardKeeps ==
  ASSUME KeyTypesAndReports, [Keyboard!KeyboardNext]_(Keyboard!keyboardVars)
  PROVE  KeyTypesAndReports'
  <1>1. KeyboardInv'
    BY KeyDownKeeps, KeyUpKeeps, VirtualKeeps, PageKeeps DEF Keyboard!KeyboardNext, KeyTypesAndReports
  <1>2. CASE Keyboard!KeyboardNext
    <2>1. s1' = s1
      BY <1>2 DEF Keyboard!KeyboardNext, Keyboard!KeyDown, Keyboard!KeyUp, Keyboard!VirtualPress, Keyboard!Blur,
                  Keyboard!Focus, Keyboard!Lock, Keyboard!Rerender, Keyboard!Takeover, Keyboard!Composition,
                  Keyboard!LeaderKnown, Keyboard!VirtualRelease, Keyboard!SendShortcut, Keyboard!operator
    <2>2. KeySets' /\ KeyFlags'
      BY <1>2, SetsKeep DEF KeyTypesAndReports, KeyboardTypes
    <2>3. ReportFits'
      BY <1>2, FitKeeps, BoundsAreNaturals DEF KeyTypesAndReports, KeyboardTypes
    <2> QED
      BY <1>1, <2>1, <2>2, <2>3 DEF KeyTypesAndReports, KeyboardTypes
  <1>3. CASE UNCHANGED Keyboard!keyboardVars
    BY <1>1, <1>3 DEF Keyboard!keyboardVars, Keyboard!operator, Keyboard!virtual, KeyTypesAndReports, KeyboardTypes,
      KeySets, KeyFlags, ReportFits
  <1> QED
    BY <1>2, <1>3

\* Whatever is down at the host is accounted for: no event of the browser, in any
\* order, leaves a key down that the page, the record mode and the operator have
\* forgotten (handleKeyUp, useLeaderKey.ts, useAltGr.ts), and nothing physical is
\* down while the page cannot see it come up (releaseKeys).
LEMMA KeyboardPromises ==
  KeyTypesAndReports => Keyboard!KeyboardTypeOK /\ Keyboard!HostKeysAreKnown /\ Keyboard!NothingDownUnseen
  <1>1. KeyTypesAndReports => Keyboard!KeyboardTypeOK
    BY KeyTypes DEF KeyTypesAndReports
  <1>2. KeyTypesAndReports => Keyboard!HostKeysAreKnown /\ Keyboard!NothingDownUnseen
    BY DEF KeyTypesAndReports, KeyboardInv, HostIsReported, DownIsKnown, Keyboard!HostKeysAreKnown
  <1> QED
    BY <1>1, <1>2

(* Every variable keeps its type, and a report never more keys than it has    *)
(* room for, for any finite keyboards (KeyboardReport.keyDown).  Whatever is  *)
(* down at the host is accounted for: no event of the browser, in any order,  *)
(* leaves a key down that the page, the record mode and the operator have     *)
(* forgotten (handleKeyUp, useLeaderKey.ts, useAltGr.ts), and nothing physical *)
(* is down while the page cannot see it come up (releaseKeys).                *)
THEOREM KeyboardHolds ==
  Keyboard!KeyboardSpec =>
    [](Keyboard!KeyboardTypeOK /\ Keyboard!HostKeysAreKnown /\ Keyboard!NothingDownUnseen)
  BY KeyboardStarts, KeyboardKeeps, KeyboardPromises, PTL DEF Keyboard!KeyboardSpec

-------------------------------------------------------------------------------
(******************************************************************************)
(* Absolute mouse.                                                            *)
(* s1, s2, ... are its buttons, clicked, fingers, touching, touchButton,      *)
(* pressTimer, long, dragging, moved, several, candidate, waiting, last.      *)
(******************************************************************************)

(* A position of the absolute mouse is a number. *)
LEMMA PositionsAreIntegers == \A x \in Mouse!Pixels : Mouse!Position(x) \in Int
  BY MouseAssumption DEF Mouse!Position, Mouse!Pixels

(* The flags of the gesture, and the rest of what the types say. *)
MouseFlags == s4 \in BOOLEAN /\ s6 \in BOOLEAN /\ s7 \in BOOLEAN /\ s8 \in BOOLEAN
              /\ s9 \in BOOLEAN /\ s10 \in BOOLEAN /\ s11 \in BOOLEAN
MouseValues == s1 \subseteq Mouse!Buttons /\ s2 \subseteq Mouse!Buttons /\ s3 \in 0 .. 2
               /\ s5 \in Mouse!Buttons \union {Mouse!NoButton} /\ s12 \in Int /\ s13 \in Int

(* The types, flags apart. *)
LEMMA MouseTypes == Mouse!MouseTypeOK <=> MouseFlags /\ MouseValues
  BY DEF Mouse!MouseTypeOK, MouseFlags, MouseValues

(* The same after a step. *)
LEMMA MouseTypesNext == Mouse!MouseTypeOK' <=> MouseFlags' /\ MouseValues'
  BY DEF Mouse!MouseTypeOK, MouseFlags, MouseValues

(* The invariant of the mouse holds at the beginning. *)
LEMMA MouseStarts == Mouse!MouseInit => Mouse!MouseInv
  <1>1. Mouse!MouseInit => MouseFlags
    BY DEF Mouse!MouseInit, MouseFlags
  <1>2. Mouse!MouseInit => MouseValues
    BY DEF Mouse!MouseInit, MouseValues, Mouse!None, Mouse!NoButton, Mouse!Buttons
  <1> QED
    BY <1>1, <1>2, MouseTypes
    DEF Mouse!MouseInit, Mouse!MouseInv, Mouse!ButtonsAreHeld, Mouse!HoldsOnPicture,
    Mouse!TimerHasFinger, Mouse!None, Mouse!NoButton, Mouse!Buttons

(* Every event of mouse and touch keeps it. *)
LEMMA MouseKeeps == Mouse!MouseInv /\ [Mouse!MouseNext]_(Mouse!mouseVars) => Mouse!MouseInv'
  <1> SUFFICES ASSUME Mouse!MouseInv, [Mouse!MouseNext]_(Mouse!mouseVars) PROVE Mouse!MouseInv'
    OBVIOUS
  <1> USE PositionsAreIntegers, MouseTypes, MouseTypesNext
      DEF Mouse!MouseInv, MouseFlags, MouseValues, Mouse!ButtonsAreHeld,
          Mouse!HoldsOnPicture, Mouse!TimerHasFinger, Mouse!None, Mouse!NoButton, Mouse!Buttons, Mouse!Places, Mouse!gesture, Mouse!FlushMove,
          Mouse!GiveUp, Mouse!ReleaseTouch
  <1>1. ASSUME NEW b \in Mouse!Buttons, NEW x \in Mouse!Places, Mouse!MouseDown(b, x)
        PROVE  Mouse!MouseInv'
    BY <1>1 DEF Mouse!MouseDown
  <1>2. ASSUME NEW b \in Mouse!Buttons, NEW x \in Mouse!Places, Mouse!MouseUp(b, x)
        PROVE  Mouse!MouseInv'
    BY <1>2 DEF Mouse!MouseUp
  <1>3. ASSUME NEW x \in Mouse!Places, Mouse!MouseMove(x)
        PROVE  Mouse!MouseInv'
    BY <1>3 DEF Mouse!MouseMove
  <1>4. ASSUME NEW x \in Mouse!Places, Mouse!TouchSpoils(x)
        PROVE  Mouse!MouseInv'
    <2>1. MouseFlags'
      BY <1>4 DEF Mouse!TouchSpoils
    <2>2. MouseValues'
      BY <1>4 DEF Mouse!TouchSpoils
    <2>3. Mouse!ButtonsAreHeld' /\ Mouse!HoldsOnPicture' /\ Mouse!TimerHasFinger'
      BY <1>4 DEF Mouse!TouchSpoils
    <2> QED
      BY <2>1, <2>2, <2>3
  <1>5. ASSUME NEW x \in Mouse!Places, Mouse!TouchStart(x)
        PROVE  Mouse!MouseInv'
    <2>1. MouseFlags'
      BY <1>5 DEF Mouse!TouchStart
    <2>2. MouseValues'
      BY <1>5 DEF Mouse!TouchStart
    <2>3. Mouse!ButtonsAreHeld' /\ Mouse!HoldsOnPicture' /\ Mouse!TimerHasFinger'
      BY <1>5 DEF Mouse!TouchStart
    <2> QED
      BY <2>1, <2>2, <2>3
  <1>6. ASSUME NEW x \in Mouse!Places, Mouse!TouchEnd(x)
        PROVE  Mouse!MouseInv'
    <2>1. MouseFlags'
      BY <1>6 DEF Mouse!TouchEnd
    <2>2. MouseValues'
      BY <1>6 DEF Mouse!TouchEnd
    <2>3. Mouse!ButtonsAreHeld' /\ Mouse!HoldsOnPicture' /\ Mouse!TimerHasFinger'
      BY <1>6 DEF Mouse!TouchEnd
    <2> QED
      BY <2>1, <2>2, <2>3
  <1>7. ASSUME NEW x \in Mouse!Places, NEW far \in BOOLEAN, Mouse!TouchMove(x, far)
        PROVE  Mouse!MouseInv'
    BY <1>7 DEF Mouse!TouchMove
  <1>8. CASE Mouse!Frame
    BY <1>8 DEF Mouse!Frame
  <1>9. CASE Mouse!LongPress
    BY <1>9 DEF Mouse!LongPress
  <1>10. CASE Mouse!TouchLeaves
    <2>1. MouseFlags'
      BY <1>10 DEF Mouse!TouchLeaves
    <2>2. MouseValues'
      BY <1>10 DEF Mouse!TouchLeaves
    <2>3. Mouse!ButtonsAreHeld' /\ Mouse!HoldsOnPicture' /\ Mouse!TimerHasFinger'
      BY <1>10 DEF Mouse!TouchLeaves
    <2> QED
      BY <2>1, <2>2, <2>3
  <1>11. CASE Mouse!TouchScrolls
    <2>1. MouseFlags'
      BY <1>11 DEF Mouse!TouchScrolls
    <2>2. MouseValues'
      BY <1>11 DEF Mouse!TouchScrolls
    <2>3. Mouse!ButtonsAreHeld' /\ Mouse!HoldsOnPicture' /\ Mouse!TimerHasFinger'
      BY <1>11 DEF Mouse!TouchScrolls
    <2> QED
      BY <2>1, <2>2, <2>3
  <1>12. CASE Mouse!TouchLifts
    BY <1>12 DEF Mouse!TouchLifts
  <1>13. CASE Mouse!TouchCancel
    <2>1. MouseFlags'
      BY <1>13 DEF Mouse!TouchCancel
    <2>2. MouseValues'
      BY <1>13 DEF Mouse!TouchCancel
    <2>3. Mouse!ButtonsAreHeld' /\ Mouse!HoldsOnPicture' /\ Mouse!TimerHasFinger'
      BY <1>13 DEF Mouse!TouchCancel
    <2> QED
      BY <2>1, <2>2, <2>3
  <1>14. CASE Mouse!RerunEffect
    <2>1. MouseFlags'
      BY <1>14 DEF Mouse!RerunEffect
    <2>2. MouseValues'
      BY <1>14 DEF Mouse!RerunEffect
    <2>3. Mouse!ButtonsAreHeld' /\ Mouse!HoldsOnPicture' /\ Mouse!TimerHasFinger'
      BY <1>14 DEF Mouse!RerunEffect
    <2> QED
      BY <2>1, <2>2, <2>3
  <1>15. CASE UNCHANGED Mouse!mouseVars
    BY <1>15 DEF Mouse!mouseVars
  <1> QED
    BY <1>1, <1>2, <1>3, <1>4, <1>5, <1>6, <1>7, <1>8, <1>9, <1>10, <1>11, <1>12, <1>13, <1>14, <1>15
    DEF Mouse!MouseNext
(* What holds is what the mouse and the fingers have down. *)
LEMMA MousePromises == Mouse!MouseInv => Mouse!MouseTypeOK /\ Mouse!ButtonsAreHeld
  BY DEF Mouse!MouseInv

(* Only a press adds to what the mouse has down, and it reports the move first. *)
LEMMA MousePresses ==
  ASSUME Mouse!MouseNext
  PROVE  Mouse!PressWherePointed
  <1> SUFFICES ASSUME s2' \ s2 # {} PROVE Mouse!FlushMove
    BY DEF Mouse!PressWherePointed, Mouse!FlushMove
  <1>1. ASSUME NEW b \in Mouse!Buttons, NEW x \in Mouse!Places, Mouse!MouseDown(b, x)
        PROVE  Mouse!FlushMove
    BY <1>1 DEF Mouse!MouseDown
  <1>2. ASSUME NEW b \in Mouse!Buttons, NEW x \in Mouse!Places, Mouse!MouseUp(b, x)
        PROVE  FALSE
    BY <1>2 DEF Mouse!MouseUp
  <1>3. ASSUME NEW x \in Mouse!Places,
               Mouse!MouseMove(x) \/ Mouse!TouchSpoils(x) \/ Mouse!TouchStart(x) \/ Mouse!TouchEnd(x)
        PROVE  FALSE
    BY <1>3 DEF Mouse!MouseMove, Mouse!TouchSpoils, Mouse!TouchStart, Mouse!TouchEnd
  <1>4. ASSUME NEW x \in Mouse!Places, NEW far \in BOOLEAN, Mouse!TouchMove(x, far)
        PROVE  FALSE
    BY <1>4 DEF Mouse!TouchMove
  <1>5. ASSUME \/ Mouse!Frame \/ Mouse!LongPress \/ Mouse!TouchLeaves \/ Mouse!TouchScrolls
               \/ Mouse!TouchLifts \/ Mouse!TouchCancel \/ Mouse!RerunEffect
        PROVE  FALSE
    BY <1>5 DEF Mouse!Frame, Mouse!LongPress, Mouse!TouchLeaves, Mouse!TouchScrolls,
                Mouse!TouchLifts, Mouse!TouchCancel, Mouse!RerunEffect
  <1> QED
    BY <1>1, <1>2, <1>3, <1>4, <1>5 DEF Mouse!MouseNext

(* However taps, drags, long presses and mouse buttons overlap, no button     *)
(* stays down that neither the mouse nor a finger holds, and one goes down    *)
(* where the pointer is (mouse/absolute.tsx).                                 *)
THEOREM MouseHolds ==
  Mouse!MouseSpec => /\ [](Mouse!MouseTypeOK /\ Mouse!ButtonsAreHeld)
                     /\ [][Mouse!PressWherePointed]_(Mouse!mouseVars)
  BY MouseStarts, MouseKeeps, MousePromises, MousePresses, PTL DEF Mouse!MouseSpec

-------------------------------------------------------------------------------
(******************************************************************************)
(* Relative mouse.                                                            *)
(* s1, s2, ... are its buttons, clicked, fingers, at, start, pending,         *)
(* touchButton, pressTimer, long, moved, several, candidate, sent, told, cut. *)
(******************************************************************************)

(* The flags of the gesture, and the rest of what the types say. *)
PadFlags == s8 \in BOOLEAN /\ s9 \in BOOLEAN /\ s10 \in BOOLEAN /\ s11 \in BOOLEAN /\ s12 \in BOOLEAN
            /\ s15 \in BOOLEAN
PadValues == s1 \subseteq Pad!Buttons /\ s2 \subseteq Pad!Buttons /\ s3 \in 0 .. 2
             /\ s4 \in Pad!Pad /\ s5 \in Pad!Pad /\ s6 \in -PadWidth .. PadWidth
             /\ s13 \in -PadWidth .. Pad!Unknown /\ s7 \in Pad!Buttons \union {Pad!NoButton}
             /\ s14 \in -2 * PadWidth .. Pad!Unknown

(* The types, flags apart. *)
LEMMA PadTypes == Pad!PadTypeOK <=> PadFlags /\ PadValues
  BY DEF Pad!PadTypeOK, PadFlags, PadValues

(* The same after a step. *)
LEMMA PadTypesNext == Pad!PadTypeOK' <=> PadFlags' /\ PadValues'
  BY DEF Pad!PadTypeOK, PadFlags, PadValues

(* The invariant of the pad holds at the beginning. *)
LEMMA PadStarts == Pad!PadInit => Pad!PadInv
  <1>1. Pad!PadInit => PadFlags
    BY DEF Pad!PadInit, PadFlags
  <1>2. Pad!PadInit => PadValues
    BY PadAssumption DEF Pad!PadInit, PadValues, Pad!Unknown, Pad!NoButton, Pad!Buttons, Pad!Pad
  <1> QED
    BY <1>1, <1>2, PadTypes, PadAssumption
    DEF Pad!PadInit, Pad!PadInv, Pad!ButtonsAreHeld, Pad!MotionAccounted, Pad!TimerHasFinger,
    Pad!CandidateIsAlone, Pad!KeptBackWhole, Pad!SentInPad, Pad!TellsTheWay, Pad!Follows, Pad!Unknown, Pad!NoButton,
    Pad!Buttons, Pad!Pad

(* What a report says of a motion has its direction, and is at most twice of  *)
(* it, and no less unless it was cut.                                         *)
LEMMA Converted ==
  ASSUME NEW v \in Int, NEW c, c = Pad!Clamped(Pad!Scaled(v))
  PROVE  /\ c \in Int
         /\ v >= 0 => 0 <= c /\ c <= 2 * v /\ (c = Pad!Scaled(v) => v <= c)
         /\ v <= 0 => c <= 0 /\ 2 * v <= c /\ (c = Pad!Scaled(v) => c <= v)
  BY PadAssumption DEF Pad!Clamped, Pad!Scaled

(* So the reports that a motion is added to follow the way of the finger.     *)
LEMMA ReportKeeps ==
  ASSUME s13 \in Int, s14 \in Int, s15 \in BOOLEAN, Pad!TellsTheWay, NEW v \in Int, Pad!Report(v),
         s13 # Pad!Unknown => s13 + v \in -PadWidth .. PadWidth
  PROVE  /\ s15' \in BOOLEAN /\ s14' \in Int /\ Pad!TellsTheWay'
         /\ s14' = Pad!Unknown \/ (-2 * PadWidth <= s14' /\ s14' <= 2 * PadWidth)
  <1> DEFINE c == Pad!Clamped(Pad!Scaled(v))
             w == Pad!Scaled(v)
  <1>1. /\ c \in Int
        /\ v >= 0 => 0 <= c /\ c <= 2 * v /\ (c = w => v <= c)
        /\ v <= 0 => c <= 0 /\ 2 * v <= c /\ (c = w => c <= v)
    BY Converted
  <1>2. /\ s13' = IF s13 # Pad!Unknown THEN s13 + v ELSE s13
        /\ s14' = IF s14 = Pad!Unknown \/ (v > 0 /\ s13 < 0) \/ (v < 0 /\ s13 > 0) THEN Pad!Unknown
                  ELSE s14 + c
        /\ s15' = (s15 \/ c # w)
    BY DEF Pad!Report
  <1> HIDE DEF c, w
  <1>3. s15' \in BOOLEAN
    BY <1>2, Zenon
  <1>4. CASE s14' = Pad!Unknown
    BY <1>3, <1>4, PadAssumption DEF Pad!TellsTheWay, Pad!Unknown
  <1>5. CASE s14' # Pad!Unknown
    <2>1. /\ s14 # Pad!Unknown /\ s14' = s14 + c
          /\ ~(v > 0 /\ s13 < 0) /\ ~(v < 0 /\ s13 > 0)
      BY <1>2, <1>5
    <2>2. s13 # Pad!Unknown /\ s13' = s13 + v /\ s13' \in -PadWidth .. PadWidth
      BY <1>2, <2>1 DEF Pad!TellsTheWay
    <2>3. \/ 0 <= s14 /\ s14 <= 2 * s13 /\ (s15 \/ s13 <= s14)
          \/ s14 <= 0 /\ 2 * s13 <= s14 /\ (s15 \/ s14 <= s13)
      BY <2>1 DEF Pad!TellsTheWay, Pad!Follows
    <2>4. s13' # Pad!Unknown
      BY <2>2, PadAssumption DEF Pad!Unknown
    <2>5. ~s15' => ~s15 /\ c = w
      BY <1>2, Zenon
    <2>6. v > 0 => Pad!Follows'
      <3> HAVE v > 0
      <3>1. 0 <= s14 /\ s14 <= 2 * s13 /\ (s15 \/ s13 <= s14)
        BY <2>1, <2>2, <2>3
      <3>2. 0 <= s14' /\ s14' <= 2 * s13'
        BY <1>1, <2>1, <2>2, <3>1
      <3>3. s13 <= s14 /\ c = w => s13' <= s14'
        BY <1>1, <2>1, <2>2
      <3>4. s15' \/ s13' <= s14'
        BY <2>5, <3>1, <3>3, Zenon
      <3> QED
        BY <3>2, <3>4, Zenon DEF Pad!Follows
    <2>7. v < 0 => Pad!Follows'
      <3> HAVE v < 0
      <3>1. s14 <= 0 /\ 2 * s13 <= s14 /\ (s15 \/ s14 <= s13)
        BY <2>1, <2>2, <2>3
      <3>2. s14' <= 0 /\ 2 * s13' <= s14'
        BY <1>1, <2>1, <2>2, <3>1
      <3>3. s14 <= s13 /\ c = w => s14' <= s13'
        BY <1>1, <2>1, <2>2
      <3>4. s15' \/ s14' <= s13'
        BY <2>5, <3>1, <3>3, Zenon
      <3> QED
        BY <3>2, <3>4, Zenon DEF Pad!Follows
    <2>8. v = 0 => Pad!Follows'
      <3> HAVE v = 0
      <3>1. c = 0 /\ s14' = s14 /\ s13' = s13
        BY <1>1, <2>1, <2>2
      <3>2. s15 => s15'
        BY <1>2, Zenon
      <3>3. \/ 0 <= s14' /\ s14' <= 2 * s13' /\ (s15 \/ s13' <= s14')
            \/ s14' <= 0 /\ 2 * s13' <= s14' /\ (s15 \/ s14' <= s13')
        BY <2>3, <3>1, Zenon
      <3> QED
        BY <3>2, <3>3, Zenon DEF Pad!Follows
    <2>12. v > 0 \/ v < 0 \/ v = 0
      OBVIOUS
    <2>9. Pad!Follows'
      BY <2>6, <2>7, <2>8, <2>12, Zenon
    <2>10. s14' \in Int /\ -2 * PadWidth <= s14' /\ s14' <= 2 * PadWidth
      BY <1>1, <2>1, <2>2, <2>9, PadAssumption DEF Pad!Follows
    <2> QED
      BY <1>3, <2>4, <2>9, <2>10 DEF Pad!TellsTheWay
  <1> QED
    BY <1>4, <1>5

(* Every event of mouse and touch keeps it. *)
LEMMA PadKeeps == Pad!PadInv /\ [Pad!PadNext]_(Pad!padVars) => Pad!PadInv'
  <1> SUFFICES ASSUME Pad!PadInv, [Pad!PadNext]_(Pad!padVars) PROVE Pad!PadInv'
    OBVIOUS
  <1> USE PadAssumption, PadTypes, PadTypesNext
      DEF Pad!PadInv, PadFlags, PadValues, Pad!ButtonsAreHeld, Pad!MotionAccounted, Pad!TimerHasFinger,
          Pad!CandidateIsAlone, Pad!KeptBackWhole, Pad!SentInPad, Pad!TellsTheWay, Pad!Follows, Pad!Unknown, Pad!NoButton, Pad!Buttons,
          Pad!Pad, Pad!motion, Pad!touch, Pad!ReleaseTouch, Pad!ResetTouch
  <1>1. ASSUME NEW b \in Pad!Buttons, Pad!MouseDown(b)
        PROVE  Pad!PadInv'
    BY <1>1 DEF Pad!MouseDown
  <1>2. ASSUME NEW b \in Pad!Buttons, Pad!MouseUp(b)
        PROVE  Pad!PadInv'
    BY <1>2 DEF Pad!MouseUp
  <1>3. ASSUME NEW x \in Pad!Pad, Pad!TwoFingers(x)
        PROVE  Pad!PadInv'
    <2>1. PadFlags'
      BY <1>3 DEF Pad!TwoFingers
    <2>2. PadValues'
      BY <1>3 DEF Pad!TwoFingers
    <2>3. Pad!ButtonsAreHeld' /\ Pad!MotionAccounted'
      BY <1>3 DEF Pad!TwoFingers
    <2>4. Pad!TimerHasFinger' /\ Pad!CandidateIsAlone' /\ Pad!KeptBackWhole' /\ Pad!SentInPad' /\ Pad!TellsTheWay'
      BY <1>3 DEF Pad!TwoFingers
    <2> QED
      BY <2>1, <2>2, <2>3, <2>4
  <1>4. ASSUME NEW x \in Pad!Pad, Pad!TouchStart(x)
        PROVE  Pad!PadInv'
    <2>1. PadFlags'
      BY <1>4 DEF Pad!TouchStart
    <2>2. PadValues'
      BY <1>4 DEF Pad!TouchStart
    <2>3. Pad!ButtonsAreHeld' /\ Pad!MotionAccounted'
      BY <1>4 DEF Pad!TouchStart
    <2>4. Pad!TimerHasFinger' /\ Pad!CandidateIsAlone' /\ Pad!KeptBackWhole' /\ Pad!SentInPad' /\ Pad!TellsTheWay'
      BY <1>4 DEF Pad!TouchStart
    <2> QED
      BY <2>1, <2>2, <2>3, <2>4
  <1>5. ASSUME NEW x \in Pad!Pad, Pad!TouchScrolls(x)
        PROVE  Pad!PadInv'
    <2>1. PadFlags'
      BY <1>5 DEF Pad!TouchScrolls
    <2>2. PadValues'
      BY <1>5 DEF Pad!TouchScrolls
    <2>3. Pad!ButtonsAreHeld' /\ Pad!MotionAccounted'
      BY <1>5 DEF Pad!TouchScrolls
    <2>4. Pad!TimerHasFinger' /\ Pad!CandidateIsAlone' /\ Pad!KeptBackWhole' /\ Pad!SentInPad' /\ Pad!TellsTheWay'
      BY <1>5 DEF Pad!TouchScrolls
    <2> QED
      BY <2>1, <2>2, <2>3, <2>4
  <1>6. ASSUME NEW x \in Pad!Pad, Pad!TouchMove(x)
        PROVE  Pad!PadInv'
    <2> DEFINE flows == ~s12 \/ s7' # Pad!NoButton \/ s9
               d == x - s4
    <2>a. s6' = (IF flows THEN 0 ELSE s6 + d) /\ (IF flows THEN Pad!Report(s6 + d) ELSE UNCHANGED <<s13, s14, s15>>)
      BY <1>6 DEF Pad!TouchMove, Pad!Flow
    <2>b. s13' = IF flows /\ s13 # Pad!Unknown THEN s13 + s6 + d ELSE s13
      BY <2>a DEF Pad!Report
    <2>c. /\ d \in Int /\ s4' = x /\ s3 = 1 /\ ~s11
          /\ s13 # Pad!Unknown => s13 + s6 = s4 - s5
      BY <1>6 DEF Pad!TouchMove
    <2>1. PadFlags' /\ Pad!TellsTheWay' /\ s14' \in -2 * PadWidth .. Pad!Unknown
      <3>1. s8' \in BOOLEAN /\ s9' \in BOOLEAN /\ s10' \in BOOLEAN /\ s11' \in BOOLEAN /\ s12' \in BOOLEAN
        BY <1>6 DEF Pad!TouchMove, Pad!Distance
      <3>2. CASE flows
        <4>1. Pad!Report(s6 + d) /\ s6 + d \in Int /\ s13 \in Int /\ s14 \in Int /\ s15 \in BOOLEAN
          BY <2>a, <2>c, <3>2
        <4>2. s13 # Pad!Unknown => s13 + (s6 + d) \in -PadWidth .. PadWidth
          BY <1>6, <2>c
        <4>3. /\ s15' \in BOOLEAN /\ s14' \in Int /\ Pad!TellsTheWay'
              /\ s14' = Pad!Unknown \/ (-2 * PadWidth <= s14' /\ s14' <= 2 * PadWidth)
          BY <4>1, <4>2, ReportKeeps DEF Pad!PadInv
        <4>4. PadFlags'
          BY <3>1, <4>3 DEF PadFlags
        <4>5. s14' \in -2 * PadWidth .. Pad!Unknown
          BY <4>3, PadAssumption DEF Pad!Unknown
        <4> QED
          BY <4>3, <4>4, <4>5, Zenon
      <3>3. CASE ~flows
        BY <2>a, <3>1, <3>3
      <3> QED
        BY <3>2, <3>3
    <2> HIDE DEF d
    <2>2. PadValues'
      <3>1. s1' \subseteq Pad!Buttons /\ s2' \subseteq Pad!Buttons /\ s3' \in 0 .. 2 /\ s4' \in Pad!Pad /\ s5' \in Pad!Pad /\ s7' \in Pad!Buttons \union {Pad!NoButton}
        BY <1>6 DEF Pad!TouchMove, Pad!Distance
      <3>2. s6' \in -PadWidth .. PadWidth /\ s13' \in -PadWidth .. Pad!Unknown
        BY <1>6, <2>a, <2>b, <2>c DEF Pad!TouchMove, Pad!Distance, d
      <3> QED
        BY <2>1, <3>1, <3>2 DEF PadValues
    <2>3. Pad!ButtonsAreHeld'
      BY <1>6 DEF Pad!TouchMove, Pad!Distance
    <2>4. s13' # Pad!Unknown => s13' + s6' = s4' - s5'
      BY <1>6, <2>a, <2>b, <2>c DEF Pad!TouchMove, d
    <2>5. Pad!TimerHasFinger' /\ Pad!CandidateIsAlone' /\ Pad!KeptBackWhole' /\ Pad!SentInPad'
      BY <1>6, <2>a, <2>b, <2>c DEF Pad!TouchMove, Pad!Distance, d
    <2>6. Pad!MotionAccounted'
      BY <2>1, <2>4 DEF Pad!MotionAccounted, Pad!TellsTheWay
    <2> QED
      BY <2>1, <2>2, <2>3, <2>5, <2>6, PadTypesNext, Zenon DEF Pad!PadInv
  <1>7. ASSUME NEW x \in Pad!Pad, Pad!TouchIdles(x)
        PROVE  Pad!PadInv'
    BY <1>7 DEF Pad!TouchIdles
  <1>8. CASE Pad!LongPress
    BY <1>8 DEF Pad!LongPress
  <1>9. CASE Pad!TouchLifts
    BY <1>9 DEF Pad!TouchLifts
  <1>10. CASE Pad!TouchEnd
    <2>1. PadFlags'
      BY <1>10 DEF Pad!TouchEnd
    <2>2. PadValues'
      BY <1>10 DEF Pad!TouchEnd
    <2>3. Pad!ButtonsAreHeld' /\ Pad!MotionAccounted'
      BY <1>10 DEF Pad!TouchEnd
    <2>4. Pad!TimerHasFinger' /\ Pad!CandidateIsAlone' /\ Pad!KeptBackWhole' /\ Pad!SentInPad' /\ Pad!TellsTheWay'
      BY <1>10 DEF Pad!TouchEnd
    <2> QED
      BY <2>1, <2>2, <2>3, <2>4
  <1>11. CASE Pad!TouchCancel
    <2>1. PadFlags'
      BY <1>11 DEF Pad!TouchCancel
    <2>2. PadValues'
      BY <1>11 DEF Pad!TouchCancel
    <2>3. Pad!ButtonsAreHeld' /\ Pad!MotionAccounted'
      BY <1>11 DEF Pad!TouchCancel
    <2>4. Pad!TimerHasFinger' /\ Pad!CandidateIsAlone' /\ Pad!KeptBackWhole' /\ Pad!SentInPad' /\ Pad!TellsTheWay'
      BY <1>11 DEF Pad!TouchCancel
    <2> QED
      BY <2>1, <2>2, <2>3, <2>4
  <1>12. CASE Pad!RerunEffect
    BY <1>12 DEF Pad!RerunEffect
  <1>13. CASE UNCHANGED Pad!padVars
    BY <1>13 DEF Pad!padVars
  <1> QED
    BY <1>1, <1>2, <1>3, <1>4, <1>5, <1>6, <1>7, <1>8, <1>9, <1>10, <1>11, <1>12, <1>13 DEF Pad!PadNext
(* The buttons that are down are held, and the reports account for all motion. *)
LEMMA PadPromises == Pad!PadInv => Pad!PadTypeOK /\ Pad!ButtonsAreHeld /\ Pad!MotionAccounted
  BY DEF Pad!PadInv

(* The same of the touch pad. Every motion of a finger goes into one report,  *)
(* through taps that turn into drags; what the reports say of a way is in its *)
(* direction, at most twice of it, and no less unless it did not fit into one *)
(* (mouse/relative.tsx, lib/mouse.ts:42-58).                                  *)
THEOREM PadHolds ==
  Pad!PadSpec => [](Pad!PadTypeOK /\ Pad!ButtonsAreHeld /\ Pad!MotionAccounted)
  BY PadStarts, PadKeeps, PadPromises, PTL DEF Pad!PadSpec

-------------------------------------------------------------------------------
(******************************************************************************)
(* Menu and dialogs.                                                          *)
(* s1, s2, ... are its page, open, locks, count, signal, handled, busy, menu, *)
(* countdown, due, uses.                                                      *)
(******************************************************************************)

(* The selector of the region has a lock and is not counted. *)
LEMMA SelectorKind ==
  RegionSelector.name = "selector" /\ RegionSelector.lock = "selector" /\ ~RegionSelector.counts
  BY DEF RegionSelector, Cleaned, Discipline

(* The operators of the library are the same in the module of the dialogs. *)
LEMMA SameCardinality == \A S : Menu!Cardinality(S) = Cardinality(S)
  BY Zenon DEF Menu!Cardinality, Cardinality

(* The counted dialogs are finitely many. *)
LEMMA CountedFinite ==
  /\ IsFiniteSet(Menu!Counted) /\ Cardinality(Menu!Counted) \in Nat
  /\ IsFiniteSet(Menu!OpenCounted) /\ Cardinality(Menu!OpenCounted) \in Nat
  <1>1. Menu!Counted \subseteq Dialogs /\ Menu!OpenCounted \subseteq Dialogs
    BY DEF Menu!Counted, Menu!OpenCounted
  <1>2. IsFiniteSet(Menu!Counted) /\ IsFiniteSet(Menu!OpenCounted)
    BY <1>1, FS_Subset, DialogsAssumption
  <1> QED
    BY <1>2, FS_CardinalityType

(* The types of the menu, by what they are about. *)
MenuSets == s1 \in {"desktop", "away"} /\ s2 \subseteq Menu!Names /\ s3 \subseteq Menu!Locks
            /\ s10 \subseteq Menu!BothEffects
MenuCounts == s5 \in 0 .. MenuClicks /\ s11 \in 0 .. MenuClicks /\ s6 \in [Menu!Names -> 0 .. MenuClicks]
MenuShape == [mode : {"off", "auto", "always"}, expanded : BOOLEAN, hidden : BOOLEAN,
              hovered : BOOLEAN, moved : BOOLEAN]
MenuFlags == s7 \in BOOLEAN /\ s9 \in BOOLEAN

(* The types of the menu, by what they are about. *)
LEMMA MenuTypes ==
  Menu!MenuTypeOK <=> /\ MenuSets /\ MenuCounts /\ MenuFlags /\ s8 \in MenuShape
                      /\ s4 \in 0 .. Cardinality(Menu!Counted) + MenuClicks
  BY Zenon, SameCardinality DEF Menu!MenuTypeOK, MenuSets, MenuCounts, MenuFlags, MenuShape

(* The same after a step. *)
LEMMA MenuTypesNext ==
  Menu!MenuTypeOK' <=> /\ MenuSets' /\ MenuCounts' /\ MenuFlags' /\ s8' \in MenuShape
                       /\ s4' \in 0 .. Cardinality(Menu!Counted) + MenuClicks
  BY Zenon, SameCardinality DEF Menu!MenuTypeOK, MenuSets, MenuCounts, MenuFlags, MenuShape

(* The numbers of the menu: how many submenus are open, and what covers them. *)
LEMMA MenuNumbers ==
  ASSUME Menu!MenuInv
  PROVE  /\ s4 \in Int /\ s5 \in Int /\ s11 \in Int /\ Cardinality(Menu!OpenCounted) \in Nat
         /\ Cardinality(Menu!OpenCounted) <= s4 /\ s4 >= 0 /\ s4 <= s11 /\ 0 <= s11 /\ s11 <= MenuClicks
         /\ 0 <= s5 /\ s5 <= s11 /\ s5 <= MenuClicks
  <1>1. MenuCounts /\ Menu!CountCovers /\ s4 \in 0 .. Cardinality(Menu!Counted) + MenuClicks
    BY MenuTypes DEF Menu!MenuInv
  <1> QED
    BY <1>1, SameCardinality, CountedFinite, BoundsAreNaturals DEF Menu!CountCovers, MenuCounts

(* And what the numbers have to be after a step. *)
LEMMA MenuNumbersNext ==
  ASSUME Cardinality(Menu!OpenCounted)' \in Nat, s4' \in Int, s11' \in Int,
         Cardinality(Menu!OpenCounted)' <= s4', s4' <= s11', s11' <= MenuClicks, s5' <= s11'
  PROVE  Menu!CountCovers' /\ s4' \in 0 .. Cardinality(Menu!Counted) + MenuClicks
  <1>1. s4' \in 0 .. Cardinality(Menu!Counted) + MenuClicks
    BY CountedFinite, BoundsAreNaturals
  <1> QED
    BY <1>1, SameCardinality DEF Menu!CountCovers

(* The invariant of the menu holds at the beginning. *)
LEMMA MenuStarts == Menu!MenuInit => Menu!MenuInv
  <1> SUFFICES ASSUME Menu!MenuInit PROVE Menu!MenuInv
    OBVIOUS
  <1>1. MenuSets
    BY DEF Menu!MenuInit, MenuSets
  <1>a. s4 = 0 /\ s5 = 0 /\ s11 = 0 /\ s6 = [n \in Menu!Names |-> 0]
    BY DEF Menu!MenuInit
  <1>2. MenuCounts
    BY <1>a, BoundsAreNaturals DEF MenuCounts
  <1>3. MenuFlags
    BY DEF Menu!MenuInit, MenuFlags
  <1>4. s8 \in MenuShape
    BY DEF Menu!MenuInit, MenuShape, Menu!FreshMenu
  <1>5. Menu!OpenCounted = {}
    BY DEF Menu!MenuInit, Menu!OpenCounted
  <1>6. Cardinality(Menu!OpenCounted) = 0
    BY <1>5, FS_EmptySet
  <1>7. Menu!CountCovers
    BY <1>6, <1>a, SameCardinality DEF Menu!CountCovers
  <1>8. s4 \in 0 .. Cardinality(Menu!Counted) + MenuClicks
    BY <1>a, CountedFinite, BoundsAreNaturals
  <1>9. Menu!TypingStaysHere
    BY DEF Menu!MenuInit, Menu!TypingStaysHere
  <1>10. Menu!HidesAlone
    BY DEF Menu!MenuInit, Menu!HidesAlone, Menu!FreshMenu, Menu!BothEffects
  <1> QED
    BY <1>1, <1>2, <1>3, <1>4, <1>7, <1>8, <1>9, <1>10, MenuTypes DEF Menu!MenuInv

(* Closing a dialog: it is no longer counted, and no lock of another one is given back. *)
LEMMA MenuCloseKeeps ==
  ASSUME Menu!MenuInv, NEW d \in Dialogs, d.name \in s2, Menu!Close(d), s6' \in [Menu!Names -> 0 .. MenuClicks],
         UNCHANGED <<s1, s5, s7, s8, s9, s11>>
  PROVE  Menu!MenuInv'
  <1>0. MenuSets /\ MenuCounts /\ MenuFlags /\ s8 \in MenuShape /\ Menu!TypingStaysHere /\ Menu!HidesAlone
    BY MenuTypes DEF Menu!MenuInv
  <1>1. MenuSets'
    BY <1>0 DEF MenuSets, Menu!BothEffects, Menu!Close, Menu!Recount
  <1>2. MenuCounts'
    BY <1>0 DEF MenuCounts
  <1>3. MenuFlags'
    BY <1>0 DEF MenuFlags
  <1>4. s8' \in MenuShape
    BY <1>0
  <1>5. Menu!OpenCounted' \subseteq Menu!OpenCounted
    BY DEF Menu!OpenCounted, Menu!Close
  <1>6. Cardinality(Menu!OpenCounted)' \in Nat
    BY <1>5, CountedFinite, FS_Subset, FS_CardinalityType
  <1>7. s4 \in Int /\ Cardinality(Menu!OpenCounted) <= s4 /\ s4 <= s11
    BY MenuNumbers
  <1>8. s4' \in Int /\ Cardinality(Menu!OpenCounted)' <= s4' /\ s4' <= s4
    <2>1. CASE d.counts
      <3>1. d \in Menu!OpenCounted /\ d \notin Menu!OpenCounted'
        BY <2>1 DEF Menu!OpenCounted, Menu!Counted, Menu!Close
      <3>2. Menu!OpenCounted' \subseteq Menu!OpenCounted \ {d}
        BY <1>5, <3>1
      <3>3. IsFiniteSet(Menu!OpenCounted \ {d}) /\ Cardinality(Menu!OpenCounted \ {d}) = Cardinality(Menu!OpenCounted) - 1
        BY <3>1, CountedFinite, FS_RemoveElement
      <3>4. Cardinality(Menu!OpenCounted)' <= Cardinality(Menu!OpenCounted \ {d})
        BY <3>2, <3>3, FS_Subset
      <3>5. s4' = Menu!Less(s4)
        BY <2>1 DEF Menu!Close, Menu!Recount
      <3> QED
        BY <1>6, <1>7, <3>3, <3>4, <3>5, CountedFinite DEF Menu!Less
    <2>2. CASE ~d.counts
      <3>1. Cardinality(Menu!OpenCounted)' <= Cardinality(Menu!OpenCounted)
        BY <1>5, CountedFinite, FS_Subset
      <3>2. s4' = s4
        BY <2>2 DEF Menu!Close, Menu!Recount
      <3> QED
        BY <1>6, <1>7, <3>1, <3>2, CountedFinite
    <2> QED
      BY <2>1, <2>2
  <1>9. Menu!CountCovers' /\ s4' \in 0 .. Cardinality(Menu!Counted) + MenuClicks
    BY <1>6, <1>7, <1>8, MenuNumbers, MenuNumbersNext
  <1>10. Menu!TypingStaysHere'
    BY <1>0, DialogsAssumption DEF Menu!TypingStaysHere, Menu!Returned, Menu!Close
  <1>11. Menu!HidesAlone'
    BY <1>0, <1>5 DEF Menu!HidesAlone, Menu!BothEffects, Menu!Close, Menu!Recount
  <1> QED
    BY <1>1, <1>2, <1>3, <1>4, <1>9, <1>10, <1>11, MenuTypesNext DEF Menu!MenuInv

(* Opening a dialog: it takes its lock, or is counted, or both. *)
LEMMA MenuOpenKeeps ==
  ASSUME Menu!MenuInv, NEW d \in Dialogs, Menu!OpenDialog(d)
  PROVE  Menu!MenuInv'
  <1>0. MenuSets /\ MenuCounts /\ MenuFlags /\ s8 \in MenuShape /\ Menu!TypingStaysHere /\ Menu!HidesAlone
    BY MenuTypes DEF Menu!MenuInv
  <1>a. s11 < MenuClicks /\ s11' = s11 + 1 /\ s5' = s5 /\ s6' = s6
    BY DEF Menu!OpenDialog, Menu!Use
  <1>b. s4 \in Int /\ Cardinality(Menu!OpenCounted) <= s4 /\ s4 <= s11 /\ s11 \in Int
    BY MenuNumbers
  <1>1. MenuSets'
    BY <1>0 DEF MenuSets, Menu!BothEffects, Menu!Names, Menu!Locks, Menu!OpenDialog, Menu!Recount
  <1>2. MenuCounts'
    BY <1>0, <1>a, BoundsAreNaturals DEF MenuCounts
  <1>3. MenuFlags'
    BY <1>0 DEF MenuFlags, Menu!OpenDialog
  <1>4. s8' \in MenuShape
    BY <1>0 DEF Menu!OpenDialog
  <1>5. Menu!OpenCounted' = IF d.counts THEN Menu!OpenCounted \union {d} ELSE Menu!OpenCounted
    BY DialogsAssumption DEF Menu!OpenCounted, Menu!Counted, Menu!OpenDialog
  <1>6. /\ s4' \in Int /\ Cardinality(Menu!OpenCounted)' \in Nat
        /\ Cardinality(Menu!OpenCounted)' <= s4' /\ s4' <= s4 + 1
        /\ d.counts => s4' # s4
    <2>1. CASE d.counts
      <3>1. Menu!OpenCounted' = Menu!OpenCounted \union {d}
        BY <1>5, <2>1
      <3>2. Cardinality(Menu!OpenCounted)' \in {Cardinality(Menu!OpenCounted), Cardinality(Menu!OpenCounted) + 1}
        BY <3>1, CountedFinite, FS_AddElement
      <3>3. s4' = s4 + 1
        BY <2>1 DEF Menu!OpenDialog, Menu!Recount
      <3> QED
        BY <1>b, <3>2, <3>3, CountedFinite
    <2>2. CASE ~d.counts
      <3>1. Cardinality(Menu!OpenCounted)' = Cardinality(Menu!OpenCounted)
        BY <1>5, <2>2
      <3>2. s4' = s4
        BY <2>2 DEF Menu!OpenDialog, Menu!Recount
      <3> QED
        BY <1>b, <2>2, <3>1, <3>2, CountedFinite
    <2> QED
      BY <2>1, <2>2
  <1>7. Menu!CountCovers' /\ s4' \in 0 .. Cardinality(Menu!Counted) + MenuClicks
    BY <1>a, <1>b, <1>6, MenuNumbers, MenuNumbersNext, BoundsAreNaturals
  <1>8. Menu!TypingStaysHere'
    BY <1>0, DialogsAssumption DEF Menu!TypingStaysHere, Menu!OpenDialog
  <1>9. Menu!HidesAlone'
    <2>1. CASE d.counts
      BY <1>6, <2>1 DEF Menu!HidesAlone, Menu!BothEffects, Menu!OpenDialog, Menu!Recount
    <2>2. CASE ~d.counts
      BY <1>0, <1>5, <2>2 DEF Menu!HidesAlone, Menu!BothEffects, Menu!OpenDialog, Menu!Recount
    <2> QED
      BY <2>1, <2>2
  <1> QED
    BY <1>1, <1>2, <1>3, <1>4, <1>7, <1>8, <1>9, MenuTypesNext DEF Menu!MenuInv

(* The popover of the region gives way to the selector. *)
LEMMA MenuSelectKeeps ==
  ASSUME Menu!MenuInv, Menu!SelectArea
  PROVE  Menu!MenuInv'
  <1>0. MenuSets /\ MenuCounts /\ MenuFlags /\ s8 \in MenuShape /\ Menu!TypingStaysHere /\ Menu!HidesAlone
    BY MenuTypes DEF Menu!MenuInv
  <1>a. s11 < MenuClicks /\ s11' = s11 + 1 /\ s5' = s5 + 1 /\ s6' = s6 /\ s4' = s4
    BY DEF Menu!SelectArea, Menu!Use
  <1>b. RegionSelector \in Dialogs
    BY <1>0, DialogsAssumption DEF MenuSets, Menu!Names, Menu!SelectArea
  <1>1. MenuSets'
    BY <1>0, <1>b, SelectorKind DEF MenuSets, Menu!BothEffects, Menu!Names, Menu!Locks, Menu!SelectArea
  <1>2. MenuCounts'
    BY <1>0, <1>a, MenuNumbers, BoundsAreNaturals DEF MenuCounts
  <1>3. MenuFlags'
    BY <1>0 DEF MenuFlags, Menu!SelectArea
  <1>4. s8' \in MenuShape
    BY <1>0 DEF MenuShape, Menu!SelectArea
  <1>5. Menu!OpenCounted' \subseteq Menu!OpenCounted
    BY <1>b, SelectorKind, DialogsAssumption DEF Menu!OpenCounted, Menu!Counted, Menu!SelectArea
  <1>6. Cardinality(Menu!OpenCounted)' <= Cardinality(Menu!OpenCounted) /\ Cardinality(Menu!OpenCounted)' \in Nat
    BY <1>5, CountedFinite, FS_Subset, FS_CardinalityType
  <1>7. Menu!CountCovers' /\ s4' \in 0 .. Cardinality(Menu!Counted) + MenuClicks
    BY <1>a, <1>6, MenuNumbers, MenuNumbersNext, BoundsAreNaturals
  <1>8. Menu!TypingStaysHere'
    BY <1>0, <1>b, SelectorKind, DialogsAssumption DEF Menu!TypingStaysHere, Menu!SelectArea
  <1>9. Menu!HidesAlone'
    BY DEF Menu!HidesAlone, Menu!BothEffects, Menu!SelectArea
  <1> QED
    BY <1>1, <1>2, <1>3, <1>4, <1>7, <1>8, <1>9, MenuTypesNext DEF Menu!MenuInv

(* What leaves the dialogs alone, or gives a dialog its lock, or the menu another look. *)
LEMMA MenuLookKeeps ==
  ASSUME Menu!MenuInv, UNCHANGED <<s1, s2, s4, s5, s6>>, s3 \subseteq s3', s3' \subseteq Menu!Locks,
         s7' \in BOOLEAN, s8' \in MenuShape, s9' \in BOOLEAN, s10' \subseteq Menu!BothEffects,
         s11' = s11 \/ (s11 < MenuClicks /\ s11' = s11 + 1), Menu!HidesAlone'
  PROVE  Menu!MenuInv'
  <1>0. MenuSets /\ MenuCounts /\ MenuFlags /\ s8 \in MenuShape /\ Menu!TypingStaysHere
    BY MenuTypes DEF Menu!MenuInv
  <1>1. MenuSets'
    BY <1>0 DEF MenuSets
  <1>2. MenuCounts'
    BY <1>0, MenuNumbers, BoundsAreNaturals DEF MenuCounts
  <1>3. MenuFlags'
    BY DEF MenuFlags
  <1>4. Menu!OpenCounted' = Menu!OpenCounted
    BY DEF Menu!OpenCounted
  <1>5. Menu!CountCovers' /\ s4' \in 0 .. Cardinality(Menu!Counted) + MenuClicks
    BY <1>4, MenuNumbers, MenuNumbersNext, BoundsAreNaturals
  <1>6. Menu!TypingStaysHere'
    BY <1>0 DEF Menu!TypingStaysHere
  <1> QED
    BY <1>1, <1>2, <1>3, <1>5, <1>6, MenuTypesNext DEF Menu!MenuInv

(* The effects of the menu run, after which it looks at its count again. *)
LEMMA MenuEffectsKeep ==
  ASSUME Menu!MenuInv, Menu!RunEffects
  PROVE  Menu!MenuInv'
  <1>0. MenuSets /\ MenuFlags /\ s8 \in MenuShape /\ Menu!HidesAlone
    BY MenuTypes DEF Menu!MenuInv
  <1>1. s8' \in MenuShape /\ s8'.mode = s8.mode
    BY <1>0 DEF Menu!RunEffects, MenuShape
  <1>2. "display" \in s10 => ~s8'.hidden
    BY <1>0 DEF Menu!RunEffects, MenuShape
  <1>3. "display" \notin s10 => s8' = s8
    BY DEF Menu!RunEffects
  <1>4. s4 = 0 => Menu!OpenCounted = {}
    <2> SUFFICES ASSUME s4 = 0 PROVE Menu!OpenCounted = {}
      OBVIOUS
    <2>1. Cardinality(Menu!OpenCounted) = 0
      BY MenuNumbers
    <2> QED
      BY <2>1, CountedFinite, FS_EmptySet
  <1>5. s9' => s4 = 0 /\ s8.mode = "auto"
    <2>1. s9' = Menu!AfterHover
      BY DEF Menu!RunEffects
    <2>2. Menu!AfterDisplay => s8.mode = "auto"
      BY <1>0 DEF Menu!AfterDisplay, Menu!Started, Menu!MayHide, Menu!HidesAlone
    <2>3. Menu!AfterHover => s4 = 0 /\ s8.mode = "auto"
      BY <2>2 DEF Menu!AfterHover, Menu!Started, Menu!MayHide
    <2> QED
      BY <2>1, <2>3
  <1>6. s9' \in BOOLEAN
    BY <1>0 DEF Menu!RunEffects, Menu!AfterHover, Menu!AfterDisplay, Menu!Started, Menu!MayHide, MenuFlags,
      MenuShape
  <1>7. Menu!OpenCounted' = Menu!OpenCounted
    BY DEF Menu!OpenCounted, Menu!RunEffects
  <1>8. Menu!HidesAlone'
    BY <1>0, <1>1, <1>2, <1>3, <1>4, <1>5, <1>7 DEF Menu!HidesAlone
  <1>9. s10' = {} /\ s7' \in BOOLEAN /\ s3' = s3 /\ s3' \subseteq Menu!Locks /\ s11' = s11
        /\ UNCHANGED <<s1, s2, s4, s5, s6>>
    BY <1>0 DEF Menu!RunEffects, Menu!NoEffects, MenuFlags, MenuSets
  <1> QED
    BY <1>1, <1>6, <1>8, <1>9, MenuLookKeeps

(* What looks at the menu, or hovers over it, opens and closes no dialog. *)
LEMMA MenuLooksKeep ==
  ASSUME Menu!MenuInv,
         Menu!Busy \/ Menu!HideMenu \/ Menu!ChangeMenu \/ (\E d \in Dialogs : Menu!AfterOpen(d))
           \/ (\E over \in BOOLEAN : Menu!Hover(over)) \/ UNCHANGED Menu!menuVars
  PROVE  Menu!MenuInv'
  <1>0. MenuSets /\ MenuFlags /\ s8 \in MenuShape /\ Menu!HidesAlone
    BY MenuTypes DEF Menu!MenuInv
  <1>1. CASE Menu!Busy
    <2>1. Menu!HidesAlone'
      BY <1>0, <1>1 DEF Menu!HidesAlone, Menu!OpenCounted, Menu!Busy
    <2>2. s7' \in BOOLEAN
      BY <1>1 DEF Menu!Busy
    <2> QED
      BY <1>0, <1>1, <2>1, <2>2, MenuLookKeeps DEF Menu!Busy, MenuSets, MenuFlags
  <1>2. CASE Menu!HideMenu
    <2>1. s8' \in MenuShape /\ s8'.mode = s8.mode
      BY <1>0, <1>2 DEF Menu!HideMenu, MenuShape
    <2>2. Menu!HidesAlone'
      BY <1>0, <1>2, <2>1 DEF Menu!HidesAlone, Menu!OpenCounted, Menu!HideMenu
    <2> QED
      BY <1>0, <1>2, <2>1, <2>2, MenuLookKeeps DEF Menu!HideMenu, MenuSets, MenuFlags
  <1>3. CASE Menu!ChangeMenu
    <2>1. s8' \in MenuShape
      BY <1>0, <1>3 DEF Menu!ChangeMenu, MenuShape
    <2>2. Menu!HidesAlone'
      BY <1>3 DEF Menu!HidesAlone, Menu!ChangeMenu, Menu!BothEffects
    <2>3. s11 < MenuClicks /\ s11' = s11 + 1
      BY <1>3 DEF Menu!ChangeMenu, Menu!Use
    <2>4. s10' \subseteq Menu!BothEffects /\ s7' \in BOOLEAN /\ s9' \in BOOLEAN /\ s3' = s3
          /\ s3' \subseteq Menu!Locks /\ UNCHANGED <<s1, s2, s4, s5, s6>>
      BY <1>0, <1>3 DEF Menu!ChangeMenu, MenuSets, MenuFlags
    <2> QED
      BY <2>1, <2>2, <2>3, <2>4, MenuLookKeeps
  <1>4. ASSUME NEW d \in Dialogs, Menu!AfterOpen(d)
        PROVE  Menu!MenuInv'
    <2>1. Menu!HidesAlone'
      BY <1>0, <1>4 DEF Menu!HidesAlone, Menu!OpenCounted, Menu!AfterOpen
    <2>2. s3 \subseteq s3' /\ s3' \subseteq Menu!Locks
      BY <1>0, <1>4, DialogsAssumption DEF Menu!AfterOpen, MenuSets, Menu!Locks
    <2> QED
      BY <1>0, <1>4, <2>1, <2>2, MenuLookKeeps DEF Menu!AfterOpen, MenuSets, MenuFlags
  <1>5. ASSUME NEW over \in BOOLEAN, Menu!Hover(over)
        PROVE  Menu!MenuInv'
    <2>1. s8' \in MenuShape /\ s8'.mode = s8.mode /\ (s8'.hidden => s8.hidden)
      BY <1>0, <1>5 DEF Menu!Hover, MenuShape
    <2>2. Menu!HidesAlone'
      BY <1>0, <1>5, <2>1 DEF Menu!HidesAlone, Menu!OpenCounted, Menu!Hover
    <2>3. s10' \subseteq Menu!BothEffects
      BY <1>0, <1>5 DEF Menu!Hover, MenuSets, Menu!BothEffects
    <2> QED
      BY <1>0, <1>5, <2>1, <2>2, <2>3, MenuLookKeeps DEF Menu!Hover, MenuSets, MenuFlags
  <1>6. CASE UNCHANGED Menu!menuVars
    <2>1. Menu!HidesAlone'
      BY <1>0, <1>6 DEF Menu!HidesAlone, Menu!OpenCounted, Menu!menuVars
    <2> QED
      BY <1>0, <1>6, <2>1, MenuLookKeeps DEF Menu!menuVars, MenuSets, MenuFlags
  <1> QED
    BY <1>1, <1>2, <1>3, <1>4, <1>5, <1>6

(* The page is left and returned to: its dialogs are gone, not their locks. *)
LEMMA MenuPageKeeps ==
  ASSUME Menu!MenuInv, Menu!LeavePage \/ Menu!ReturnToPage
  PROVE  Menu!MenuInv'
  <1>0. MenuSets /\ MenuCounts /\ MenuFlags /\ s8 \in MenuShape /\ Menu!TypingStaysHere
    BY MenuTypes DEF Menu!MenuInv
  <1>1. CASE Menu!LeavePage
    <2>1. MenuSets'
      BY <1>0, <1>1 DEF Menu!LeavePage, MenuSets, Menu!NoEffects
    <2>2. MenuCounts'
      BY <1>0, <1>1 DEF Menu!LeavePage, MenuCounts
    <2>3. MenuFlags'
      BY <1>1 DEF Menu!LeavePage, MenuFlags
    <2>4. s8' \in MenuShape /\ ~s8'.hidden
      BY <1>0, <1>1 DEF Menu!LeavePage, MenuShape, Menu!FreshMenu
    <2>5. Menu!OpenCounted' = {}
      BY <1>1 DEF Menu!LeavePage, Menu!OpenCounted
    <2>6. Cardinality(Menu!OpenCounted)' = 0
      BY <2>5, FS_EmptySet
    <2>7. s4' = s4 /\ s5' = s5 /\ s11' = s11
      BY <1>1 DEF Menu!LeavePage
    <2>8. Menu!CountCovers' /\ s4' \in 0 .. Cardinality(Menu!Counted) + MenuClicks
      BY <2>6, <2>7, MenuNumbers, MenuNumbersNext
    <2>9. Menu!TypingStaysHere'
      BY <1>1 DEF Menu!LeavePage, Menu!TypingStaysHere
    <2>10. Menu!HidesAlone'
      BY <1>1, <2>4 DEF Menu!LeavePage, Menu!HidesAlone
    <2> QED
      BY <2>1, <2>2, <2>3, <2>4, <2>8, <2>9, <2>10, MenuTypesNext DEF Menu!MenuInv
  <1>2. CASE Menu!ReturnToPage
    <2>1. MenuSets'
      BY <1>0, <1>2 DEF Menu!ReturnToPage, MenuSets
    <2>2. MenuCounts'
      BY <1>0, <1>2, BoundsAreNaturals DEF Menu!ReturnToPage, MenuCounts
    <2>3. MenuFlags'
      BY <1>0, <1>2 DEF Menu!ReturnToPage, MenuFlags
    <2>4. s8' \in MenuShape
      <3>1. (s8.expanded /\ s5 = 0) \in BOOLEAN
        BY Zenon
      <3> QED
        BY <1>0, <1>2, <3>1 DEF Menu!ReturnToPage, MenuShape
    <2>5. Menu!OpenCounted' = Menu!OpenCounted
      BY <1>2 DEF Menu!ReturnToPage, Menu!OpenCounted
    <2>6. s4' = s4 /\ s5' = s5 /\ s11' = s11
      BY <1>2 DEF Menu!ReturnToPage
    <2>7. Menu!CountCovers' /\ s4' \in 0 .. Cardinality(Menu!Counted) + MenuClicks
      BY <2>5, <2>6, MenuNumbers, MenuNumbersNext
    <2>8. Menu!TypingStaysHere'
      BY <1>0, <1>2 DEF Menu!ReturnToPage, Menu!TypingStaysHere
    <2>9. Menu!HidesAlone'
      BY <1>2 DEF Menu!ReturnToPage, Menu!HidesAlone, Menu!BothEffects
    <2> QED
      BY <2>1, <2>2, <2>3, <2>4, <2>7, <2>8, <2>9, MenuTypesNext DEF Menu!MenuInv
  <1> QED
    BY <1>1, <1>2

(* Every step keeps the invariant of the menu. *)
LEMMA MenuKeeps == Menu!MenuInv /\ [Menu!MenuNext]_(Menu!menuVars) => Menu!MenuInv'
  <1> SUFFICES ASSUME Menu!MenuInv, [Menu!MenuNext]_(Menu!menuVars) PROVE Menu!MenuInv'
    OBVIOUS
  <1>1. ASSUME NEW d \in Dialogs, Menu!CloseDialog(d)
        PROVE  Menu!MenuInv'
    <2>1. s6' \in [Menu!Names -> 0 .. MenuClicks]
      BY <1>1, MenuTypes DEF Menu!CloseDialog, Menu!MenuInv, MenuCounts
    <2> QED
      BY <1>1, <2>1, MenuCloseKeeps DEF Menu!CloseDialog
  <1>2. ASSUME NEW d \in Dialogs, Menu!AnswerSignal(d)
        PROVE  Menu!MenuInv'
    <2>1. s6' \in [Menu!Names -> 0 .. MenuClicks]
      BY <1>2, MenuTypes, MenuNumbers DEF Menu!AnswerSignal, Menu!MenuInv, MenuCounts
    <2> QED
      BY <1>2, <2>1, MenuCloseKeeps DEF Menu!AnswerSignal
  <1> QED
    BY <1>1, <1>2, MenuOpenKeeps, MenuSelectKeeps, MenuEffectsKeep, MenuLooksKeep, MenuPageKeeps DEF Menu!MenuNext

(* It has in it what the menu promises. *)
LEMMA MenuPromises == Menu!MenuInv => Menu!MenuTypeOK /\ Menu!TypingStaysHere /\ Menu!MenuStays
  BY DEF Menu!MenuInv, Menu!HidesAlone, Menu!MenuStays, Menu!OpenCounted, Menu!NoEffects

(* Whatever dialogs there are, and in whatever order they open, close and are *)
(* left behind: what is typed into one does not reach the host, and the menu  *)
(* does not hide under a submenu (jotai/keyboard.ts, useMenuVisibility.ts).   *)
THEOREM MenuHolds ==
  Menu!MenuSpec => [](Menu!MenuTypeOK /\ Menu!TypingStaysHere /\ Menu!MenuStays)
  BY MenuStarts, MenuKeeps, MenuPromises, PTL DEF Menu!MenuSpec

-------------------------------------------------------------------------------
(******************************************************************************)
(* Overlay.                                                                   *)
(* s1, s2, ... are its selecting, frame, selected, dragging, dragStart, grab, *)
(* drawnOn, lost, saving, cursor, gestures.                                   *)
(******************************************************************************)

(* The frame of a picture that is shown. *)
Shows(f) == f.left \in Nat /\ f.width \in Nat \ {0} /\ f.media \in Nat \ {0} /\ f.width < 2 * Minimum * f.media
            /\ f \in Frames

(* Every picture there can be is one. *)
LEMMA FramesShow == /\ \A f \in Frames : Shows(f) /\ f # Overlay!None
                    /\ Overlay!None.left = 0 /\ Overlay!None.width = -1
  BY FramesAssumption DEF Shows, Overlay!None

(* A pointer is clamped to the picture. *)
LEMMA ClampWithin ==
  ASSUME NEW x \in Int, Shows(s2), s2 # Overlay!None
  PROVE  Overlay!Clamp(x) \in Int /\ Overlay!Within(Overlay!Clamp(x), s2)
  BY FramesAssumption DEF Shows, Overlay!Smaller, Overlay!Larger, Overlay!Clamp, Overlay!Within, Overlay!Right

(* What is drawn, resized and moved stays on the picture, if what it comes from is on it. *)
LEMMA DrawnInside ==
  ASSUME NEW x \in Int, Shows(s2), s5 \in Int, s5 # -1, Overlay!Within(s5, s2)
  PROVE  Overlay!Drawn(x) \in Overlay!Held /\ Overlay!Inside(Overlay!Drawn(x), s2)
  <1> s2 # Overlay!None
    BY FramesShow DEF Shows
  <1>1. Overlay!Clamp(x) \in Int /\ Overlay!Within(Overlay!Clamp(x), s2)
    BY ClampWithin
  <1> DEFINE i == Overlay!Smaller(s5, Overlay!Clamp(x))
             j == Overlay!Larger(s5, Overlay!Clamp(x))
  <1>2. i \in Int /\ j \in Int /\ i <= j /\ i \in {s5, Overlay!Clamp(x)} /\ j \in {s5, Overlay!Clamp(x)}
    BY <1>1 DEF Overlay!Smaller, Overlay!Larger
  <1>3. Overlay!Drawn(x) = Overlay!Between(i, j)
    BY DEF Overlay!Drawn
  <1> HIDE DEF i, j
  <1> QED
    BY <1>1, <1>2, <1>3 DEF Shows, Overlay!Inside, Overlay!Within, Overlay!Right, Overlay!Between, Overlay!Held

(* Resizing, with an edge that stops at the other one. *)
LEMMA ResizedInside ==
  ASSUME NEW x \in Int, Shows(s2), NEW g, g.by \in {"w", "e"}, g.initial \in Overlay!Held,
         Overlay!Inside(g.initial, s2)
  PROVE  Overlay!Resized(g, x) \in Overlay!Held /\ Overlay!Inside(Overlay!Resized(g, x), s2)
  <1> s2 # Overlay!None
    BY FramesShow DEF Shows
  <1> DEFINE s == g.initial
             R == s.left + s.width
             i == Overlay!Larger(s2.left, Overlay!Smaller(R - Minimum, x))
             j == Overlay!Smaller(s2.left + s2.width, Overlay!Larger(s.left + Minimum, x))
  <1>1. s.left \in Int /\ s.width \in Int /\ R \in Int /\ s2.left \in Int /\ s2.width \in Int /\ Minimum \in Nat
    BY FramesAssumption DEF Shows, Overlay!Held
  <1>2. s2.left <= s.left /\ s.left <= R /\ R <= s2.left + s2.width
    BY <1>1 DEF Overlay!Inside, Overlay!Right
  <1>3. Overlay!Smaller(R - Minimum, x) \in Int /\ Overlay!Smaller(R - Minimum, x) <= R
    BY <1>1 DEF Overlay!Smaller, Overlay!Larger
  <1>4. i \in Int /\ s2.left <= i /\ i <= R
    BY <1>1, <1>2, <1>3 DEF Overlay!Smaller, Overlay!Larger
  <1>5. Overlay!Larger(s.left + Minimum, x) \in Int /\ s.left <= Overlay!Larger(s.left + Minimum, x)
    BY <1>1 DEF Overlay!Smaller, Overlay!Larger
  <1>6. j \in Int /\ j <= s2.left + s2.width /\ s.left <= j
    BY <1>1, <1>2, <1>5 DEF Overlay!Smaller, Overlay!Larger
  <1>7. Overlay!Resized(g, x) = IF g.by = "w" THEN Overlay!Between(i, R) ELSE Overlay!Between(s.left, j)
    BY DEF Overlay!Resized, Overlay!Right
  <1> HIDE DEF i, j, R, s
  <1> QED
    BY <1>1, <1>2, <1>4, <1>6, <1>7 DEF Overlay!Inside, Overlay!Right, Overlay!Between, Overlay!Held

(* Moving, with both edges. *)
LEMMA MovedInside ==
  ASSUME NEW x \in Int, Shows(s2), s6.start \in Int, s6.initial \in Overlay!Held, Overlay!Inside(s6.initial, s2)
  PROVE  Overlay!Moved(x) \in Overlay!Held /\ Overlay!Inside(Overlay!Moved(x), s2)
  <1>0. s2 # Overlay!None
    BY FramesShow DEF Shows
  <1> DEFINE l == Overlay!Larger(s2.left, Overlay!Smaller(Overlay!Right(s2) - s6.initial.width,
                                                          s6.initial.left + x - s6.start))
  <1>1. s6.initial.left \in Int /\ s6.initial.width \in Int /\ s2.left \in Int /\ s2.width \in Int
    BY DEF Shows, Overlay!Held
  <1>2. s2.left <= s6.initial.left /\ s6.initial.width >= 0
        /\ s6.initial.left + s6.initial.width <= s2.left + s2.width
    BY <1>1 DEF Overlay!Inside, Overlay!Right
  <1>3. l \in Int /\ s2.left <= l /\ l <= s2.left + s2.width - s6.initial.width
    BY <1>1, <1>2 DEF Overlay!Smaller, Overlay!Larger, Overlay!Right
  <1>4. Overlay!Moved(x) = [s6.initial EXCEPT !.left = l]
    BY <1>0 DEF Overlay!Moved
  <1> HIDE DEF l
  <1>5. Overlay!Moved(x) = [left |-> l, width |-> s6.initial.width]
    BY <1>3, <1>4 DEF Overlay!Held
  <1> QED
    BY <1>1, <1>2, <1>3, <1>5 DEF Overlay!Inside, Overlay!Right, Overlay!Held

(* The number at an edge of the picture, rounded, is a pixel of it, and what is wide enough stays a pixel wide. *)
LEMMA RoundedInside ==
  ASSUME NEW w \in Nat \ {0}, NEW m \in Nat \ {0}, NEW u \in Int, NEW v \in Int, 0 <= u, u + Minimum <= v, v <= w,
         Minimum \in Nat, w < 2 * Minimum * m
  PROVE  /\ (2 * u * m + w) \div (2 * w) \in Int
         /\ 0 <= (2 * u * m + w) \div (2 * w)
         /\ (2 * u * m + w) \div (2 * w) <= (2 * v * m + w) \div (2 * w)
         /\ (2 * v * m + w) \div (2 * w) <= m
         /\ (2 * v * m + w) \div (2 * w) \in Int
         /\ (2 * u * m + w) \div (2 * w) <= m - 1
  OBVIOUS

(* What is on a picture is on any picture in its place. *)
LEMMA PlacesAgree ==
  \A f, g : Overlay!SamePlace(f, g) =>
    /\ Overlay!SamePlace(g, f)
    /\ \A s : Overlay!Inside(s, f) <=> Overlay!Inside(s, g)
    /\ \A x : Overlay!Within(x, f) <=> Overlay!Within(x, g)
    /\ \A h : Overlay!SamePlace(g, h) => Overlay!SamePlace(f, h)
  BY DEF Overlay!SamePlace, Overlay!Inside, Overlay!Within, Overlay!Right

(* The flags of the overlay, and the rest of what the types say. *)
OverlayFlags == s1 \in BOOLEAN /\ s4 \in BOOLEAN /\ s8 \in BOOLEAN
OverlayPicture == s2 \in Frames \union {Overlay!None} /\ s7 \in Frames \union {Overlay!None}
OverlayHeld == /\ s3 \in Overlay!Held /\ s5 \in Int
               /\ s6 \in [by : {"none", "w", "e", "move"}, start : Int, initial : Overlay!Held]
OverlayCounts == s10 \in Int /\ s11 \in 0 .. Gestures

(* The types of the overlay, by what they are about. *)
LEMMA OverlayTypes ==
  Overlay!OverlayTypes <=> OverlayFlags /\ OverlayPicture /\ OverlayHeld /\ OverlayCounts
  BY DEF Overlay!OverlayTypes, Overlay!OverlayTypeOK, OverlayFlags, OverlayPicture, OverlayHeld, OverlayCounts

(* The same after a step. *)
LEMMA OverlayTypesNext ==
  Overlay!OverlayTypes' <=> OverlayFlags' /\ OverlayPicture' /\ OverlayHeld' /\ OverlayCounts'
  BY DEF Overlay!OverlayTypes, Overlay!OverlayTypeOK, OverlayFlags, OverlayPicture, OverlayHeld, OverlayCounts

(* What stands for no selection and for no grab. *)
LEMMA NothingHeld ==
  /\ Overlay!NoSelection \in Overlay!Held
  /\ Overlay!NoGrab \in [by : {"none", "w", "e", "move"}, start : Int, initial : Overlay!Held]
  /\ Overlay!NoGrab.by = "none"
  BY DEF Overlay!NoSelection, Overlay!Held, Overlay!NoGrab

(* What follows a pointer is a selection, whether or not the picture is shown. *)
LEMMA ClampInteger == ASSUME NEW x \in Int, Shows(s2) PROVE Overlay!Clamp(x) \in Int /\ Overlay!Clamp(x) >= 0
  <1> s2 # Overlay!None
    BY FramesShow DEF Shows
  <1> QED
    BY ClampWithin DEF Shows, Overlay!Within, Overlay!Right

(* What is resized. *)
LEMMA ResizedHeld ==
  ASSUME NEW x \in Int, OverlayPicture, s3 \in Overlay!Held, NEW g, g.initial \in Overlay!Held
  PROVE  Overlay!Resized(g, x) \in Overlay!Held
  <1>1. CASE s2 = Overlay!None
    BY <1>1 DEF Overlay!Resized
  <1>2. CASE s2 # Overlay!None
    <2> Shows(s2)
      BY <1>2, FramesShow DEF OverlayPicture
    <2> QED
      BY <1>2, FramesAssumption DEF Shows, Overlay!Resized, Overlay!Held, Overlay!Right, Overlay!Between,
        Overlay!Smaller, Overlay!Larger
  <1> QED
    BY <1>1, <1>2

(* And what is drawn, resized or moved. *)
LEMMA FollowedHeld ==
  ASSUME NEW x \in Int, OverlayPicture, OverlayHeld
  PROVE  Overlay!Followed(x) \in Overlay!Held
  <1>1. CASE s2 = Overlay!None
    BY <1>1 DEF Overlay!Followed, Overlay!Moved, Overlay!Resized, Overlay!Drawn, OverlayHeld
  <1>2. CASE s2 # Overlay!None
    <2> Shows(s2)
      BY <1>2, FramesShow DEF OverlayPicture
    <2>1. Overlay!Drawn(x) \in Overlay!Held
      BY ClampInteger DEF Overlay!Drawn, Overlay!Between, Overlay!Held, Overlay!Smaller, Overlay!Larger, OverlayHeld
    <2>2. Overlay!Resized(s6, x) \in Overlay!Held
      BY ResizedHeld DEF OverlayHeld
    <2>3. Overlay!Moved(x) \in Overlay!Held
      BY DEF Overlay!Moved, Overlay!Held, Overlay!Smaller, Overlay!Larger, Overlay!Right, OverlayHeld, Shows
    <2> QED
      BY <2>1, <2>2, <2>3 DEF Overlay!Followed, OverlayHeld
  <1> QED
    BY <1>1, <1>2

(* And it stays on the picture. *)
LEMMA FollowedInside ==
  ASSUME NEW x \in Int, Overlay!OverlayInv, s7 # Overlay!None, Overlay!Followed(x) # Overlay!NoSelection
  PROVE  Overlay!Inside(Overlay!Followed(x), s7)
  <1> USE OverlayTypes DEF Overlay!OverlayInv
  <1>1. CASE s2 = Overlay!None
    BY <1>1 DEF Overlay!Followed, Overlay!Moved, Overlay!Resized, Overlay!Drawn, Overlay!HeldInPicture
  <1>2. CASE s2 # Overlay!None
    <2>1. Shows(s2)
      BY <1>2, FramesShow DEF OverlayPicture
    <2>2. Overlay!SamePlace(s7, s2)
      BY <1>2 DEF Overlay!DrawnWhereShown
    <2>3. CASE s6.by = "move"
      <3>1. Overlay!Inside(s6.initial, s2)
        BY <2>2, <2>3, PlacesAgree DEF Overlay!HeldInPicture
      <3>2. Overlay!Inside(Overlay!Moved(x), s2)
        BY <2>1, <3>1, MovedInside DEF OverlayHeld
      <3> QED
        BY <2>2, <2>3, <3>2, PlacesAgree DEF Overlay!Followed
    <2>4. CASE s6.by \in {"w", "e"}
      <3>1. Overlay!Inside(s6.initial, s2)
        BY <2>2, <2>4, PlacesAgree DEF Overlay!HeldInPicture
      <3>2. Overlay!Inside(Overlay!Resized(s6, x), s2)
        BY <2>1, <2>4, <3>1, ResizedInside DEF OverlayHeld
      <3> QED
        BY <2>2, <2>4, <3>2, PlacesAgree DEF Overlay!Followed
    <2>5. CASE s6.by = "none" /\ s4
      <3>1. s5 # -1 /\ Overlay!Within(s5, s2)
        BY <2>2, <2>5, PlacesAgree DEF Overlay!HeldInPicture, Overlay!OneHold
      <3>2. Overlay!Inside(Overlay!Drawn(x), s2)
        BY <2>1, <3>1, DrawnInside DEF OverlayHeld
      <3> QED
        BY <2>2, <2>5, <3>2, PlacesAgree DEF Overlay!Followed
    <2>6. CASE s6.by = "none" /\ ~s4
      BY <2>6 DEF Overlay!Followed, Overlay!HeldInPicture
    <2> QED
      BY <2>3, <2>4, <2>5, <2>6 DEF OverlayHeld
  <1> QED
    BY <1>1, <1>2

(* The invariant of the overlay holds at the beginning. *)
LEMMA OverlayStarts == Overlay!OverlayInit => Overlay!OverlayInv
  <1> SUFFICES ASSUME Overlay!OverlayInit PROVE Overlay!OverlayInv
    OBVIOUS
  <1> USE DEF Overlay!OverlayInit
  <1>1. OverlayFlags
    BY DEF OverlayFlags
  <1>2. OverlayPicture
    BY DEF OverlayPicture
  <1>3. OverlayHeld
    BY NothingHeld DEF OverlayHeld
  <1>4. OverlayCounts
    BY BoundsAreNaturals DEF OverlayCounts, Overlay!Nowhere
  <1>5. /\ Overlay!EdgeMagnified /\ Overlay!DrawnWhereShown /\ Overlay!HeldInPicture
        /\ Overlay!OneHold /\ Overlay!ShownSinceDrawn
    BY NothingHeld DEF Overlay!EdgeMagnified, Overlay!DrawnWhereShown, Overlay!HeldInPicture, Overlay!OneHold,
      Overlay!ShownSinceDrawn
  <1> QED
    BY <1>1, <1>2, <1>3, <1>4, <1>5, OverlayTypes DEF Overlay!OverlayInv

(* The picture goes to another place, or is gone: what is held is let go of. *)
LEMMA OverlayFrameKeeps ==
  ASSUME Overlay!OverlayInv, NEW f \in Frames \union {Overlay!None}, Overlay!UpdateFrame(f),
         s1' \in BOOLEAN, s11' \in 0 .. Gestures, UNCHANGED s10
  PROVE  Overlay!OverlayInv'
  <1> USE NothingHeld, OverlayTypes DEF Overlay!OverlayInv, Overlay!UpdateFrame, Overlay!LetGo
  <1>1. OverlayFlags'
    BY DEF OverlayFlags
  <1>2. OverlayPicture'
    BY DEF OverlayPicture
  <1>3. OverlayHeld'
    BY DEF OverlayHeld
  <1>4. OverlayCounts'
    BY DEF OverlayCounts
  <1>5. Overlay!DrawnWhereShown'
    BY PlacesAgree DEF Overlay!DrawnWhereShown
  <1>6. Overlay!HeldInPicture'
    BY DEF Overlay!HeldInPicture
  <1>7. Overlay!OneHold'
    BY DEF Overlay!OneHold
  <1>8. Overlay!ShownSinceDrawn'
    BY PlacesAgree DEF Overlay!ShownSinceDrawn, Overlay!DrawnWhereShown
  <1>9. Overlay!EdgeMagnified'
    BY DEF Overlay!EdgeMagnified, Overlay!ShownSinceDrawn, Overlay!Right
  <1> QED
    BY <1>1, <1>2, <1>3, <1>4, <1>5, <1>6, <1>7, <1>8, <1>9, OverlayTypesNext

(* A selection begins at a point of the picture. *)
LEMMA OverlayPressKeeps ==
  ASSUME Overlay!OverlayInv, NEW x \in Points, Overlay!Press(x)
  PROVE  Overlay!OverlayInv'
  <1> USE NothingHeld, OverlayTypes DEF Overlay!OverlayInv, Overlay!Press, Overlay!Gesture
  <1>0. Shows(s2) /\ x \in Int
    BY FramesShow, FramesAssumption DEF OverlayPicture
  <1>a. Overlay!Clamp(x) \in Int /\ Overlay!Clamp(x) >= 0 /\ Overlay!Within(Overlay!Clamp(x), s2)
    BY <1>0, ClampInteger, ClampWithin
  <1>b. s3' \in Overlay!Held /\ s3'.left = Overlay!Clamp(x) /\ s3'.width = 0
    BY <1>a DEF Overlay!Held, Overlay!Between
  <1>1. OverlayFlags'
    BY DEF OverlayFlags
  <1>2. OverlayPicture'
    BY DEF OverlayPicture
  <1>3. OverlayHeld'
    BY <1>a, <1>b DEF OverlayHeld
  <1>4. OverlayCounts'
    BY <1>0, BoundsAreNaturals DEF OverlayCounts, Overlay!CursorAt, Overlay!Nowhere
  <1>5. Overlay!DrawnWhereShown'
    BY DEF Overlay!DrawnWhereShown, Overlay!SamePlace
  <1>6. Overlay!HeldInPicture'
    BY <1>a, <1>b, <1>0 DEF Overlay!HeldInPicture, Overlay!Inside, Overlay!Within, Overlay!Right, Shows
  <1>7. Overlay!OneHold'
    BY <1>a DEF Overlay!OneHold
  <1>8. Overlay!ShownSinceDrawn'
    BY DEF Overlay!ShownSinceDrawn
  <1>9. Overlay!EdgeMagnified'
    BY <1>b DEF Overlay!EdgeMagnified
  <1> QED
    BY <1>1, <1>2, <1>3, <1>4, <1>5, <1>6, <1>7, <1>8, <1>9, OverlayTypesNext

(* A handle is grabbed. *)
LEMMA OverlayGrabHandleKeeps ==
  ASSUME Overlay!OverlayInv, NEW x \in Points, NEW h \in {"w", "e"}, Overlay!GrabHandle(h, x)
  PROVE  Overlay!OverlayInv'
  <1> USE NothingHeld, OverlayTypes DEF Overlay!OverlayInv, Overlay!GrabHandle, Overlay!Gesture
  <1>0. x \in Int
    BY FramesAssumption
  <1>a. s6' = [by |-> h, start |-> 0, initial |-> s3] /\ s6'.by = h /\ s6'.initial = s3
    OBVIOUS
  <1>b. s3' = Overlay!Resized(s6', x)
    OBVIOUS
  <1>c. s3' \in Overlay!Held
    BY <1>0, <1>a, <1>b, ResizedHeld DEF OverlayHeld
  <1>1. OverlayFlags'
    BY DEF OverlayFlags
  <1>2. OverlayPicture'
    BY DEF OverlayPicture
  <1>3. OverlayHeld'
    BY <1>c DEF OverlayHeld
  <1>4. OverlayCounts'
    BY <1>c, BoundsAreNaturals DEF OverlayCounts, Overlay!EdgeOf, Overlay!Nowhere, Overlay!Held, Overlay!Right
  <1>5. Overlay!DrawnWhereShown'
    BY DEF Overlay!DrawnWhereShown
  <1>6. ASSUME s7 # Overlay!None
        PROVE  Overlay!Inside(s3, s7) /\ Overlay!Inside(s3', s7)
    <2>1. Overlay!Inside(s3, s7)
      BY <1>6 DEF Overlay!HeldInPicture
    <2>2. CASE s2 = Overlay!None
      BY <1>b, <2>1, <2>2 DEF Overlay!Resized
    <2>3. CASE s2 # Overlay!None
      <3>1. Shows(s2)
        BY <2>3, FramesShow DEF OverlayPicture
      <3>2. Overlay!SamePlace(s7, s2)
        BY <1>6, <2>3 DEF Overlay!DrawnWhereShown
      <3>3. Overlay!Inside(s3, s2)
        BY <2>1, <3>2, PlacesAgree
      <3>4. Overlay!Inside(s3', s2)
        BY <1>0, <1>a, <1>b, <3>1, <3>3, ResizedInside DEF OverlayHeld
      <3> QED
        BY <2>1, <3>2, <3>4, PlacesAgree
    <2> QED
      BY <2>2, <2>3
  <1>7. Overlay!HeldInPicture'
    BY <1>6, <1>a DEF Overlay!HeldInPicture
  <1>8. Overlay!OneHold'
    BY DEF Overlay!OneHold
  <1>9. Overlay!ShownSinceDrawn'
    BY DEF Overlay!ShownSinceDrawn
  <1>10. Overlay!EdgeMagnified'
    BY <1>a DEF Overlay!EdgeMagnified, Overlay!EdgeOf, Overlay!Nowhere
  <1> QED
    BY <1>1, <1>2, <1>3, <1>4, <1>5, <1>7, <1>8, <1>9, <1>10, OverlayTypesNext

(* The selection itself is grabbed. *)
LEMMA OverlayGrabInsideKeeps ==
  ASSUME Overlay!OverlayInv, NEW x \in Points, Overlay!GrabInside(x)
  PROVE  Overlay!OverlayInv'
  <1> USE NothingHeld, OverlayTypes DEF Overlay!OverlayInv, Overlay!GrabInside, Overlay!Gesture
  <1>0. x \in Int
    BY FramesAssumption
  <1>a. s6' = [by |-> "move", start |-> x, initial |-> s3] /\ s6'.by = "move" /\ s6'.initial = s3
    OBVIOUS
  <1>1. OverlayFlags'
    BY DEF OverlayFlags
  <1>2. OverlayPicture'
    BY DEF OverlayPicture
  <1>3. OverlayHeld'
    BY <1>0 DEF OverlayHeld
  <1>4. OverlayCounts'
    BY BoundsAreNaturals DEF OverlayCounts, Overlay!Nowhere
  <1>5. Overlay!DrawnWhereShown'
    BY DEF Overlay!DrawnWhereShown
  <1>6. Overlay!HeldInPicture'
    BY <1>a DEF Overlay!HeldInPicture
  <1>7. Overlay!OneHold'
    BY DEF Overlay!OneHold
  <1>8. Overlay!ShownSinceDrawn'
    BY DEF Overlay!ShownSinceDrawn
  <1>9. Overlay!EdgeMagnified'
    BY DEF Overlay!EdgeMagnified
  <1> QED
    BY <1>1, <1>2, <1>3, <1>4, <1>5, <1>6, <1>7, <1>8, <1>9, OverlayTypesNext

(* Where the magnifier goes is a place. *)
LEMMA MagnifiedInteger ==
  ASSUME NEW x \in Int, OverlayPicture, OverlayHeld, s10 \in Int
  PROVE  Overlay!Magnified(x) \in Int
  <1>1. Overlay!Resized(s6, x) \in Overlay!Held
    BY ResizedHeld DEF OverlayHeld
  <1>2. Overlay!EdgeOf(s6.by, Overlay!Resized(s6, x)) \in Int
    BY <1>1 DEF Overlay!EdgeOf, Overlay!Held, Overlay!Right, Overlay!Nowhere
  <1>3. s2 # Overlay!None => Overlay!Clamp(x) \in Int
    BY FramesShow, ClampInteger DEF OverlayPicture
  <1>4. Overlay!CursorBeside(x, s3) \in Int
    BY DEF Overlay!CursorBeside, Overlay!CursorAt, Overlay!Nowhere
  <1> QED
    BY <1>2, <1>3, <1>4 DEF Overlay!Magnified, Overlay!Nowhere

(* The pointer moves with it. *)
LEMMA OverlayDragKeeps ==
  ASSUME Overlay!OverlayInv, NEW x \in Points, Overlay!DragTo(x)
  PROVE  Overlay!OverlayInv'
  <1> USE NothingHeld, OverlayTypes DEF Overlay!OverlayInv, Overlay!DragTo
  <1>0. x \in Int
    BY FramesAssumption
  <1>a. s3' = Overlay!Followed(x) /\ s3' \in Overlay!Held
    BY <1>0, FollowedHeld
  <1>1. OverlayFlags'
    BY DEF OverlayFlags
  <1>2. OverlayPicture'
    BY DEF OverlayPicture
  <1>3. OverlayHeld'
    BY <1>a DEF OverlayHeld
  <1>4. OverlayCounts'
    BY <1>0, MagnifiedInteger DEF OverlayCounts
  <1>5. Overlay!DrawnWhereShown'
    BY DEF Overlay!DrawnWhereShown
  <1>6. Overlay!HeldInPicture'
    BY <1>0, <1>a, FollowedInside DEF Overlay!HeldInPicture
  <1>7. Overlay!OneHold'
    BY DEF Overlay!OneHold
  <1>8. Overlay!ShownSinceDrawn'
    BY DEF Overlay!ShownSinceDrawn, Overlay!Followed
  <1>9. Overlay!EdgeMagnified'
    <2> SUFFICES ASSUME s10' # Overlay!Nowhere, s3' # Overlay!NoSelection, s2 # Overlay!None, ~s8
                 PROVE  /\ s6.by = "w" => s10' = s3'.left
                        /\ s6.by = "e" => s10' = Overlay!Right(s3')
                        /\ s4 /\ s3'.width > 0 => s10' \in {s3'.left, Overlay!Right(s3')}
      BY DEF Overlay!EdgeMagnified, Overlay!Right
    <2>1. CASE s6.by = "move"
      BY <2>1 DEF Overlay!Magnified
    <2>2. CASE s6.by \in {"w", "e"}
      <3>1. s3' = Overlay!Resized(s6, x) /\ s10' = Overlay!EdgeOf(s6.by, s3')
        BY <2>2, <1>a DEF Overlay!Followed, Overlay!Magnified
      <3>2. ~s4
        BY <2>2 DEF Overlay!OneHold
      <3> QED
        BY <2>2, <3>1, <3>2 DEF Overlay!EdgeOf
    <2>3. CASE s6.by = "none" /\ s4
      <3>1. s3' = Overlay!Drawn(x) /\ s10' = Overlay!Clamp(x) /\ s5 # -1
        BY <2>3, <1>a DEF Overlay!Followed, Overlay!Magnified, Overlay!OneHold
      <3>2. Overlay!Clamp(x) \in Int
        BY <1>0, FramesShow, ClampInteger DEF OverlayPicture
      <3> QED
        BY <2>3, <3>1, <3>2 DEF Overlay!Drawn, Overlay!Between, Overlay!Right, Overlay!Smaller, Overlay!Larger,
          OverlayHeld
    <2>4. CASE s6.by = "none" /\ ~s4
      BY <2>4
    <2> QED
      BY <2>1, <2>2, <2>3, <2>4 DEF OverlayHeld
  <1> QED
    BY <1>1, <1>2, <1>3, <1>4, <1>5, <1>6, <1>7, <1>8, <1>9, OverlayTypesNext

(* The pointer is released. *)
LEMMA OverlayReleaseKeeps ==
  ASSUME Overlay!OverlayInv, NEW x \in Points, Overlay!Release(x)
  PROVE  Overlay!OverlayInv'
  <1> USE NothingHeld, OverlayTypes DEF Overlay!OverlayInv, Overlay!Release, Overlay!LetGo
  <1>0. x \in Int
    BY FramesAssumption
  <1>a. s3' = Overlay!Followed(x) /\ s3' \in Overlay!Held
    BY <1>0, FollowedHeld
  <1>1. OverlayFlags'
    BY DEF OverlayFlags
  <1>2. OverlayPicture'
    BY DEF OverlayPicture
  <1>3. OverlayHeld'
    BY <1>a DEF OverlayHeld
  <1>4. OverlayCounts'
    BY DEF OverlayCounts, Overlay!Nowhere
  <1>5. Overlay!DrawnWhereShown'
    BY DEF Overlay!DrawnWhereShown
  <1>6. Overlay!HeldInPicture'
    BY <1>0, <1>a, FollowedInside DEF Overlay!HeldInPicture
  <1>7. Overlay!OneHold'
    BY DEF Overlay!OneHold
  <1>8. Overlay!ShownSinceDrawn'
    BY DEF Overlay!ShownSinceDrawn, Overlay!Followed
  <1>9. Overlay!EdgeMagnified'
    BY DEF Overlay!EdgeMagnified, Overlay!OneHold
  <1> QED
    BY <1>1, <1>2, <1>3, <1>4, <1>5, <1>6, <1>7, <1>8, <1>9, OverlayTypesNext

(* What only lets go. *)
LEMMA OverlayLetsGo ==
  ASSUME Overlay!OverlayInv, s1' \in BOOLEAN, UNCHANGED <<s2, s7, s8>>, s11' \in 0 .. Gestures,
         s3' = s3 \/ s3' = Overlay!NoSelection,
         s10' = Overlay!Nowhere \/ (s10' = s10 /\ s3' = s3),
         UNCHANGED <<s4, s5, s6>> \/ Overlay!LetGo
  PROVE  Overlay!OverlayInv'
  <1> USE NothingHeld, OverlayTypes DEF Overlay!OverlayInv, Overlay!LetGo
  <1>1. OverlayFlags'
    BY DEF OverlayFlags
  <1>2. OverlayPicture'
    BY DEF OverlayPicture
  <1>3. OverlayHeld'
    BY DEF OverlayHeld
  <1>4. OverlayCounts'
    BY DEF OverlayCounts, Overlay!Nowhere
  <1>5. Overlay!DrawnWhereShown'
    BY DEF Overlay!DrawnWhereShown
  <1>6. Overlay!HeldInPicture'
    BY DEF Overlay!HeldInPicture
  <1>7. Overlay!OneHold'
    BY DEF Overlay!OneHold
  <1>8. Overlay!ShownSinceDrawn'
    BY DEF Overlay!ShownSinceDrawn
  <1>9. Overlay!EdgeMagnified'
    BY DEF Overlay!EdgeMagnified
  <1> QED
    BY <1>1, <1>2, <1>3, <1>4, <1>5, <1>6, <1>7, <1>8, <1>9, OverlayTypesNext

(* Every step keeps the invariant of the overlay. *)
LEMMA OverlayKeeps == Overlay!OverlayInv /\ [Overlay!OverlayNext]_(Overlay!overlayVars) => Overlay!OverlayInv'
  <1> SUFFICES ASSUME Overlay!OverlayInv, [Overlay!OverlayNext]_(Overlay!overlayVars) PROVE Overlay!OverlayInv'
    OBVIOUS
  <1>0. s1 \in BOOLEAN /\ s11 \in 0 .. Gestures /\ Gestures \in Nat
    BY OverlayTypes, BoundsAreNaturals DEF Overlay!OverlayInv, OverlayFlags, OverlayCounts
  <1>1. ASSUME NEW f \in Frames \union {Overlay!None}, Overlay!OpenOverlay(f) \/ Overlay!PictureMoves(f)
        PROVE  Overlay!OverlayInv'
    <2>1. s11' \in 0 .. Gestures
      BY <1>0, <1>1 DEF Overlay!OpenOverlay, Overlay!PictureMoves, Overlay!Gesture
    <2>2. s1' \in BOOLEAN
      BY <1>0, <1>1 DEF Overlay!OpenOverlay, Overlay!PictureMoves
    <2>3. Overlay!UpdateFrame(f) /\ UNCHANGED s10
      BY <1>1 DEF Overlay!OpenOverlay, Overlay!PictureMoves
    <2> QED
      BY <2>1, <2>2, <2>3, OverlayFrameKeeps
  <1>2. ASSUME NEW x \in Points, Overlay!Press(x) \/ Overlay!GrabInside(x) \/ Overlay!DragTo(x) \/ Overlay!Release(x)
        PROVE  Overlay!OverlayInv'
    BY <1>2, OverlayPressKeeps, OverlayGrabInsideKeeps, OverlayDragKeeps, OverlayReleaseKeeps
  <1>3. ASSUME NEW x \in Points, NEW h \in {"w", "e"}, Overlay!GrabHandle(h, x)
        PROVE  Overlay!OverlayInv'
    BY <1>3, OverlayGrabHandleKeeps
  <1>4. CASE Overlay!Leave
    BY <1>0, <1>4, OverlayLetsGo DEF Overlay!Leave
  <1>5. CASE Overlay!Cancel
    BY <1>0, <1>5, OverlayLetsGo DEF Overlay!Cancel
  <1>6. CASE Overlay!Confirm
    <2>1. s11' \in 0 .. Gestures
      BY <1>0, <1>6 DEF Overlay!Confirm, Overlay!Gesture
    <2> QED
      BY <1>0, <1>6, <2>1, OverlayLetsGo DEF Overlay!Confirm
  <1>7. CASE Overlay!Saved
    BY <1>0, <1>7, OverlayLetsGo DEF Overlay!Saved
  <1>8. CASE UNCHANGED Overlay!overlayVars
    BY <1>0, <1>8, OverlayLetsGo DEF Overlay!overlayVars
  <1> QED
    BY <1>1, <1>2, <1>3, <1>4, <1>5, <1>6, <1>7, <1>8 DEF Overlay!OverlayNext

(* It has in it what the overlay promises. *)
LEMMA OverlayPromises ==
  Overlay!OverlayInv => Overlay!OverlayTypeOK /\ Overlay!SelectionInPicture /\ Overlay!EdgeMagnified
  <1> SUFFICES ASSUME Overlay!OverlayInv PROVE Overlay!SelectionInPicture
    BY DEF Overlay!OverlayInv, Overlay!OverlayTypes
  <1> SUFFICES ASSUME s3 # Overlay!NoSelection, s2 # Overlay!None, Overlay!SamePlace(s7, s2)
               PROVE  Overlay!Inside(s3, s2)
    BY DEF Overlay!SelectionInPicture
  <1>1. s7 # Overlay!None
    BY FramesShow, OverlayTypes DEF Overlay!OverlayInv, OverlayPicture, Shows, Overlay!SamePlace
  <1> QED
    BY <1>1, PlacesAgree DEF Overlay!OverlayInv, Overlay!HeldInPicture

(* A region is saved in the picture. *)
LEMMA OverlaySaves ==
  Overlay!OverlayInv /\ [Overlay!OverlayNext]_(Overlay!overlayVars) => Overlay!SavedInPicture
  <1> SUFFICES ASSUME Overlay!OverlayInv, [Overlay!OverlayNext]_(Overlay!overlayVars),
                      s9' # s9, s9' # Overlay!None, Overlay!SamePlace(s7, s2)
               PROVE  Overlay!Inside(s9', [left |-> 0, width |-> s2.media])
    BY DEF Overlay!SavedInPicture
  <1>1. Overlay!Confirm
    BY DEF Overlay!OverlayNext, Overlay!OpenOverlay, Overlay!PictureMoves, Overlay!Press, Overlay!GrabInside,
      Overlay!DragTo, Overlay!Release, Overlay!GrabHandle, Overlay!Leave, Overlay!Cancel, Overlay!Saved,
      Overlay!overlayVars
  <1>2. Shows(s2) /\ Minimum \in Nat \ {0}
    BY <1>1, FramesShow, FramesAssumption, OverlayTypes DEF Overlay!Confirm, Overlay!OverlayInv, OverlayPicture
  <1>3. s3 \in Overlay!Held /\ s3.width >= Minimum
    BY <1>1, OverlayTypes DEF Overlay!Confirm, Overlay!OverlayInv, OverlayHeld
  <1>4. Overlay!Inside(s3, s2)
    BY <1>1, <1>2, <1>3, OverlayPromises DEF Overlay!SelectionInPicture, Overlay!NoSelection, Overlay!Held,
      Overlay!Confirm
  <1> DEFINE u == s3.left - s2.left
             v == Overlay!Right(s3) - s2.left
             l == (2 * u * s2.media + s2.width) \div (2 * s2.width)
             r == (2 * v * s2.media + s2.width) \div (2 * s2.width)
  <1>5. u \in Int /\ v \in Int /\ 0 <= u /\ u + Minimum <= v /\ v <= s2.width
    BY <1>2, <1>3, <1>4 DEF Shows, Overlay!Held, Overlay!Inside, Overlay!Right
  <1>6. s9' = [left |-> l, width |-> Overlay!Larger(1, r - l), media |-> s2.media]
    <2>1. l = Overlay!InMedia(s3.left)
      BY Zenon DEF Overlay!InMedia
    <2>2. r = Overlay!InMedia(Overlay!Right(s3))
      BY Zenon DEF Overlay!InMedia
    <2> HIDE DEF l, r
    <2> QED
      BY <1>1, <2>1, <2>2 DEF Overlay!Confirm
  <1> HIDE DEF u, v
  <1>7. /\ l \in Int /\ r \in Int /\ 0 <= l /\ l <= r /\ r <= s2.media /\ l <= s2.media - 1
    BY <1>2, <1>5, RoundedInside DEF Shows
  <1> HIDE DEF l, r
  <1> QED
    BY <1>2, <1>6, <1>7 DEF Overlay!Inside, Overlay!Right, Overlay!Larger, Shows

(* Pictures of any size at any place, and any points: a selection stays on    *)
(* the picture it is drawn on while that stays where it is, the magnifier     *)
(* with the edge, and what is saved is a region of the picture, rounding      *)
(* included (input-region-overlay.tsx).                                       *)
THEOREM OverlayHolds ==
  Overlay!OverlaySpec =>
    /\ [](Overlay!OverlayTypeOK /\ Overlay!SelectionInPicture /\ Overlay!EdgeMagnified)
    /\ [][Overlay!SavedInPicture]_(Overlay!overlayVars)
  BY OverlayStarts, OverlayKeeps, OverlayPromises, OverlaySaves, PTL DEF Overlay!OverlaySpec

===============================================================================
