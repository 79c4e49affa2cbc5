------------------------- MODULE ChatRateLimiterProofs -------------------------
(***************************************************************************)
(* Theorems about ChatRateLimiter, for any window, limit and chats.         *)
(***************************************************************************)
EXTENDS ChatRateLimiter, FiniteSetTheorems, TLAPS

-----------------------------------------------------------------------------
(* What the operators on the table return. *)

LEMMA LiveFacts ==
  ASSUME NEW window, NEW at
  PROVE  Live(window, at) \subseteq window
  BY DEF Live

LEMMA SweptFacts ==
  ASSUME NEW table, NEW at
  PROVE  /\ DOMAIN Swept(table, at) \subseteq DOMAIN table
         /\ \A d \in DOMAIN Swept(table, at) : Swept(table, at)[d] = Live(table[d], at)
         /\ \A d \in DOMAIN table \ DOMAIN Swept(table, at) : Live(table[d], at) = {}
         /\ Swept(table, at) = [d \in DOMAIN Swept(table, at) |-> Swept(table, at)[d]]
  BY DEF Swept

(* A decision, taken apart: the table it may have swept, the caller's       *)
(* window, and what becomes of the two.                                     *)
Decision(c, at, table, window, new) ==
  /\ c \in Chats /\ at \in Nat
  /\ new = [chat |-> c, at |-> at, on |-> now, nth |-> Cardinality(SameStamp(c, at))]
  /\ DOMAIN table \subseteq DOMAIN hits
  /\ table = [d \in DOMAIN table |-> table[d]]
  /\ \A d \in DOMAIN table : table[d] \subseteq hits[d] /\ Live(hits[d], at) \subseteq table[d]
  /\ \A d \in DOMAIN hits \ DOMAIN table : Live(hits[d], at) = {}
  /\ window = Live(WindowOf(table, c), at)
  /\ \/ /\ Full(window)
        /\ hits' = IF c \in DOMAIN table THEN SetWindow(table, c, window) ELSE table
        /\ admitted' = admitted
     \/ /\ ~Full(window)
        /\ hits' = SetWindow(table, c, window \cup {new})
        /\ admitted' = admitted \cup {new}

LEMMA CallType ==
  ASSUME TypeOK, NEW p \in Callers, call[p] # NoCall
  PROVE  call[p].chat \in Chats /\ call[p].stamp \in Nat
  BY DEF TypeOK, Call

LEMMA DecideSplit ==
  ASSUME TypeOK, NEW p \in Callers, Decide(p)
  PROVE  \E table, window, new :
           /\ Decision(call[p].chat, call[p].stamp, table, window, new)
           /\ table = IF SweepDue(call[p].stamp) THEN Swept(hits, call[p].stamp) ELSE hits
<1> DEFINE c == call[p].chat
           at == call[p].stamp
           table == IF SweepDue(at) THEN Swept(hits, at) ELSE hits
           window == Live(WindowOf(table, c), at)
           new == [chat |-> c, at |-> at, on |-> now, nth |-> Cardinality(SameStamp(c, at))]
<1>1. c \in Chats /\ at \in Nat
  BY CallType DEF Decide
<1>2. /\ DOMAIN table \subseteq DOMAIN hits
      /\ table = [d \in DOMAIN table |-> table[d]]
      /\ \A d \in DOMAIN table : table[d] \subseteq hits[d] /\ Live(hits[d], at) \subseteq table[d]
      /\ \A d \in DOMAIN hits \ DOMAIN table : Live(hits[d], at) = {}
  <2>1. CASE SweepDue(at)
    BY <2>1, SweptFacts, LiveFacts
  <2>2. CASE ~SweepDue(at)
    BY <2>2, LiveFacts DEF TypeOK
  <2> QED
    BY <2>1, <2>2
<1>3. \/ /\ Full(window)
         /\ hits' = IF c \in DOMAIN table THEN SetWindow(table, c, window) ELSE table
         /\ admitted' = admitted
      \/ /\ ~Full(window)
         /\ hits' = SetWindow(table, c, window \cup {new})
         /\ admitted' = admitted \cup {new}
  BY DEF Decide
<1> HIDE DEF table, new
<1>4. PICK T : T = table
  OBVIOUS
<1>5. PICK N : N = new
  OBVIOUS
<1> QED
  BY <1>1, <1>2, <1>3, <1>4, <1>5 DEF Decision, new, table

(* The caller's window holds nothing but live admissions of its chat, and   *)
(* all of those that were in the table.                                     *)
LEMMA WindowFacts ==
  ASSUME TypeOK, NEW c, NEW at, NEW table, NEW window, NEW new,
         Decision(c, at, table, window, new)
  PROVE  /\ window \subseteq {h \in admitted : h.chat = c}
         /\ window \subseteq WindowOf(hits, c)
         /\ \A h \in WindowOf(hits, c) : at - h.at < Window => h \in window
         /\ IsFiniteSet(window)
<1>1. WindowOf(table, c) \subseteq WindowOf(hits, c)
  BY DEF Decision, WindowOf
<1>2. \A h \in WindowOf(hits, c) : at - h.at < Window => h \in WindowOf(table, c)
  BY DEF Decision, WindowOf, Live
<1>3. window = {h \in WindowOf(table, c) : at - h.at < Window}
  BY DEF Decision, Live
<1>4. WindowOf(hits, c) \subseteq {h \in admitted : h.chat = c}
  BY DEF TypeOK, WindowOf
<1>5. window \subseteq admitted
  BY <1>1, <1>3, <1>4
<1> QED
  BY <1>1, <1>2, <1>3, <1>4, <1>5, FS_Subset DEF TypeOK

-----------------------------------------------------------------------------
(* Type correctness. *)

LEMMA InitTypes == Init => TypeOK
  BY FS_EmptySet DEF Init, TypeOK

LEMMA DecideTypes ==
  ASSUME TypeOK, NEW p \in Callers, Decide(p)
  PROVE  TypeOK'
<1>1. PICK c, at, table, window, new :
        c = call[p].chat /\ at = call[p].stamp /\ Decision(c, at, table, window, new)
  BY DecideSplit
<1>2. window \subseteq {h \in admitted : h.chat = c}
  BY <1>1, WindowFacts
<1>3. IsFiniteSet(SameStamp(c, at))
  BY FS_Subset DEF SameStamp, TypeOK
<1>4. new \in Admission /\ new.chat = c
  <2>1. c \in Chats /\ at \in Nat /\ now \in Nat
    BY <1>1 DEF Decision, TypeOK
  <2> QED
    BY <1>1, <1>3, <2>1, FS_CardinalityType DEF Decision, Admission
<1>5. admitted \subseteq admitted'
  BY <1>1 DEF Decision
<1>6. \A d \in DOMAIN table : table[d] \subseteq {h \in admitted' : h.chat = d}
  BY <1>1, <1>5 DEF Decision, TypeOK
<1>7. /\ DOMAIN hits' \subseteq Chats
      /\ hits' = [d \in DOMAIN hits' |-> hits'[d]]
      /\ \A d \in DOMAIN hits' : hits'[d] \subseteq {h \in admitted' : h.chat = d}
  <2>4. c \in Chats /\ DOMAIN table \subseteq Chats
    BY <1>1 DEF Decision, TypeOK
  <2>5. ASSUME NEW W, W \subseteq {h \in admitted' : h.chat = c}, hits' = SetWindow(table, c, W)
        PROVE  /\ DOMAIN hits' \subseteq Chats
               /\ hits' = [d \in DOMAIN hits' |-> hits'[d]]
               /\ \A d \in DOMAIN hits' : hits'[d] \subseteq {h \in admitted' : h.chat = d}
    <3>1. PICK H : H = SetWindow(table, c, W)
      OBVIOUS
    <3>2. /\ DOMAIN H = DOMAIN table \cup {c}
          /\ H[c] = W
          /\ \A d \in DOMAIN table \ {c} : H[d] = table[d]
          /\ H = [d \in DOMAIN H |-> H[d]]
      BY <3>1 DEF SetWindow
    <3>3. hits' = H
      BY <2>5, <3>1
    <3>4. \A d \in DOMAIN H : H[d] \subseteq {h \in admitted' : h.chat = d}
      BY <1>6, <2>5, <3>2
    <3> QED
      BY <2>4, <3>2, <3>3, <3>4
  <2>1. CASE hits' = SetWindow(table, c, window)
    BY <1>2, <1>5, <2>1, <2>5
  <2>2. CASE hits' = table
    BY <1>1, <1>6, <2>2 DEF Decision, TypeOK
  <2>3. CASE hits' = SetWindow(table, c, window \cup {new}) /\ admitted' = admitted \cup {new}
    <3>1. window \cup {new} \subseteq {h \in admitted' : h.chat = c}
      BY <1>2, <1>4, <2>3
    <3> QED
      BY <2>3, <2>5, <3>1
  <2> QED
    BY <1>1, <2>1, <2>2, <2>3 DEF Decision
<1>8. IsFiniteSet(admitted') /\ admitted' \subseteq Admission
  BY <1>1, <1>4, FS_AddElement DEF Decision, TypeOK
<1>9. sweptAt' \in Nat /\ call' \in [Callers -> Call \cup {NoCall}] /\ now' \in Nat
  <2>1. sweptAt' = sweptAt \/ sweptAt' = call[p].stamp
    BY DEF Decide
  <2> QED
    BY <2>1, CallType DEF Decide, TypeOK
<1> QED
  BY <1>7, <1>8, <1>9 DEF TypeOK

LEMMA NextTypes == TypeOK /\ [Next]_vars => TypeOK'
<1> SUFFICES ASSUME TypeOK, [Next]_vars PROVE TypeOK'
  OBVIOUS
<1>1. ASSUME NEW p \in Callers, Stamp(p) PROVE TypeOK'
  <2>1. PICK c \in Chats : call' = [call EXCEPT ![p] = [waiting |-> TRUE, chat |-> c, stamp |-> now]]
    BY <1>1 DEF Stamp
  <2>2. [waiting |-> TRUE, chat |-> c, stamp |-> now] \in Call
    BY DEF Call, TypeOK
  <2> QED
    BY <1>1, <2>1, <2>2 DEF Stamp, TypeOK
<1>2. CASE Tick
  BY <1>2 DEF Tick, TypeOK
<1>3. CASE UNCHANGED vars
  BY <1>3 DEF vars, TypeOK
<1> QED
  BY <1>1, <1>2, <1>3, DecideTypes DEF Next

(* The windows only ever hold admissions of their own chat.                 *)
THEOREM TypeCorrect == Spec => []TypeOK
  BY InitTypes, NextTypes, PTL DEF Spec

-----------------------------------------------------------------------------
(* The windows stay within the limit. *)

LEMMA InitOutgrows == Init => NeverOutgrows
  BY DEF Init, NeverOutgrows

LEMMA NextOutgrows == TypeOK /\ NeverOutgrows /\ [Next]_vars => NeverOutgrows'
<1> SUFFICES ASSUME TypeOK, NeverOutgrows, [Next]_vars PROVE NeverOutgrows'
  OBVIOUS
<1>1. ASSUME NEW p \in Callers, Decide(p) PROVE NeverOutgrows'
  <2>1. PICK c, at, table, window, new : Decision(c, at, table, window, new)
    BY <1>1, DecideSplit
  <2>2. \A d \in DOMAIN hits : IsFiniteSet(hits[d])
    BY FS_Subset DEF TypeOK
  <2>3. \A d \in DOMAIN table : Cardinality(table[d]) <= Max
    <3> TAKE d \in DOMAIN table
    <3>1. d \in DOMAIN hits /\ table[d] \in SUBSET hits[d]
      BY <2>1 DEF Decision
    <3>2. IsFiniteSet(hits[d]) /\ IsFiniteSet(table[d]) /\ Cardinality(table[d]) <= Cardinality(hits[d])
      BY <2>2, <3>1, FS_Subset
    <3> QED
      BY <3>1, <3>2, FS_CardinalityType, LimiterAssumption DEF NeverOutgrows
  <2>4. Cardinality(window) \in Nat /\ IsFiniteSet(window)
    BY <2>1, WindowFacts, FS_CardinalityType
  <2>5. ASSUME c \in DOMAIN table PROVE Cardinality(window) <= Max
    <3>1. c \in DOMAIN hits /\ window \in SUBSET hits[c]
      <4>1. c \in DOMAIN hits
        BY <2>1, <2>5 DEF Decision
      <4>2. window \subseteq WindowOf(hits, c)
        BY <2>1, WindowFacts
      <4> QED
        BY <4>1, <4>2 DEF WindowOf
    <3>2. Cardinality(window) <= Cardinality(hits[c]) /\ Cardinality(hits[c]) \in Nat
      BY <2>2, <3>1, FS_Subset, FS_CardinalityType
    <3> QED
      BY <2>4, <3>1, <3>2, LimiterAssumption DEF NeverOutgrows
  <2>6. ~Full(window) => Cardinality(window \cup {new}) <= Max
    <3>1. Cardinality(window \cup {new}) \in {Cardinality(window), Cardinality(window) + 1}
      BY <2>4, FS_AddElement
    <3> QED
      BY <2>4, <3>1, LimiterAssumption DEF Full
  <2>7. CASE hits' = table
    BY <2>3, <2>7 DEF NeverOutgrows
  <2>8. ASSUME NEW W, Cardinality(W) <= Max, hits' = SetWindow(table, c, W)
        PROVE  NeverOutgrows'
    <3>1. PICK H : H = SetWindow(table, c, W)
      OBVIOUS
    <3>2. /\ DOMAIN H = DOMAIN table \cup {c}
          /\ H[c] = W
          /\ \A d \in DOMAIN table \ {c} : H[d] = table[d]
      BY <3>1 DEF SetWindow
    <3>3. \A d \in DOMAIN H : Cardinality(H[d]) <= Max
      BY <2>3, <2>8, <3>2
    <3> QED
      BY <2>8, <3>1, <3>3 DEF NeverOutgrows
  <2> QED
    BY <2>1, <2>5, <2>6, <2>7, <2>8 DEF Decision
<1>2. CASE UNCHANGED hits
  BY <1>2 DEF NeverOutgrows
<1> QED
  BY <1>1, <1>2 DEF Next, Stamp, Tick, vars

(* However many callers race, no chat's window outgrows max_messages.       *)
THEOREM WindowsNeverOutgrow == Spec => []NeverOutgrows
  BY InitTypes, NextTypes, InitOutgrows, NextOutgrows, PTL DEF Spec

-----------------------------------------------------------------------------
(* The limit in a window of time. *)

(* The callers whose timestamp is older than the end of a window of time.   *)
Holding(from) == {p \in Callers : call[p] # NoCall /\ call[p].stamp < from + Window}

(* Until a caller with a later timestamp decides, what was admitted in a    *)
(* window of time is still in the table, and counts. Once one has, it may   *)
(* be gone, but then nobody gets a timestamp of that window any more, and   *)
(* each of the other callers is let through at most once with one it holds. *)
Bounded(c, from) ==
  \/ /\ AdmittedIn(c, from) \subseteq WindowOf(hits, c)
     /\ Cardinality(AdmittedIn(c, from)) <= Max
  \/ /\ from + Window <= now
     /\ Cardinality(AdmittedIn(c, from)) + Cardinality(Holding(from))
          <= Max + (Cardinality(Callers) - 1)

StampsPast == \A p \in Callers : call[p] # NoCall => call[p].stamp <= now

BoundInv == StampsPast /\ \A c \in Chats, from \in Nat : Bounded(c, from)

LEMMA FiniteParts ==
  ASSUME TypeOK, NEW c, NEW from
  PROVE  /\ IsFiniteSet(AdmittedIn(c, from)) /\ Cardinality(AdmittedIn(c, from)) \in Nat
         /\ IsFiniteSet(Holding(from)) /\ Cardinality(Holding(from)) \in Nat
         /\ Cardinality(Callers) \in Nat \ {0}
<1>1. IsFiniteSet(AdmittedIn(c, from)) /\ IsFiniteSet(Holding(from))
  BY FS_Subset, LimiterAssumption DEF AdmittedIn, Holding, TypeOK
<1>2. Cardinality(Callers) \in Nat /\ Cardinality(Callers) # 0
  BY FS_CardinalityType, FS_EmptySet, LimiterAssumption
<1> QED
  BY <1>1, <1>2, FS_CardinalityType

(* A decision keeps what is live at its timestamp, of every chat.           *)
LEMMA LiveIsKept ==
  ASSUME TypeOK, NEW c, NEW at, NEW table, NEW window, NEW new, NEW d, NEW h,
         Decision(c, at, table, window, new), h \in WindowOf(hits, d), at - h.at < Window
  PROVE  h \in WindowOf(hits', d)
<1>1. d \in DOMAIN hits /\ h \in Live(hits[d], at)
  BY DEF WindowOf, Live
<1>2. d \in DOMAIN table /\ h \in table[d]
  BY <1>1 DEF Decision
<1>3. d = c => h \in window
  BY WindowFacts
<1> QED
  BY <1>2, <1>3 DEF Decision, SetWindow, WindowOf

LEMMA InitBound == Init => BoundInv
<1> SUFFICES ASSUME Init, NEW c \in Chats, NEW from \in Nat PROVE Bounded(c, from)
  BY DEF BoundInv, StampsPast, Init
<1>1. AdmittedIn(c, from) = {}
  BY DEF Init, AdmittedIn
<1> QED
  BY <1>1, FS_EmptySet, LimiterAssumption DEF Bounded

(* Nobody decides, and who gets a timestamp gets the present one.           *)
LEMMA WaitBound ==
  ASSUME TypeOK, TypeOK', BoundInv, UNCHANGED <<hits, admitted>>, now' \in Nat, now <= now',
         \A p \in Callers : call'[p] = call[p] \/ call'[p].stamp = now
  PROVE  BoundInv'
<1>1. now \in Nat
  BY DEF TypeOK
<1>2. StampsPast'
  <2> SUFFICES ASSUME NEW p \in Callers, call'[p] # NoCall PROVE call'[p].stamp <= now'
    BY DEF StampsPast
  <2>1. call[p] # NoCall => call[p].stamp \in Nat
    BY CallType
  <2> QED
    BY <1>1, <2>1 DEF BoundInv, StampsPast
<1>3. ASSUME NEW c \in Chats, NEW from \in Nat PROVE Bounded(c, from)'
  <2>1. AdmittedIn(c, from)' = AdmittedIn(c, from)
    BY DEF AdmittedIn
  <2>2. CASE /\ AdmittedIn(c, from) \subseteq WindowOf(hits, c)
             /\ Cardinality(AdmittedIn(c, from)) <= Max
    BY <2>1, <2>2 DEF Bounded, WindowOf
  <2>3. CASE /\ from + Window <= now
             /\ Cardinality(AdmittedIn(c, from)) + Cardinality(Holding(from))
                  <= Max + (Cardinality(Callers) - 1)
    <3>1. Holding(from)' \subseteq Holding(from)
      BY <1>1, <2>3, LimiterAssumption DEF Holding
    <3>2. PICK H : H = Holding(from)'
      OBVIOUS
    <3>3. IsFiniteSet(H) /\ Cardinality(H) <= Cardinality(Holding(from))
      BY <3>1, <3>2, FiniteParts, FS_Subset
    <3>4. Cardinality(H) \in Nat
      BY <3>3, FS_CardinalityType
    <3>5. from + Window <= now'
      BY <1>1, <2>3, LimiterAssumption
    <3> QED
      BY <2>1, <2>3, <3>2, <3>3, <3>4, <3>5, FiniteParts, LimiterAssumption DEF Bounded
  <2> QED
    BY <2>2, <2>3 DEF BoundInv, Bounded
<1> QED
  BY <1>2, <1>3 DEF BoundInv

LEMMA DecideBound ==
  ASSUME TypeOK, TypeOK', BoundInv, NEW p \in Callers, Decide(p)
  PROVE  BoundInv'
<1>1. PICK c, at, table, window, new :
        c = call[p].chat /\ at = call[p].stamp /\ Decision(c, at, table, window, new)
  BY DecideSplit
<1>2. /\ call[p] # NoCall /\ now' = now /\ c \in Chats /\ at \in Nat /\ now \in Nat /\ at <= now
      /\ call'[p] = NoCall /\ \A q \in Callers \ {p} : call'[q] = call[q]
  BY <1>1 DEF Decide, TypeOK, Decision, BoundInv, StampsPast
<1>3. StampsPast'
  BY <1>2 DEF BoundInv, StampsPast
<1>4. /\ new.at = at /\ new.chat = c
      /\ admitted' = admitted \/ (admitted' = admitted \cup {new} /\ ~Full(window))
  BY <1>1 DEF Decision
<1>5. \A h \in admitted : h.at \in Nat
  BY DEF TypeOK, Admission
<1>6. ASSUME NEW d \in Chats, NEW from \in Nat PROVE Bounded(d, from)'
  <2>1. PICK A, B, H, G : /\ A = AdmittedIn(d, from) /\ B = AdmittedIn(d, from)'
                          /\ H = Holding(from) /\ G = Holding(from)'
    OBVIOUS
  <2>2. /\ IsFiniteSet(A) /\ Cardinality(A) \in Nat /\ IsFiniteSet(H) /\ Cardinality(H) \in Nat
        /\ Cardinality(Callers) \in Nat \ {0}
    BY <2>1, FiniteParts
  <2>3. B = A \/ (B = A \cup {new} /\ d = c /\ from <= at /\ at < from + Window /\ ~Full(window))
    BY <1>4, <2>1 DEF AdmittedIn
  <2>4. Cardinality(B) <= Cardinality(A) + 1 /\ Cardinality(B) \in Nat
    <3>1. Cardinality(A \cup {new}) \in {Cardinality(A), Cardinality(A) + 1}
      BY <2>2, FS_AddElement
    <3>2. Cardinality(B) \in {Cardinality(A), Cardinality(A) + 1}
      BY <2>3, <3>1
    <3> QED
      BY <2>2, <3>2
  <2>5. G = H \ {p} /\ (at < from + Window => p \in H)
    BY <1>1, <1>2, <2>1 DEF Holding
  <2>6. IsFiniteSet(G) /\ Cardinality(G) \in Nat
          /\ Cardinality(G) = IF p \in H THEN Cardinality(H) - 1 ELSE Cardinality(H)
    BY <2>2, <2>5, FS_RemoveElement, FS_CardinalityType
  <2>7. CASE A \subseteq WindowOf(hits, d) /\ Cardinality(A) <= Max /\ at < from + Window
    <3>1. ASSUME NEW h \in A PROVE at - h.at < Window /\ h \in WindowOf(hits', d)
      <4>1. h \in admitted /\ from <= h.at /\ h.at \in Nat
        BY <1>5, <2>1 DEF AdmittedIn
      <4>2. at - h.at < Window
        BY <1>2, <2>7, <4>1, LimiterAssumption
      <4> QED
        BY <1>1, <2>7, <4>2, LiveIsKept
    <3>2. CASE B = A
      BY <2>1, <2>7, <3>1, <3>2 DEF Bounded
    <3>3. CASE B = A \cup {new} /\ B # A
      <4>1. d = c /\ ~Full(window) /\ admitted' # admitted
        BY <2>1, <2>3, <3>3 DEF AdmittedIn
      <4>2. A \in SUBSET window
        BY <1>1, <2>7, <3>1, <4>1, WindowFacts
      <4>3. Cardinality(A) <= Cardinality(window) /\ Cardinality(window) \in Nat
        BY <1>1, <4>2, WindowFacts, FS_Subset, FS_CardinalityType
      <4>4. Cardinality(B) <= Max
        BY <2>2, <2>4, <4>1, <4>3, LimiterAssumption DEF Full
      <4>5. hits' = SetWindow(table, c, window \cup {new})
        BY <1>1, <4>1 DEF Decision
      <4>6. new \in WindowOf(hits', d)
        BY <4>1, <4>5 DEF SetWindow, WindowOf
      <4> QED
        BY <2>1, <3>1, <3>3, <4>4, <4>6 DEF Bounded
    <3> QED
      BY <2>3, <3>2, <3>3
  <2>8. CASE A \subseteq WindowOf(hits, d) /\ Cardinality(A) <= Max /\ ~(at < from + Window)
    <3>1. from + Window <= now'
      BY <1>2, <2>8, LimiterAssumption
    <3>2. B = A
      BY <2>3, <2>8
    <3>3. G \in SUBSET (Callers \ {p})
      BY <2>1, <2>5 DEF Holding
    <3>4. Cardinality(Callers \ {p}) = Cardinality(Callers) - 1 /\ IsFiniteSet(Callers \ {p})
      BY FS_RemoveElement, LimiterAssumption
    <3>5. Cardinality(G) <= Cardinality(Callers) - 1
      BY <3>3, <3>4, FS_Subset
    <3> QED
      BY <2>1, <2>2, <2>6, <2>8, <3>1, <3>2, <3>5, LimiterAssumption DEF Bounded
  <2>9. CASE /\ from + Window <= now
             /\ Cardinality(A) + Cardinality(H) <= Max + (Cardinality(Callers) - 1)
    <3>1. Cardinality(B) + Cardinality(G) <= Cardinality(A) + Cardinality(H)
      BY <2>2, <2>3, <2>4, <2>5, <2>6
    <3> QED
      BY <1>2, <2>1, <2>2, <2>4, <2>6, <2>9, <3>1, LimiterAssumption DEF Bounded
  <2> QED
    BY <2>1, <2>7, <2>8, <2>9 DEF BoundInv, Bounded
<1> QED
  BY <1>3, <1>6 DEF BoundInv

LEMMA NextBound == TypeOK /\ TypeOK' /\ BoundInv /\ [Next]_vars => BoundInv'
<1> SUFFICES ASSUME TypeOK, TypeOK', BoundInv, [Next]_vars PROVE BoundInv'
  OBVIOUS
<1>1. now \in Nat
  BY DEF TypeOK
<1>2. ASSUME NEW p \in Callers, Stamp(p) PROVE BoundInv'
  <2>1. UNCHANGED <<hits, now, admitted>> /\ \A q \in Callers : call'[q] = call[q] \/ call'[q].stamp = now
    BY <1>2 DEF Stamp, TypeOK
  <2> QED
    BY <1>1, <2>1, WaitBound
<1>3. CASE Tick
  BY <1>1, <1>3, WaitBound DEF Tick
<1>4. CASE UNCHANGED vars
  BY <1>1, <1>4, WaitBound DEF vars
<1> QED
  BY <1>2, <1>3, <1>4, DecideBound DEF Next

LEMMA BoundHolds == TypeOK /\ BoundInv => WindowBound
<1> SUFFICES ASSUME TypeOK, BoundInv, NEW c \in Chats, NEW from \in 0 .. MaxTime
             PROVE  Cardinality(AdmittedIn(c, from)) <= Max + (Cardinality(Callers) - 1)
  BY DEF WindowBound
<1>1. from \in Nat
  BY LimiterAssumption
<1>2. Bounded(c, from)
  BY <1>1 DEF BoundInv
<1> QED
  BY <1>2, FiniteParts, LimiterAssumption DEF Bounded

(* However many callers race, and in whatever order they decide, a window   *)
(* of time lets at most max_messages of a chat through, and one more for    *)
(* every other caller: pruning and sweeping forget an admission that still  *)
(* counts only when no caller can get a timestamp of its window any more.   *)
THEOREM LimitHolds == Spec => []WindowBound
  BY InitTypes, NextTypes, InitBound, NextBound, BoundHolds, PTL DEF Spec

(* As long as one call of allow returns before the next one begins, no      *)
(* window of time lets more than max_messages of a chat through.            *)
THEOREM SingleCallerIsExact ==
  ASSUME NEW p, Callers = {p}
  PROVE  Spec => [](\A c \in Chats, from \in 0 .. MaxTime : Cardinality(AdmittedIn(c, from)) <= Max)
<1>1. Cardinality(Callers) = 1
  BY FS_Singleton
<1>2. WindowBound => \A c \in Chats, from \in 0 .. MaxTime : Cardinality(AdmittedIn(c, from)) <= Max
  BY <1>1, LimiterAssumption DEF WindowBound
<1> QED
  BY <1>2, LimitHolds, PTL

-----------------------------------------------------------------------------
(* Chats that have gone quiet leave the table. *)

(* What is in the table was pushed less than a window before the last       *)
(* sweep, or after it, and no chat is there without any.                    *)
FreshInv ==
  /\ StampsPast /\ sweptAt <= now
  /\ \A h \in admitted : h.at <= h.on
  /\ \A c \in DOMAIN hits : hits[c] # {} /\ \A h \in hits[c] : sweptAt - h.on < Window

LEMMA InitFresh == Init => FreshInv
  BY DEF Init, FreshInv, StampsPast

(* The table a decision works on, swept or not, is as fresh.                *)
LEMMA TableIsFresh ==
  ASSUME TypeOK, FreshInv, Window > 0, NEW at \in Nat, NEW table,
         table = IF SweepDue(at) THEN Swept(hits, at) ELSE hits,
         sweptAt' = IF SweepDue(at) THEN at ELSE sweptAt
  PROVE  /\ at - sweptAt' < Window
         /\ \A d \in DOMAIN table : table[d] # {} /\ \A h \in table[d] : sweptAt' - h.on < Window
<1>1. Window \in Nat /\ sweptAt \in Nat
  BY LimiterAssumption DEF TypeOK
<1>2. CASE SweepDue(at)
  <2>1. sweptAt' = at /\ table = Swept(hits, at)
    BY <1>2
  <2>2. ASSUME NEW d \in DOMAIN table
        PROVE  table[d] # {} /\ \A h \in table[d] : sweptAt' - h.on < Window
    <3>1. d \in DOMAIN hits /\ table[d] = Live(hits[d], at) /\ table[d] # {}
      BY <2>1 DEF Swept
    <3>2. ASSUME NEW h \in table[d] PROVE sweptAt' - h.on < Window
      <4>1. h \in admitted /\ at - h.at < Window
        BY <3>1 DEF Live, TypeOK
      <4>2. h.at \in Nat /\ h.on \in Nat /\ h.at <= h.on
        BY <4>1 DEF TypeOK, Admission, FreshInv
      <4> QED
        BY <1>1, <2>1, <4>1, <4>2
    <3> QED
      BY <3>1, <3>2
  <2> QED
    BY <1>1, <2>1, <2>2
<1>3. CASE ~SweepDue(at)
  BY <1>1, <1>3 DEF SweepDue, FreshInv
<1> QED
  BY <1>2, <1>3

LEMMA DecideFresh ==
  ASSUME TypeOK, TypeOK', NeverOutgrows, FreshInv, Window > 0, NEW p \in Callers, Decide(p)
  PROVE  /\ FreshInv'
         /\ \A c \in DOMAIN hits' : \E h \in hits'[c] : call[p].stamp - h.on < 2 * Window
<1>1. PICK c, at, table, window, new :
        /\ c = call[p].chat /\ at = call[p].stamp /\ Decision(c, at, table, window, new)
        /\ table = IF SweepDue(at) THEN Swept(hits, at) ELSE hits
  BY DecideSplit
<1>2. /\ call[p] # NoCall /\ now' = now /\ at \in Nat /\ now \in Nat /\ at <= now
      /\ sweptAt' = IF SweepDue(at) THEN at ELSE sweptAt
      /\ call'[p] = NoCall /\ \A q \in Callers \ {p} : call'[q] = call[q]
      /\ Window \in Nat /\ Max \in Nat /\ sweptAt \in Nat /\ sweptAt <= now
  BY <1>1, LimiterAssumption DEF Decide, TypeOK, Decision, FreshInv, StampsPast
<1>3. StampsPast' /\ sweptAt' <= now' /\ sweptAt' \in Nat
  BY <1>2 DEF FreshInv, StampsPast
<1>4. new.at = at /\ new.on = now
  BY <1>1 DEF Decision
<1>5. \A h \in admitted' : h.at <= h.on
  BY <1>1, <1>2, <1>4 DEF Decision, FreshInv
<1>6. /\ at - sweptAt' < Window
      /\ \A d \in DOMAIN table : table[d] # {} /\ \A h \in table[d] : sweptAt' - h.on < Window
  BY <1>1, <1>2, TableIsFresh
<1>7. \A h \in window \cup {new} : sweptAt' - h.on < Window
  <2>1. \A h \in window : c \in DOMAIN table /\ h \in table[c]
    BY <1>1 DEF Decision, WindowOf, Live
  <2> QED
    BY <1>2, <1>3, <1>4, <1>6, <2>1
<1>8. Full(window) /\ c \in DOMAIN table => window # {}
  <2> SUFFICES ASSUME Full(window), c \in DOMAIN table, window = {} PROVE FALSE
    OBVIOUS
  <2>1. Max = 0
    BY <1>2, FS_EmptySet DEF Full
  <2>2. c \in DOMAIN hits /\ hits[c] # {}
    BY <1>1 DEF Decision, FreshInv
  <2>3. IsFiniteSet(hits[c]) /\ Cardinality(hits[c]) <= 0
    BY <2>1, <2>2, FS_Subset DEF TypeOK, NeverOutgrows
  <2> QED
    BY <2>2, <2>3, FS_CardinalityType, FS_EmptySet
<1>9. \A d \in DOMAIN hits' : hits'[d] # {} /\ \A h \in hits'[d] : sweptAt' - h.on < Window
  <2>1. ASSUME NEW W, W # {}, \A h \in W : sweptAt' - h.on < Window, hits' = SetWindow(table, c, W)
        PROVE  \A d \in DOMAIN hits' : hits'[d] # {} /\ \A h \in hits'[d] : sweptAt' - h.on < Window
    BY <1>6, <2>1 DEF SetWindow
  <2>2. CASE hits' = table
    BY <1>6, <2>2
  <2> QED
    BY <1>1, <1>7, <1>8, <2>1, <2>2 DEF Decision
<1>10. ASSUME NEW d \in DOMAIN hits' PROVE \E h \in hits'[d] : at - h.on < 2 * Window
  <2>1. PICK h \in hits'[d] : sweptAt' - h.on < Window
    BY <1>9
  <2>2. h.on \in Nat
    BY DEF TypeOK, Admission
  <2>3. at - h.on < 2 * Window
    BY <1>2, <1>3, <1>6, <2>1, <2>2
  <2> QED
    BY <2>3
<1> QED
  BY <1>1, <1>3, <1>5, <1>9, <1>10 DEF FreshInv

LEMMA NextFresh ==
  ASSUME TypeOK, TypeOK', NeverOutgrows, FreshInv, Window > 0, [Next]_vars
  PROVE  /\ FreshInv'
         /\ \A p \in Callers : call[p] # NoCall /\ call'[p] = NoCall =>
              \A c \in DOMAIN hits' : \E h \in hits'[c] : call[p].stamp - h.on < 2 * Window
<1>1. ASSUME NEW q \in Callers, Decide(q), NEW p \in Callers, call[p] # NoCall, call'[p] = NoCall
      PROVE  p = q
  BY <1>1 DEF Decide, TypeOK
<1>2. ASSUME NEW q \in Callers, Stamp(q)
      PROVE  FreshInv' /\ \A p \in Callers : call[p] # NoCall => call'[p] # NoCall
  <2>1. /\ UNCHANGED <<hits, sweptAt, now, admitted>> /\ now \in Nat
        /\ call'[q].stamp = now /\ call'[q] # NoCall
        /\ \A p \in Callers \ {q} : call'[p] = call[p]
    BY <1>2 DEF Stamp, TypeOK, NoCall
  <2> QED
    BY <2>1 DEF FreshInv, StampsPast
<1>3. CASE Tick
  <2>1. UNCHANGED <<hits, sweptAt, call, admitted>> /\ now \in Nat /\ now' = now + 1 /\ sweptAt \in Nat
    BY <1>3 DEF Tick, TypeOK
  <2>2. StampsPast'
    <3> SUFFICES ASSUME NEW p \in Callers, call[p] # NoCall PROVE call[p].stamp <= now'
      BY <2>1 DEF StampsPast
    <3> QED
      BY <2>1, CallType DEF FreshInv, StampsPast
  <2> QED
    BY <2>1, <2>2 DEF FreshInv
<1>4. CASE UNCHANGED vars
  BY <1>4 DEF vars, FreshInv, StampsPast
<1> QED
  BY <1>1, <1>2, <1>3, <1>4, DecideFresh DEF Next

(* Once a call has returned, every chat in the table has had a message let  *)
(* through within the last two windows, in whatever order calls decide: the *)
(* periodic sweep frees quiet chats, and nothing puts one back.             *)
THEOREM QuietChatsLeave ==
  ASSUME Window > 0
  PROVE  Spec => NoQuietChats
<1>1. TypeOK /\ TypeOK' /\ NeverOutgrows /\ FreshInv /\ [Next]_vars
        => FreshInv' /\ [\A p \in Callers : call[p] # NoCall /\ call'[p] = NoCall =>
             \A c \in DOMAIN hits' : \E h \in hits'[c] : call[p].stamp - h.on < 2 * Window]_vars
  BY NextFresh
<1> QED
  BY <1>1, InitTypes, NextTypes, InitOutgrows, NextOutgrows, InitFresh, PTL DEF Spec, NoQuietChats

=============================================================================
