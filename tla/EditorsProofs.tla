---------------------------- MODULE EditorsProofs ----------------------------
(***************************************************************************)
(* Proofs about the vibration mode editor, for any transforms and forms,   *)
(* any length of the queue, and any atomic waves.                          *)
(***************************************************************************)
EXTENDS Editors, SequenceTheorems, FiniteSetTheorems, TLAPS

-----------------------------------------------------------------------------
(***************************************************************************)
(* Lemmas about sequences and the operators of the queue.                  *)
(***************************************************************************)
\* Bounded sequences are the sequences that are not longer.
LEMMA BoundedIsSeq ==
  ASSUME NEW S, NEW n \in Nat, NEW q
  PROVE  q \in BoundedSeq(S, n) <=> q \in Seq(S) /\ Len(q) <= n
<1>1. ASSUME q \in BoundedSeq(S, n) PROVE q \in Seq(S) /\ Len(q) <= n
  <2>1. PICK m \in 0 .. n : q \in [1 .. m -> S]
    BY <1>1 DEF BoundedSeq, SeqOf
  <2>2. m \in Nat /\ m <= n /\ DOMAIN q = 1 .. m
    BY <2>1
  <2>3. q \in Seq(S)
    BY <2>1, <2>2
  <2>4. Len(q) \in Nat /\ DOMAIN q = 1 .. Len(q)
    BY <2>3, LenProperties, Zenon
  <2>5. Len(q) > m => Len(q) \in 1 .. Len(q) /\ Len(q) \notin 1 .. m
    BY <2>2, <2>4
  <2>6. m > Len(q) => m \in 1 .. m /\ m \notin 1 .. Len(q)
    BY <2>2, <2>4
  <2>7. ~(Len(q) > m) /\ ~(m > Len(q))
    BY <2>2, <2>4, <2>5, <2>6, Zenon
  <2> QED BY <2>2, <2>3, <2>4, <2>7
<1>2. ASSUME q \in Seq(S), Len(q) <= n PROVE q \in BoundedSeq(S, n)
  <2>1. q \in [1 .. Len(q) -> S] /\ Len(q) \in 0 .. n
    BY <1>2
  <2> QED BY <2>1 DEF BoundedSeq, SeqOf
<1> QED BY <1>1, <1>2

\* What remains when one element is taken out.
LEMMA Removed ==
  ASSUME NEW S, NEW q \in Seq(S), NEW i \in 1 .. Len(q)
  PROVE  /\ RemoveAt(q, i) \in Seq(S) /\ Len(RemoveAt(q, i)) = Len(q) - 1
         /\ \A j \in DOMAIN RemoveAt(q, i) : \E k \in DOMAIN q : RemoveAt(q, i)[j] = q[k]
<1> DEFINE a == SubSeq(q, 1, i - 1)
           b == SubSeq(q, i + 1, Len(q))
<1>1. /\ a \in Seq(S) /\ Len(a) = i - 1
      /\ \A j \in 1 .. i - 1 : a[j] = q[j]
  <2>1. \A j \in 1 .. i - 1 : q[j] \in S
    OBVIOUS
  <2> QED BY <2>1, SubSeqProperties
<1>2. /\ b \in Seq(S) /\ Len(b) = Len(q) - i
      /\ \A j \in 1 .. Len(q) - i : b[j] = q[j + i]
  <2>1. \A j \in i + 1 .. Len(q) : q[j] \in S
    OBVIOUS
  <2>2. /\ b \in Seq(S) /\ Len(b) = IF i + 1 <= Len(q) THEN Len(q) - (i + 1) + 1 ELSE 0
        /\ \A j \in 1 .. Len(q) - (i + 1) + 1 : b[j] = q[(i + 1) + j - 1]
    BY <2>1, SubSeqProperties
  <2> QED BY <2>2
<1> HIDE DEF a, b
<1>3. /\ a \o b \in Seq(S) /\ Len(a \o b) = Len(a) + Len(b)
      /\ \A j \in 1 .. Len(a) + Len(b) : (a \o b)[j] = IF j <= Len(a) THEN a[j] ELSE b[j - Len(a)]
  BY <1>1, <1>2, ConcatProperties
<1>4. ASSUME NEW j \in 1 .. Len(q) - 1 PROVE \E k \in 1 .. Len(q) : (a \o b)[j] = q[k]
  <2>1. CASE j <= i - 1
    <3>1. (a \o b)[j] = q[j] /\ j \in 1 .. Len(q)
      BY <1>1, <1>2, <1>3, <2>1
    <3> QED BY <3>1
  <2>2. CASE ~(j <= i - 1)
    <3>1. (a \o b)[j] = b[j - (i - 1)] /\ j - (i - 1) \in 1 .. Len(q) - i
      BY <1>1, <1>2, <1>3, <2>2
    <3>2. b[j - (i - 1)] = q[j + 1] /\ j + 1 \in 1 .. Len(q)
      BY <1>2, <3>1
    <3> QED BY <3>1, <3>2
  <2> QED BY <2>1, <2>2
<1>5. RemoveAt(q, i) = a \o b
  BY DEF RemoveAt, a, b
<1>6. Len(a \o b) = Len(q) - 1 /\ DOMAIN (a \o b) = 1 .. Len(q) - 1
  BY <1>1, <1>2, <1>3
<1>7. \A j \in DOMAIN (a \o b) : \E k \in DOMAIN q : (a \o b)[j] = q[k]
  <2>1. DOMAIN q = 1 .. Len(q)
    OBVIOUS
  <2> QED BY <1>4, <1>6, <2>1
<1> QED BY <1>3, <1>5, <1>6, <1>7

\* A set of positions has a first one.
LEMMA FirstPosition ==
  ASSUME NEW I, I \subseteq Nat, I # {}
  PROVE  Min(I) \in I
<1> DEFINE R == {p \in Nat \X Nat : p[1] < p[2]}
<1>1. IsWellFoundedOn(R, Nat)
  BY NatLessThanWellFounded, Zenon DEF OpToRel
<1>2. PICK m \in I : \A k \in I : <<k, m>> \notin R
  <2> HIDE DEF R
  <2> QED BY <1>1, WFMin
<1>3. ASSUME NEW k \in I PROVE m <= k
  <2>1. k \in Nat /\ m \in Nat /\ <<k, m>> \notin R
    BY <1>2
  <2>2. k < m => <<k, m>> \in R
    BY <2>1
  <2> QED BY <2>1, <2>2
<1> QED BY <1>3 DEF Min

\* list.remove takes out an element like the given one.
LEMMA RemovedFirst ==
  ASSUME NEW S, NEW q \in Seq(S), NEW i \in 1 .. Len(q)
  PROVE  \E j \in 1 .. Len(q) : q[j] = q[i] /\ RemoveFirst(q, q[i]) = RemoveAt(q, j)
<1> DEFINE I == {j \in 1 .. Len(q) : q[j] = q[i]}
<1>1. I \subseteq Nat /\ I # {} /\ i \in I
  OBVIOUS
<1>2. Min(I) \in I
  <2> HIDE DEF I
  <2> QED BY <1>1, FirstPosition
<1>3. RemoveFirst(q, q[i]) = RemoveAt(q, Min(I))
  BY <1>1 DEF RemoveFirst, SelectInSeq
<1> QED BY <1>2, <1>3

\* A queue is a sequence of no more than MaxLen transforms.
LEMMA QueueIsSeq ==
  ASSUME NEW q
  PROVE  q \in Queues <=> q \in Seq(Transform) /\ Len(q) <= MaxLen
BY BoundedIsSeq, EditorsAssumption DEF Queues

\* The empty queue, nothing of which fails.
LEMMA EmptyQueue ==
  /\ <<>> \in Queues /\ <<>> \in BoundedSeq(Transform, MaxLen + 1) /\ AllFit(<<>>)
<1>1. <<>> \in Seq(Transform) /\ Len(<<>>) = 0 /\ DOMAIN <<>> = {}
  OBVIOUS
<1>2. MaxLen \in Nat /\ MaxLen + 1 \in Nat /\ 0 <= MaxLen /\ 0 <= MaxLen + 1
  BY EditorsAssumption
<1> QED BY <1>1, <1>2, QueueIsSeq, BoundedIsSeq DEF AllFit

\* Parameters of some form make a transform of any kind.
LEMMA WithParams ==
  ASSUME NEW t \in Transform, NEW u \in Transform
  PROVE  /\ [t EXCEPT !.params = u.params] \in Transform
         /\ [t EXCEPT !.params = u.params].name = t.name
         /\ [t EXCEPT !.params = u.params].params = u.params
BY DEF Transform

\* TransformQueue.update gives the transform edited in place the parameters of
\* the form, and leaves all others and every name.
LEMMA UpdatedQueue ==
  ASSUME NEW ts \in Seq(Transform), active \in Transform, inPlaceEdit \in Nat,
         inPlaceEdit <= Len(ts)
  PROVE  /\ Updated(ts) \in Seq(Transform) /\ Len(Updated(ts)) = Len(ts)
         /\ \A i \in DOMAIN ts :
              /\ Updated(ts)[i].name = ts[i].name
              /\ i # inPlaceEdit => Updated(ts)[i] = ts[i]
              /\ i = inPlaceEdit => Updated(ts)[i].params = active.params
<1>1. CASE inPlaceEdit = 0
  <2>1. Updated(ts) = ts
    BY <1>1 DEF Updated
  <2>2. 0 \notin DOMAIN ts
    OBVIOUS
  <2> QED BY <1>1, <2>1, <2>2
<1>2. CASE inPlaceEdit # 0
  <2> DEFINE e == inPlaceEdit
             t == [ts[e] EXCEPT !.params = active.params]
  <2>1. e \in 1 .. Len(ts) /\ ts[e] \in Transform
    BY <1>2
  <2>2. t \in Transform /\ t.name = ts[e].name /\ t.params = active.params
    BY <2>1, WithParams
  <2>3. Updated(ts) = [ts EXCEPT ![e] = t]
    BY <1>2 DEF Updated
  <2> HIDE DEF e, t
  <2>4. /\ Updated(ts) \in Seq(Transform) /\ Len(Updated(ts)) = Len(ts)
        /\ \A j \in 1 .. Len(ts) : Updated(ts)[j] = IF j = e THEN t ELSE ts[j]
    BY <2>1, <2>2, <2>3, ExceptSeq
  <2>5. DOMAIN ts = 1 .. Len(ts)
    OBVIOUS
  <2> QED BY <2>2, <2>4, <2>5 DEF e
<1> QED BY <1>1, <1>2

\* Exchanging two transforms.
LEMMA SwappedQueue ==
  ASSUME NEW ts \in Seq(Transform), NEW i \in DOMAIN ts, NEW j \in DOMAIN ts
  PROVE  /\ Swapped(ts, i, j) \in Seq(Transform) /\ Len(Swapped(ts, i, j)) = Len(ts)
         /\ DOMAIN Swapped(ts, i, j) = DOMAIN ts
         /\ \A k \in DOMAIN ts :
              Swapped(ts, i, j)[k] = IF k = j THEN ts[i] ELSE IF k = i THEN ts[j] ELSE ts[k]
<1> DEFINE a == [ts EXCEPT ![i] = ts[j]]
<1>1. DOMAIN ts = 1 .. Len(ts) /\ ts[i] \in Transform /\ ts[j] \in Transform
  OBVIOUS
<1>2. /\ a \in Seq(Transform) /\ Len(a) = Len(ts)
      /\ \A k \in 1 .. Len(ts) : a[k] = IF k = i THEN ts[j] ELSE ts[k]
  BY <1>1, ExceptSeq
<1>3. Swapped(ts, i, j) = [a EXCEPT ![j] = ts[i]]
  BY DEF Swapped
<1> HIDE DEF a
<1>4. /\ [a EXCEPT ![j] = ts[i]] \in Seq(Transform) /\ Len([a EXCEPT ![j] = ts[i]]) = Len(a)
      /\ \A k \in 1 .. Len(a) : [a EXCEPT ![j] = ts[i]][k] = IF k = j THEN ts[i] ELSE a[k]
  BY <1>1, <1>2, ExceptSeq
<1>5. DOMAIN [a EXCEPT ![j] = ts[i]] = 1 .. Len(ts)
  BY <1>2, <1>4
<1> QED BY <1>1, <1>2, <1>3, <1>4, <1>5

-----------------------------------------------------------------------------
(***************************************************************************)
(* What the handlers do to the queue.                                      *)
(***************************************************************************)
Inv == TypeOK /\ Displayed

\* What a handler has made of the queue when it has it drawn anew.
Handled(ts) ==
  \/ ts = transforms
  \/ Add /\ ts = Append(transforms, active)
  \/ \E i, j \in DOMAIN transforms :
       Delete(i) /\ transforms[j] = transforms[i] /\ ts = RemoveAt(transforms, j)
  \/ \E i, j \in DOMAIN transforms : ts = Swapped(transforms, i, j)
  \/ LoadMode /\ mode_file \notin {None, Torn} /\ ts = mode_file

Redraw == \E ts, listed \in Queues, include \in BOOLEAN :
            Handled(ts) /\ Refresh(ts, listed, include) /\ Editing

\* The handlers that change the queue, or have it drawn anew.
QueueAction ==
  \/ Add \/ Apply \/ LoadMode
  \/ \E i \in DOMAIN shown : Delete(i) \/ MoveUp(i) \/ MoveDown(i)

\* Each of them ends in Refresh, with the queue it has made.
LEMMA QueueActionRedraws == ASSUME TypeOK, QueueAction PROVE Redraw
<1>1. /\ transforms \in Seq(Transform) /\ Len(transforms) <= MaxLen
      /\ transforms \in Queues /\ shown \in Queues
      /\ active \in Transform /\ MaxLen \in Nat /\ DOMAIN transforms = 1 .. Len(transforms)
  BY QueueIsSeq, EditorsAssumption DEF TypeOK, Form
<1>2. CASE Add
  <2>1. Append(transforms, active) \in Queues
    <3>1. Len(transforms) + 1 <= MaxLen
      BY <1>1, <1>2 DEF Add
    <3>2. /\ Append(transforms, active) \in Seq(Transform)
          /\ Len(Append(transforms, active)) = Len(transforms) + 1
      BY <1>1, AppendProperties
    <3> QED BY <3>1, <3>2, QueueIsSeq
  <2>2. Refresh(Append(transforms, active), Append(transforms, active), FALSE) /\ Editing
    BY <1>2 DEF Add
  <2>3. Handled(Append(transforms, active)) /\ FALSE \in BOOLEAN
    BY <1>2 DEF Handled
  <2> QED BY <2>1, <2>2, <2>3, Zenon DEF Redraw
<1>3. CASE Apply
  BY <1>1, <1>3 DEF Apply, Redraw, Handled
<1>4. CASE LoadMode
  <2>1. /\ mode_file \in Queues /\ mode_file \notin {None, Torn}
        /\ Refresh(mode_file, shown, FALSE) /\ Editing
    BY <1>4 DEF LoadMode, TypeOK
  <2>2. Handled(mode_file) /\ FALSE \in BOOLEAN
    BY <1>4, <2>1 DEF Handled
  <2> QED BY <1>1, <2>1, <2>2, Zenon DEF Redraw
<1>5. ASSUME NEW i \in DOMAIN shown, Delete(i) PROVE Redraw
  <2>1. i \in 1 .. Len(transforms)
    BY <1>1, <1>5 DEF Delete
  <2>2. PICK j \in 1 .. Len(transforms) :
               /\ transforms[j] = transforms[i]
               /\ RemoveFirst(transforms, transforms[i]) = RemoveAt(transforms, j)
    BY <1>1, <2>1, RemovedFirst
  <2>3. RemoveAt(transforms, j) \in Queues
    BY <1>1, Removed, QueueIsSeq
  <2>4. Refresh(RemoveAt(transforms, j), RemoveAt(transforms, j), FALSE) /\ Editing
    BY <1>5, <2>2 DEF Delete
  <2>5. Handled(RemoveAt(transforms, j)) /\ FALSE \in BOOLEAN
    BY <1>1, <1>5, <2>1, <2>2 DEF Handled
  <2> QED BY <2>3, <2>4, <2>5, Zenon DEF Redraw
<1>6. ASSUME NEW i \in DOMAIN shown, NEW j \in DOMAIN transforms, i \in DOMAIN transforms,
             Refresh(Swapped(transforms, i, j), Swapped(transforms, i, j), FALSE), Editing
      PROVE  Redraw
  <2>1. Swapped(transforms, i, j) \in Queues
    BY <1>1, <1>6, SwappedQueue, QueueIsSeq
  <2> QED BY <1>6, <2>1 DEF Redraw, Handled
<1>7. CASE Refresh(transforms, transforms, FALSE) /\ Editing
  BY <1>1, <1>7 DEF Redraw, Handled
<1>8. ASSUME NEW i \in DOMAIN shown, MoveUp(i) PROVE Redraw
  <2>1. CASE i = 1
    BY <1>7, <1>8, <2>1 DEF MoveUp
  <2>2. CASE i # 1
    <3>1. i \in DOMAIN transforms /\ i - 1 \in DOMAIN transforms
      BY <1>1, <1>8, <2>2 DEF MoveUp
    <3> QED BY <1>6, <1>8, <2>2, <3>1 DEF MoveUp
  <2> QED BY <2>1, <2>2
<1>9. ASSUME NEW i \in DOMAIN shown, MoveDown(i) PROVE Redraw
  <2>1. CASE i = Len(transforms)
    BY <1>7, <1>9, <2>1 DEF MoveDown
  <2>2. CASE i # Len(transforms)
    <3>1. i \in DOMAIN transforms /\ i + 1 \in DOMAIN transforms
      BY <1>1, <1>9, <2>2 DEF MoveDown
    <3> QED BY <1>6, <1>9, <2>2, <3>1 DEF MoveDown
  <2> QED BY <2>1, <2>2
<1> QED BY <1>2, <1>3, <1>4, <1>5, <1>8, <1>9 DEF QueueAction

\* What drawing anew leaves in the queue: every transform with its name, and only
\* the one edited in place with other parameters, those of the form.
LEMMA RefreshedQueue ==
  ASSUME TypeOK, NEW ts \in Queues, NEW listed, NEW include, Refresh(ts, listed, include)
  PROVE  /\ transforms' \in Queues /\ DOMAIN transforms' = DOMAIN ts
         /\ \A i \in DOMAIN ts :
              /\ transforms'[i].name = ts[i].name
              /\ \/ transforms'[i] = ts[i]
                 \/ i = inPlaceEdit /\ transforms'[i].params = active.params
<1>1. /\ ts \in Seq(Transform) /\ Len(ts) <= MaxLen /\ DOMAIN ts = 1 .. Len(ts)
      /\ active \in Transform /\ inPlaceEdit \in Nat
  BY QueueIsSeq, EditorsAssumption DEF TypeOK, Form
<1>2. CASE inPlaceEdit > Len(ts)
  BY <1>2 DEF Refresh
<1>3. CASE inPlaceEdit <= Len(ts)
  <2>1. transforms' = Updated(ts)
    BY <1>1, <1>3 DEF Refresh
  <2>2. /\ Updated(ts) \in Seq(Transform) /\ Len(Updated(ts)) = Len(ts)
        /\ \A i \in DOMAIN ts :
              /\ Updated(ts)[i].name = ts[i].name
              /\ i # inPlaceEdit => Updated(ts)[i] = ts[i]
              /\ i = inPlaceEdit => Updated(ts)[i].params = active.params
    BY <1>1, <1>3, UpdatedQueue
  <2>3. Updated(ts) \in Queues /\ DOMAIN Updated(ts) = DOMAIN ts
    BY <1>1, <2>2, QueueIsSeq
  <2> QED BY <2>1, <2>2, <2>3
<1> QED BY <1>1, <1>2, <1>3

\* Drawing anew keeps the types, and list and curve with the queue.
LEMMA RefreshInv ==
  ASSUME Inv, NEW ts \in Queues, NEW listed \in Queues, NEW include \in BOOLEAN,
         Refresh(ts, listed, include), Editing
  PROVE  Inv'
<1>1. /\ ts \in Seq(Transform) /\ Len(ts) <= MaxLen /\ MaxLen \in Nat
      /\ active \in Transform /\ active \in Form /\ Fits(active) /\ inPlaceEdit \in 0 .. MaxLen
  BY QueueIsSeq, EditorsAssumption DEF Inv, TypeOK, Form
<1>2. transforms' \in Queues
  BY RefreshedQueue DEF Inv
<1>3. UNCHANGED <<active, mode_file, saving, wave_file, play_db, db_name>> /\ ~saving
  BY DEF Editing, files, menu
<1>4. CASE inPlaceEdit > Len(ts)
  <2>1. shown' = listed /\ UNCHANGED <<inPlaceEdit, curve>> /\ inPlaceEdit # 0
    BY <1>1, <1>4 DEF Refresh
  <2> QED BY <1>2, <1>3, <2>1 DEF Inv, TypeOK, AllFit, Fits, Displayed
<1>5. CASE inPlaceEdit <= Len(ts)
  <2>1. transforms' = Updated(ts) /\ shown' = Updated(ts)
    BY <1>1, <1>5 DEF Refresh
  <2>2. CASE ~AllFit(Updated(ts))
    <3>1. UNCHANGED <<inPlaceEdit, curve>>
      BY <1>1, <1>5, <2>2 DEF Refresh
    <3>2. ~AllFit(transforms')
      BY <2>1, <2>2
    <3> QED BY <1>2, <1>3, <2>1, <3>1, <3>2 DEF Inv, TypeOK, AllFit, Fits, Displayed
  <2>3. CASE AllFit(Updated(ts))
    <3>1. /\ inPlaceEdit' = 0
          /\ curve' = Updated(ts) \o (IF include /\ inPlaceEdit = 0 THEN <<active>> ELSE <<>>)
      BY <1>1, <1>5, <2>3 DEF Refresh
    <3>2. transforms' \in Seq(Transform) /\ Len(transforms') <= MaxLen
      BY <1>2, QueueIsSeq
    <3>3. curve' = transforms' \/ curve' = Append(transforms', active)
      <4>1. transforms' \o <<>> = transforms'
        BY <3>2, ConcatEmptySeq
      <4>2. transforms' \o <<active>> = Append(transforms', active)
        BY <1>1, <3>2, AppendIsConcat
      <4> QED BY <2>1, <3>1, <4>1, <4>2
    <3>4. /\ curve' \in Seq(Transform) /\ Len(curve') <= MaxLen + 1 /\ AllFit(curve')
      <4>1. CASE curve' = transforms'
        BY <1>1, <2>1, <2>3, <3>2, <4>1
      <4>2. CASE curve' = Append(transforms', active)
        <5>1. /\ Append(transforms', active) \in Seq(Transform)
              /\ Len(Append(transforms', active)) = Len(transforms') + 1
              /\ \A i \in 1 .. Len(transforms') : Append(transforms', active)[i] = transforms'[i]
              /\ Append(transforms', active)[Len(transforms') + 1] = active
          BY <1>1, <3>2, AppendProperties
        <5>2. \A i \in 1 .. Len(transforms') : Fits(transforms'[i])
          BY <2>1, <2>3, <3>2 DEF AllFit
        <5>3. ASSUME NEW i \in 1 .. Len(transforms') + 1
              PROVE  Fits(Append(transforms', active)[i])
          <6>1. CASE i = Len(transforms') + 1
            BY <1>1, <5>1, <6>1
          <6>2. CASE i # Len(transforms') + 1
            <7>1. i \in 1 .. Len(transforms')
              BY <3>2, <6>2
            <7> QED BY <5>1, <5>2, <7>1
          <6> QED BY <6>1, <6>2
        <5>4. DOMAIN Append(transforms', active) = 1 .. Len(transforms') + 1
          BY <3>2, <5>1
        <5>5. AllFit(Append(transforms', active))
          BY <5>3, <5>4 DEF AllFit
        <5> QED BY <1>1, <3>2, <4>2, <5>1, <5>5
      <4> QED BY <3>3, <4>1, <4>2
    <3>5. curve' \in BoundedSeq(Transform, MaxLen + 1)
      BY <1>1, <3>4, BoundedIsSeq
    <3>6. TypeOK'
      BY <1>1, <1>2, <1>3, <2>1, <3>1, <3>4, <3>5 DEF Inv, TypeOK, AllFit, Fits
    <3>7. Displayed'
      BY <1>1, <1>3, <2>1, <3>3 DEF Inv, Displayed
    <3> QED BY <3>6, <3>7 DEF Inv
  <2> QED BY <2>2, <2>3
<1> QED BY <1>1, <1>4, <1>5

\* Every step.
LEMMA NextEditors == ASSUME Inv, [Next]_vars PROVE Inv'
<1>1. CASE QueueAction
  BY <1>1, QueueActionRedraws, RefreshInv DEF Redraw, Inv
<1>2. ASSUME NEW t \in Form, SetActive(t) PROVE Inv'
  BY <1>2 DEF SetActive, queue, files, menu, Inv, TypeOK, AllFit, Fits, Displayed
<1>3. ASSUME NEW i \in DOMAIN shown, DoubleClick(i) PROVE Inv'
  <2>1. i \in 1 .. MaxLen /\ i # 0
    <3>1. shown \in Seq(Transform) /\ Len(shown) <= MaxLen
      BY QueueIsSeq DEF Inv, TypeOK
    <3> QED BY <3>1, EditorsAssumption
  <2>2. active' \in Form
    <3>1. i \in DOMAIN transforms => transforms[i] \in Transform
      BY QueueIsSeq DEF Inv, TypeOK
    <3>2. active \in Form
      BY DEF Inv, TypeOK
    <3> QED BY <1>3, <3>1, <3>2 DEF DoubleClick, Form
  <2> QED BY <1>3, <2>1, <2>2 DEF DoubleClick, files, menu, Inv, TypeOK, AllFit, Fits, Displayed
<1>4. CASE SaveMode \/ SaveModeDone \/ SaveWaves
  <2>1. UNCHANGED <<transforms, shown, inPlaceEdit, curve, active, play_db, db_name>>
    BY <1>4 DEF SaveMode, SaveModeDone, SaveWaves, queue, menu
  <2>2. AllFit(curve')
    BY <2>1 DEF Inv, TypeOK
  <2>3. TypeOK'
    <3>1. CASE SaveMode
      BY <2>1, <2>2, <3>1 DEF SaveMode, Inv, TypeOK
    <3>2. CASE SaveModeDone
      BY <2>1, <2>2, <3>2 DEF SaveModeDone, Inv, TypeOK
    <3>3. CASE SaveWaves
      BY <2>1, <2>2, <3>3 DEF SaveWaves, Inv, TypeOK
    <3> QED BY <1>4, <3>1, <3>2, <3>3
  <2>4. Displayed'
    BY <2>1 DEF Inv, Displayed, AllFit, Fits
  <2> QED BY <2>3, <2>4 DEF Inv
<1>5. CASE LoadWaves
  <2>1. play_db' # {} /\ db_name' \in play_db'
    BY <1>5, EditorsAssumption DEF LoadWaves, Inv, TypeOK
  <2> QED BY <1>5, <2>1 DEF LoadWaves, queue, files, Inv, TypeOK, AllFit, Fits, Displayed
<1>6. CASE Restart
  <2>1. TypeOK'
    <3>1. 0 \in 0 .. MaxLen
      BY EditorsAssumption
    <3>2. /\ transforms' \in Queues /\ shown' \in Queues
          /\ curve' \in BoundedSeq(Transform, MaxLen + 1) /\ AllFit(curve')
      BY <1>6, EmptyQueue DEF Restart
    <3> QED BY <1>6, <3>1, <3>2 DEF Restart, Inv, TypeOK
  <2>2. Displayed'
    BY <1>6, EditorsAssumption DEF Restart, Displayed
  <2> QED BY <2>1, <2>2 DEF Inv
<1>7. CASE UNCHANGED vars
  BY <1>7 DEF vars, queue, files, menu, Inv, TypeOK, AllFit, Fits, Displayed
<1> QED BY <1>1, <1>2, <1>3, <1>4, <1>5, <1>6, <1>7 DEF Next, QueueAction

\* The window opens with an empty queue and shows it.
LEMMA InitEditors == Init => Inv
<1> SUFFICES ASSUME Init PROVE Inv
  OBVIOUS
<1>1. TypeOK
  <2>1. 0 \in 0 .. MaxLen
    BY EditorsAssumption
  <2>2. /\ transforms \in Queues /\ shown \in Queues
        /\ curve \in BoundedSeq(Transform, MaxLen + 1) /\ AllFit(curve)
    BY EmptyQueue DEF Init
  <2> QED BY <2>1, <2>2 DEF Init, TypeOK
<1>2. Displayed
  BY EditorsAssumption DEF Init, Displayed
<1> QED BY <1>1, <1>2 DEF Inv

\* The types hold, and the window shows the queue, in every behaviour.
LEMMA EditorsInvariant == Spec => []Inv
BY InitEditors, NextEditors, PTL DEF Spec

-----------------------------------------------------------------------------
(***************************************************************************)
(* What a step makes of a queue that can be computed.                      *)
(***************************************************************************)
\* Steps that do not draw anew leave the queue, but for a restart, which empties it.
LEMMA QueueStays ==
  ASSUME [Next]_vars, ~QueueAction
  PROVE  transforms' = transforms \/ (Restart /\ transforms' = <<>>)
<1>1. CASE \E t \in Form : SetActive(t)
  BY <1>1 DEF SetActive, queue
<1>2. CASE \E i \in DOMAIN shown : DoubleClick(i)
  BY <1>2 DEF DoubleClick
<1>3. CASE SaveMode \/ SaveModeDone \/ SaveWaves \/ LoadWaves
  BY <1>3 DEF SaveMode, SaveModeDone, SaveWaves, LoadWaves, queue
<1>4. CASE Restart \/ UNCHANGED vars
  BY <1>4 DEF Restart, vars, queue
<1> QED BY <1>1, <1>2, <1>3, <1>4 DEF Next, QueueAction

\* Adding, deleting and moving keep a queue one that can be computed.
LEMMA HandledFits ==
  ASSUME TypeOK, AllFit(transforms), NEW ts, Handled(ts)
  PROVE  AllFit(ts) \/ (mode_file \notin {None, Torn} /\ ts = mode_file)
<1>1. /\ transforms \in Seq(Transform) /\ DOMAIN transforms = 1 .. Len(transforms)
      /\ active \in Transform /\ Fits(active)
      /\ \A i \in DOMAIN transforms : Fits(transforms[i])
  BY QueueIsSeq DEF TypeOK, Form, AllFit
<1>2. CASE ts = Append(transforms, active)
  <2>1. /\ DOMAIN ts = 1 .. Len(transforms) + 1
        /\ \A i \in 1 .. Len(transforms) : ts[i] = transforms[i]
        /\ ts[Len(transforms) + 1] = active
    BY <1>1, <1>2
  <2>2. ASSUME NEW i \in DOMAIN ts PROVE Fits(ts[i])
    <3>1. i = Len(transforms) + 1 \/ i \in 1 .. Len(transforms)
      BY <1>1, <2>1
    <3> QED BY <1>1, <2>1, <3>1
  <2> QED BY <2>2 DEF AllFit
<1>3. ASSUME NEW i \in DOMAIN transforms, ts = RemoveAt(transforms, i) PROVE AllFit(ts)
  <2>1. i \in 1 .. Len(transforms)
    BY <1>1
  <2>2. \A j \in DOMAIN ts : \E k \in DOMAIN transforms : ts[j] = transforms[k]
    <3>1. \A j \in DOMAIN RemoveAt(transforms, i) :
            \E k \in DOMAIN transforms : RemoveAt(transforms, i)[j] = transforms[k]
      <4>1. transforms \in Seq(Transform)
        BY <1>1
      <4> QED BY <2>1, <4>1, Removed
    <3> QED BY <1>3, <3>1
  <2> QED BY <1>1, <2>2 DEF AllFit
<1>4. ASSUME NEW i \in DOMAIN transforms, NEW j \in DOMAIN transforms,
             ts = Swapped(transforms, i, j)
      PROVE  AllFit(ts)
  <2>1. /\ DOMAIN ts = DOMAIN transforms
        /\ \A k \in DOMAIN transforms :
             ts[k] = IF k = j THEN transforms[i] ELSE IF k = i THEN transforms[j] ELSE transforms[k]
    <3>1. transforms \in Seq(Transform)
      BY <1>1
    <3>2. /\ DOMAIN Swapped(transforms, i, j) = DOMAIN transforms
          /\ \A k \in DOMAIN transforms : Swapped(transforms, i, j)[k] =
               IF k = j THEN transforms[i] ELSE IF k = i THEN transforms[j] ELSE transforms[k]
      BY <1>4, <3>1, SwappedQueue
    <3> QED BY <1>4, <3>2
  <2> QED BY <1>1, <2>1 DEF AllFit
<1> QED BY <1>2, <1>3, <1>4 DEF Handled

\* A queue that can be computed is spoilt by nothing but a form of another kind.
LEMMA SpoiltStep ==
  ASSUME Inv, [Next]_vars, AllFit(transforms), ~AllFit(transforms')
  PROVE  \/ /\ inPlaceEdit \in DOMAIN transforms'
            /\ transforms'[inPlaceEdit].name # active.name
         \/ mode_file \notin {None, Torn} /\ ~AllFit(mode_file)
<1>1. Redraw
  <2>1. QueueAction
    BY QueueStays, EmptyQueue
  <2> QED BY <2>1, QueueActionRedraws DEF Inv
<1>2. PICK ts \in Queues, listed \in Queues, include \in BOOLEAN :
             Handled(ts) /\ Refresh(ts, listed, include)
  BY <1>1 DEF Redraw
<1>3. CASE AllFit(ts)
  <2>1. /\ DOMAIN transforms' = DOMAIN ts
        /\ \A i \in DOMAIN ts :
             /\ transforms'[i].name = ts[i].name
             /\ \/ transforms'[i] = ts[i]
                \/ i = inPlaceEdit /\ transforms'[i].params = active.params
    BY <1>2, RefreshedQueue DEF Inv
  <2>2. PICK i \in DOMAIN ts : ~Fits(transforms'[i])
    BY <2>1 DEF AllFit
  <2>3. i = inPlaceEdit /\ transforms'[i].params = active.params
    BY <1>3, <2>1, <2>2 DEF AllFit
  <2>4. active.params \in ParamsOf[active.name]
    BY DEF Inv, TypeOK, Form, Fits
  <2> QED BY <2>1, <2>2, <2>3, <2>4 DEF Fits
<1>4. CASE mode_file \notin {None, Torn} /\ ts = mode_file
  BY <1>3, <1>4
<1> QED BY <1>2, <1>3, <1>4, HandledFits DEF Inv

-----------------------------------------------------------------------------
(***************************************************************************)
(* Which names the queue holds, and how often.                             *)
(***************************************************************************)
\* The n elements of t are those of s with the i-th and the j-th exchanged.
Exchanged(s, t, n, i, j) ==
  /\ n \in Nat /\ i \in 1 .. n /\ j \in 1 .. n
  /\ DOMAIN s = 1 .. n /\ DOMAIN t = 1 .. n
  /\ \A k \in 1 .. n : t[k] = IF k = j THEN s[i] ELSE IF k = i THEN s[j] ELSE s[k]

\* Exchanging two elements leaves how often each occurs.
LEMMA SwapKeepsBag ==
  ASSUME NEW s, NEW t, NEW n, NEW i, NEW j, Exchanged(s, t, n, i, j)
  PROVE  ToBag(t) = ToBag(s)
<1> USE DEF Exchanged
<1> DEFINE At(q, x) == {k \in DOMAIN q : q[k] = x}
           g(k) == IF k = i THEN j ELSE IF k = j THEN i ELSE k
<1>1. Range(t) = Range(s)
  <2>1. ASSUME NEW k \in 1 .. n PROVE g(k) \in 1 .. n /\ t[k] = s[g(k)] /\ s[k] = t[g(k)]
    OBVIOUS
  <2> QED BY <2>1 DEF Range
<1>2. ASSUME NEW x PROVE Cardinality(At(t, x)) = Cardinality(At(s, x))
  <2> DEFINE S == At(s, x)
             T == At(t, x)
             f == [k \in S |-> g(k)]
  <2>1. IsFiniteSet(S)
    <3>1. IsFiniteSet(1 .. n) /\ S \subseteq 1 .. n
      BY FS_Interval
    <3> QED BY <3>1, FS_Subset
  <2>2. \A k \in S : g(k) \in T
    OBVIOUS
  <2>3. \A k \in T : g(k) \in S /\ g(g(k)) = k
    OBVIOUS
  <2>4. \A k, l \in S : g(k) = g(l) => k = l
    OBVIOUS
  <2> HIDE DEF S, T, g
  <2>5. f \in [S -> T]
    BY <2>2
  <2>6. f \in Bijection(S, T)
    <3>1. IsInjective(f)
      BY <2>4 DEF IsInjective
    <3>2. \A l \in T : \E k \in S : f[k] = l
      BY <2>3
    <3> QED BY <2>5, <3>1, <3>2 DEF Bijection, Injection, Surjection
  <2>7. ExistsBijection(S, T)
    BY <2>6 DEF ExistsBijection
  <2>8. Cardinality(T) = Cardinality(S)
    BY <2>1, <2>7, FS_Bijection
  <2> QED BY <2>8 DEF S, T
<1> HIDE DEF At
<1>3. /\ ToBag(s) = [x \in Range(s) |-> Cardinality(At(s, x))]
      /\ ToBag(t) = [x \in Range(t) |-> Cardinality(At(t, x))]
  BY DEF ToBag, At
<1> QED BY <1>1, <1>2, <1>3

\* Moving a transform keeps the names.
LEMMA SwapKeepsNames ==
  ASSUME NEW ts \in Seq(Transform), NEW i \in DOMAIN ts, NEW j \in DOMAIN ts
  PROVE  Names(Swapped(ts, i, j)) = Names(ts)
<1> DEFINE u == Swapped(ts, i, j)
           s == [k \in DOMAIN ts |-> ts[k].name]
           t == [k \in DOMAIN u |-> u[k].name]
<1>1. /\ DOMAIN ts = 1 .. Len(ts) /\ DOMAIN u = 1 .. Len(ts) /\ Len(ts) \in Nat
      /\ \A k \in 1 .. Len(ts) :
           u[k] = IF k = j THEN ts[i] ELSE IF k = i THEN ts[j] ELSE ts[k]
      /\ i \in 1 .. Len(ts) /\ j \in 1 .. Len(ts)
  <2>1. DOMAIN ts = 1 .. Len(ts) /\ Len(ts) \in Nat
    OBVIOUS
  <2>2. /\ DOMAIN u = DOMAIN ts
        /\ \A k \in DOMAIN ts :
             u[k] = IF k = j THEN ts[i] ELSE IF k = i THEN ts[j] ELSE ts[k]
    BY SwappedQueue
  <2> HIDE DEF u
  <2> QED BY <2>1, <2>2
<1> HIDE DEF u
<1>2. /\ DOMAIN s = 1 .. Len(ts) /\ DOMAIN t = 1 .. Len(ts)
      /\ \A k \in 1 .. Len(ts) :
           t[k] = IF k = j THEN s[i] ELSE IF k = i THEN s[j] ELSE s[k]
  BY <1>1
<1> HIDE DEF s, t
<1>3. ToBag(t) = ToBag(s)
  <2>1. Exchanged(s, t, Len(ts), i, j)
    BY <1>1, <1>2 DEF Exchanged
  <2> QED BY <2>1, SwapKeepsBag
<1> QED BY <1>3 DEF Names, s, t, u

\* Every step keeps the names, but for what is added, deleted or loaded.
LEMMA NamesStep ==
  ASSUME Inv, [Next]_vars
  PROVE  \/ Names(transforms') = Names(transforms)
         \/ Add /\ Names(transforms') = Names(Append(transforms, active))
         \/ \E i, j \in DOMAIN transforms :
              /\ Delete(i) /\ transforms[j] = transforms[i]
              /\ Names(transforms') = Names(RemoveAt(transforms, j))
         \/ LoadMode /\ mode_file \notin {None, Torn} /\ Names(transforms') = Names(mode_file)
         \/ Restart /\ Names(transforms') = EmptyBag
<1>1. CASE ~QueueAction
  <2>1. Names(<<>>) = EmptyBag
    BY DEF Names, ToBag, Range, EmptyBag, SetToBag
  <2> QED BY <1>1, <2>1, QueueStays
<1>2. CASE QueueAction
  <2>1. PICK ts \in Queues, listed \in Queues, include \in BOOLEAN :
               Handled(ts) /\ Refresh(ts, listed, include)
    BY <1>2, QueueActionRedraws DEF Redraw, Inv
  <2>2. /\ DOMAIN transforms' = DOMAIN ts
        /\ \A i \in DOMAIN ts : transforms'[i].name = ts[i].name
    BY <2>1, RefreshedQueue DEF Inv
  <2>3. Names(transforms') = Names(ts)
    <3>1. [i \in DOMAIN transforms' |-> transforms'[i].name] = [i \in DOMAIN ts |-> ts[i].name]
      BY <2>2
    <3> QED BY <3>1 DEF Names
  <2>4. ASSUME NEW i \in DOMAIN transforms, NEW j \in DOMAIN transforms,
               ts = Swapped(transforms, i, j)
        PROVE  Names(ts) = Names(transforms)
    BY <2>4, SwapKeepsNames, QueueIsSeq DEF Inv, TypeOK
  <2>5. CASE ts = transforms \/ \E i, j \in DOMAIN transforms : ts = Swapped(transforms, i, j)
    BY <2>3, <2>4, <2>5
  <2>6. CASE \/ Add /\ ts = Append(transforms, active)
             \/ LoadMode /\ mode_file \notin {None, Torn} /\ ts = mode_file
    BY <2>3, <2>6
  <2>7. CASE \E i, j \in DOMAIN transforms :
               Delete(i) /\ transforms[j] = transforms[i] /\ ts = RemoveAt(transforms, j)
    BY <2>3, <2>7
  <2> QED BY <2>1, <2>5, <2>6, <2>7 DEF Handled
<1> QED BY <1>1, <1>2

-----------------------------------------------------------------------------
(***************************************************************************)
(* The theorems.                                                           *)
(***************************************************************************)
\* The variables keep their types: no handler leaves the queue or the forms with
\* something that is no transform, and what is drawn could be computed.
THEOREM EditorsTypeCorrect == Spec => []TypeOK
BY EditorsInvariant, PTL DEF Inv

\* Beside an edit in place the list and the curve show the queue, and the menu a
\* family that can be played, whatever was edited, loaded or could not be read.
THEOREM ShownIsTheQueue == Spec => []Displayed
BY EditorsInvariant, PTL DEF Inv

\* A queue that could be computed is made one that cannot only by a form of another
\* kind that was enabled during an edit in place, or by a file saved so.
THEOREM OnlyFormsSpoil == Spec => SpoiltByForm
<1>1. Inv /\ [Next]_vars =>
        [AllFit(transforms) /\ ~AllFit(transforms') =>
           \/ /\ inPlaceEdit \in DOMAIN transforms'
              /\ transforms'[inPlaceEdit].name # active.name
           \/ mode_file \notin {None, Torn} /\ ~AllFit(mode_file)]_vars
  BY SpoiltStep
<1> QED BY <1>1, EditorsInvariant, PTL DEF Spec, SpoiltByForm

\* No handler changes what kinds of transforms there are, but adding, deleting one
\* like the selected, loading a whole file, and a restart.
THEOREM KindsKept == Spec => NamesKept
<1>1. Inv /\ [Next]_vars =>
        [LET now == Names(transforms')
         IN \/ now = Names(transforms)
            \/ Add /\ now = Names(Append(transforms, active))
            \/ \E i, j \in DOMAIN transforms :
                 /\ Delete(i) /\ transforms[j] = transforms[i]
                 /\ now = Names(RemoveAt(transforms, j))
            \/ LoadMode /\ mode_file \notin {None, Torn} /\ now = Names(mode_file)
            \/ Restart /\ now = EmptyBag]_vars
  BY NamesStep
<1> QED BY <1>1, EditorsInvariant, PTL DEF Spec, NamesKept
=============================================================================
