----------------------------- MODULE FlashProofs -----------------------------
(***************************************************************************)
(* The invariants of FlashStore, and that it implements ParamStore, for    *)
(* any number of pages, of writes and of parameters.                       *)
(***************************************************************************)
EXTENDS FlashStore, TLAPS

\* What the numbers and the pages are at each step of a store.
Stage ==
  /\ pc \notin {"boot", "idle"} => flash_page_idx \in 0 .. MaxPage
  /\ pc \in {"compare", "erase_page", "write_page"} => idx_page = flash_page_idx
  /\ pc = "write_index" => idx_page = Erased
  /\ pc \in {"erase_index", "write_index"} => flash_write_cnt = 0
  /\ pc = "compare" /\ first_store => flash_write_cnt = 0
  /\ pc \in {"erase_page", "write_page"} => flash_write_cnt \in 0 .. MaxWrites

\* The current page's counter keeps up with its erasures, unless none took place.
PageWear ==
  pc # "write_page" /\ idx_page \in 0 .. MaxPage =>
    \/ wear = 0
    \/ pages[idx_page].cnt \in 0 .. MaxWrites /\ wear <= pages[idx_page].cnt + 1

\* What a reset would load at each step of a store.
InStore ==
  pc \notin {"boot", "idle"} /\ ~IndexAhead =>
    IF pc = "write_page" THEN Recovered = Blank ELSE Recovered \in {old, Default}

\* Without an index nothing has been erased yet, except between the erasing and
\* the writing of the index of a store that goes on to the next page.
IndexWear ==
  /\ idx_page = Erased /\ (pc = "write_index" => first_store) => wear = 0
  /\ pc \in {"erase_index", "write_index", "compare"} /\ first_store => wear = 0

\* The counter that is about to be written keeps up with the erasures.
CountWear ==
  /\ pc = "erase_page" => wear <= flash_write_cnt
  /\ pc = "write_page" => wear <= flash_write_cnt + 1

Wear == ~cut => PageWear /\ IndexWear /\ CountWear /\ wear <= MaxWrites + 1

FlashInv == TypeOK /\ Stage /\ InStore /\ ResetOutcome /\ Wear

-----------------------------------------------------------------------------
\* An erased number is no page's and no counter's.
LEMMA ErasedNumber == Erased \in Nat /\ MaxPage < Erased /\ MaxWrites < Erased
BY FlashAssumption DEF Erased

\* The counter counts, and wraps when the page was erased.
LEMMA CountedValue ==
  /\ \A n \in 0 .. MaxWrites : Counted(n) = n + 1
  /\ Counted(Erased) = 0
<1>1. \A n \in Nat : n < Word => n % Word = n
  BY FlashAssumption, SMTT(30)
<1>2. Word % Word = 0
  BY FlashAssumption, SMTT(30)
<1> QED
  BY <1>1, <1>2, FlashAssumption DEF Counted, Erased

\* A boot finds parameters, an erased page or a torn one.
LEMMA RecoveredType == TypeOK => Recovered \in Values
BY FlashAssumption, ErasedNumber DEF TypeOK, Recovered, Values

\* The initial states satisfy the invariant.
LEMMA InitFlash == Init => FlashInv
<1> SUFFICES ASSUME Init PROVE FlashInv
  OBVIOUS
<1>1. TypeOK
  <2>1. Blank \in Values /\ Default \in Values
    BY FlashAssumption DEF Values
  <2>2. pages \in [0 .. MaxPage -> [cnt : 0 .. MaxWrites \cup {Erased}, params : Values]]
    BY <2>1 DEF Init
  <2>3. cut \in BOOLEAN /\ first_store \in BOOLEAN
    BY Zenon DEF Init
  <2>4. 0 \in 0 .. MaxPage /\ 0 \in 0 .. MaxWrites /\ 0 \in 0 .. MaxWrites + 2
    BY FlashAssumption
  <2> QED
    BY <2>1, <2>2, <2>3, <2>4 DEF Init, TypeOK
<1>2. Stage /\ InStore /\ ResetOutcome /\ Wear
  BY FlashAssumption, ErasedNumber
     DEF Init, Stage, InStore, ResetOutcome, Wear, PageWear, IndexWear, CountWear
<1> QED
  BY <1>1, <1>2 DEF FlashInv

\* The types are preserved.
LEMMA StepType == TypeOK /\ Stage /\ [Next]_vars => TypeOK'
<1> SUFFICES ASSUME TypeOK, Stage, [Next]_vars
             PROVE  TypeOK'
  OBVIOUS
<1> USE FlashAssumption, ErasedNumber
<1>1. CASE Load
  BY <1>1, RecoveredType DEF Load, TypeOK, flash
<1>2. ASSUME NEW p \in Params, Change(p)
      PROVE  TypeOK'
  BY <1>2 DEF Change, TypeOK, Values, flash, ram, ghost
<1>3. CASE Clear
  BY <1>3 DEF Clear, TypeOK, ram
<1>4. CASE Store
  BY <1>4, RecoveredType DEF Store, TypeOK, flash
<1>5. CASE EraseIndex
  BY <1>5 DEF EraseIndex, TypeOK, ram, ghost
<1>6. CASE WriteIndex
  <2>1. cut' \in BOOLEAN
    <3>1. cut \in BOOLEAN /\ (cut' = cut \/ cut' = FALSE)
      BY <1>6 DEF WriteIndex, TypeOK
    <3> QED
      BY <3>1
  <2>2. wear' \in 0 .. MaxWrites + 2
    BY <1>6 DEF WriteIndex, TypeOK
  <2>3. pc' \in {"compare", "erase_page"}
    BY <1>6 DEF WriteIndex
  <2> QED
    BY <1>6, <2>1, <2>2, <2>3 DEF WriteIndex, TypeOK, ram
<1>7. CASE Compare
  <2>1. \A n \in 0 .. MaxWrites \cup {Erased} : Counted(n) \in Nat
    BY CountedValue
  <2>2. flash_page_idx \in 0 .. MaxPage /\ NextPage(flash_page_idx) \in 0 .. MaxPage
    BY <1>7 DEF Compare, Stage, NextPage
  <2>3. pages[flash_page_idx].cnt \in 0 .. MaxWrites \cup {Erased}
    BY <2>2 DEF TypeOK
  <2> QED
    BY <1>7, <2>1, <2>2, <2>3 DEF Compare, TypeOK, flash, ghost
<1>8. CASE ErasePage
  BY <1>8 DEF ErasePage, TypeOK, Values, Stage, ram
<1>9. CASE WritePage
  BY <1>9 DEF WritePage, TypeOK, Stage, ram, ghost
<1>10. ASSUME NEW torn \in BOOLEAN, Reset(torn)
       PROVE  TypeOK'
  <2>1. pages' \in [0 .. MaxPage -> [cnt : 0 .. MaxWrites \cup {Erased}, params : Values]]
    BY <1>10 DEF Reset, TypeOK, Values, Stage
  <2>2. cut' \in BOOLEAN /\ first_store' \in BOOLEAN
    BY <1>10, Zenon DEF Reset
  <2>3. /\ UNCHANGED <<idx_page, old, wear>> /\ pc' = "boot" /\ live' = Default
        /\ struck' \in {"no", "early", "ahead", "page"}
        /\ flash_page_idx' = 0 /\ flash_write_cnt' = 0
    BY <1>10 DEF Reset
  <2>4. Default \in Values /\ 0 \in 0 .. MaxPage /\ 0 \in 0 .. MaxWrites
    BY DEF Values
  <2> QED
    BY <2>1, <2>2, <2>3, <2>4 DEF TypeOK
<1>11. CASE UNCHANGED vars
  BY <1>11 DEF vars, flash, ram, ghost, TypeOK
<1> QED
  BY <1>1, <1>2, <1>3, <1>4, <1>5, <1>6, <1>7, <1>8, <1>9, <1>10, <1>11 DEF Next

\* The facts about each step of a store are preserved.
LEMMA StepStage == TypeOK /\ Stage /\ [Next]_vars => Stage'
<1> SUFFICES ASSUME TypeOK, Stage, [Next]_vars
             PROVE  Stage'
  OBVIOUS
<1> USE FlashAssumption, ErasedNumber
<1>1. CASE Load
  BY <1>1 DEF Load, Stage
<1>2. ASSUME NEW p \in Params, Change(p)
      PROVE  Stage'
  BY <1>2 DEF Change, Stage
<1>3. CASE Clear
  BY <1>3 DEF Clear, Stage
<1>4. CASE Store
  <2>1. CASE idx_page > MaxPage
    BY <1>4, <2>1 DEF Store, Stage
  <2>2. CASE ~(idx_page > MaxPage)
    <3>1. ~first_store'
      BY <1>4, <2>2, Zenon DEF Store
    <3>2. idx_page \in 0 .. MaxPage
      BY <2>2 DEF TypeOK
    <3>3. /\ pc' = "compare" /\ idx_page' = idx_page /\ flash_page_idx' = idx_page
      BY <1>4, <2>2 DEF Store, flash
    <3> QED
      BY <3>1, <3>2, <3>3 DEF Stage
  <2> QED
    BY <2>1, <2>2
<1>5. CASE EraseIndex
  BY <1>5 DEF EraseIndex, Stage, ram
<1>6. CASE WriteIndex
  BY <1>6 DEF WriteIndex, Stage, ram
<1>7. CASE Compare
  <2>1. \A n \in 0 .. MaxWrites \cup {Erased} : Counted(n) \in Nat
    BY CountedValue
  <2>2. flash_page_idx \in 0 .. MaxPage /\ NextPage(flash_page_idx) \in 0 .. MaxPage
    BY <1>7 DEF Compare, Stage, NextPage
  <2>3. pages[flash_page_idx].cnt \in 0 .. MaxWrites \cup {Erased}
    BY <2>2 DEF TypeOK
  <2> QED
    BY <1>7, <2>1, <2>2, <2>3 DEF Compare, Stage, TypeOK, flash
<1>8. CASE ErasePage
  BY <1>8 DEF ErasePage, Stage, ram
<1>9. CASE WritePage
  BY <1>9 DEF WritePage, Stage
<1>10. ASSUME NEW torn \in BOOLEAN, Reset(torn)
       PROVE  Stage'
  BY <1>10 DEF Reset, Stage
<1>11. CASE UNCHANGED vars
  BY <1>11 DEF vars, flash, ram, Stage
<1> QED
  BY <1>1, <1>2, <1>3, <1>4, <1>5, <1>6, <1>7, <1>8, <1>9, <1>10, <1>11 DEF Next

\* What a reset would load is preserved by the steps of a store.
LEMMA StepInStore == TypeOK /\ Stage /\ InStore /\ [Next]_vars => InStore'
<1> SUFFICES ASSUME TypeOK, Stage, InStore, [Next]_vars
             PROVE  InStore'
  OBVIOUS
<1> USE FlashAssumption, ErasedNumber
<1>1. CASE Load
  BY <1>1 DEF Load, InStore
<1>2. ASSUME NEW p \in Params, Change(p)
      PROVE  InStore'
  BY <1>2 DEF Change, InStore
<1>3. CASE Clear
  BY <1>3 DEF Clear, InStore
<1>4. CASE Store
  BY <1>4 DEF Store, InStore, Recovered, flash
<1>5. CASE EraseIndex
  BY <1>5 DEF EraseIndex, InStore, Recovered
<1>6. CASE WriteIndex
  BY <1>6 DEF WriteIndex, InStore, IndexAhead, Stage, ram
<1>7. CASE Compare
  <2>1. first_store => Counted(flash_write_cnt) = 1
    BY <1>7, CountedValue DEF Compare, Stage
  <2>2. Recovered' = Recovered /\ old' = old
    BY <1>7 DEF Compare, Recovered, flash, ghost
  <2>3. CASE first_store
    BY <1>7, <2>1, <2>3 DEF Compare, InStore, IndexAhead
  <2>4. CASE ~first_store
    BY <1>7, <2>2, <2>4 DEF Compare, InStore, IndexAhead
  <2> QED
    BY <2>3, <2>4
<1>8. CASE ErasePage
  BY <1>8 DEF ErasePage, InStore, Recovered, Stage, TypeOK
<1>9. CASE WritePage
  BY <1>9 DEF WritePage, InStore
<1>10. ASSUME NEW torn \in BOOLEAN, Reset(torn)
       PROVE  InStore'
  BY <1>10 DEF Reset, InStore
<1>11. CASE UNCHANGED vars
  BY <1>11 DEF vars, flash, ram, ghost, InStore, IndexAhead, Recovered
<1> QED
  BY <1>1, <1>2, <1>3, <1>4, <1>5, <1>6, <1>7, <1>8, <1>9, <1>10, <1>11 DEF Next

\* A reset leaves for the boot what the step of the store it interrupts says.
LEMMA StepOutcome == TypeOK /\ Stage /\ InStore /\ ResetOutcome /\ [Next]_vars => ResetOutcome'
<1> SUFFICES ASSUME TypeOK, Stage, InStore, ResetOutcome, [Next]_vars
             PROVE  ResetOutcome'
  OBVIOUS
<1>1. ASSUME NEW torn \in BOOLEAN, Reset(torn)
      PROVE  ResetOutcome'
  <2>1. CASE pc = "write_page"
    <3>1. struck' = "page"
      BY <1>1, <2>1 DEF Reset, IndexAhead
    <3>2. flash_page_idx = idx_page /\ idx_page \in 0 .. MaxPage /\ idx_page' = idx_page
      BY <1>1, <2>1 DEF Reset, Stage
    <3>3. Recovered = Blank
      BY <2>1 DEF InStore, IndexAhead
    <3>4. Recovered' \in {Blank, Torn}
      BY <1>1, <3>2, <3>3 DEF Reset, Recovered, TypeOK
    <3> QED
      BY <3>1, <3>4 DEF ResetOutcome
  <2>2. CASE pc # "write_page"
    <3>1. Recovered' = Recovered /\ old' = old /\ struck' # "page"
      BY <1>1, <2>2 DEF Reset, Recovered
    <3>2. struck' = "early" => pc \notin {"boot", "idle", "write_page"} /\ ~IndexAhead
      BY <1>1, <2>2 DEF Reset
    <3> QED
      BY <3>1, <3>2 DEF InStore, ResetOutcome
  <2> QED
    BY <2>1, <2>2
<1>2. ASSUME Next, \A torn \in BOOLEAN : ~Reset(torn)
      PROVE  pc' # "boot"
  BY <1>2 DEF Next, Load, Change, Clear, Store, EraseIndex, WriteIndex, Compare, ErasePage, WritePage
<1>3. CASE UNCHANGED vars
  BY <1>3 DEF vars, flash, ghost, ResetOutcome, Recovered
<1> QED
  BY <1>1, <1>2, <1>3 DEF ResetOutcome

\* The counters keep up with the erasures.
LEMMA StepWear == TypeOK /\ Stage /\ Wear /\ [Next]_vars => Wear'
<1> SUFFICES ASSUME TypeOK, Stage, Wear, [Next]_vars, ~cut'
             PROVE  PageWear' /\ IndexWear' /\ CountWear' /\ (wear <= MaxWrites + 1)'
  BY DEF Wear
<1> USE FlashAssumption, ErasedNumber
<1>0. ASSUME ~cut
      PROVE  PageWear /\ IndexWear /\ CountWear /\ wear <= MaxWrites + 1 /\ wear \in Nat
  BY <1>0 DEF Wear, TypeOK
<1>1. CASE Load
  BY <1>0, <1>1 DEF Load, flash, PageWear, IndexWear, CountWear
<1>2. ASSUME NEW p \in Params, Change(p)
      PROVE  PageWear' /\ IndexWear' /\ CountWear' /\ (wear <= MaxWrites + 1)'
  BY <1>0, <1>2 DEF Change, flash, ghost, PageWear, IndexWear, CountWear
<1>3. CASE Clear
  BY <1>3 DEF Clear
<1>4. CASE Store
  BY <1>0, <1>4 DEF Store, flash, PageWear, IndexWear, CountWear, TypeOK
<1>5. CASE EraseIndex
  BY <1>0, <1>5 DEF EraseIndex, ghost, PageWear, IndexWear, CountWear
<1>6. CASE WriteIndex
  <2>1. wear' = 0
    BY <1>0, <1>6 DEF WriteIndex, IndexWear
  <2> QED
    BY <1>6, <2>1 DEF WriteIndex, ram, PageWear, IndexWear, CountWear, Stage
<1>7. CASE Compare
  <2>1. ~cut /\ UNCHANGED <<flash, ghost>> /\ pc' # "write_page"
    BY <1>7 DEF Compare, ghost
  <2>2. PageWear' /\ (wear <= MaxWrites + 1)'
    BY <1>0, <1>7, <2>1 DEF Compare, flash, ghost, PageWear
  <2>5. IndexWear'
    BY <1>0, <1>7, <2>1 DEF Compare, flash, ghost, IndexWear, Stage
  <2>3. CASE first_store
    <3>1. wear' = 0 /\ pc' \notin {"compare", "write_page"}
      BY <1>0, <1>7, <2>1, <2>3 DEF Compare, ghost, IndexWear
    <3>2. pc' = "erase_page" => flash_write_cnt' = Counted(0)
      BY <1>7, <2>3 DEF Compare, Stage
    <3>3. Counted(0) = 1
      BY CountedValue
    <3>4. CountWear'
      BY <3>1, <3>2, <3>3 DEF CountWear
    <3> QED
      BY <2>2, <2>5, <3>4
  <2>4. CASE ~first_store
    <3> DEFINE cnt == pages[flash_page_idx].cnt
    <3>1. /\ wear = 0 \/ (cnt \in 0 .. MaxWrites /\ wear <= cnt + 1)
          /\ cnt \in 0 .. MaxWrites \cup {Erased}
      BY <1>0, <1>7, <2>1 DEF Compare, PageWear, Stage, TypeOK
    <3>2. wear <= Counted(cnt)
      BY <3>1, CountedValue
    <3>3. pc' = "erase_page" => flash_write_cnt' = Counted(cnt)
      BY <1>7, <2>4 DEF Compare
    <3>4. wear' = wear /\ pc' \notin {"compare", "write_page"}
      BY <1>7, <2>1 DEF Compare, ghost
    <3>5. CountWear'
      BY <3>2, <3>3, <3>4 DEF CountWear
    <3> QED
      BY <2>2, <2>5, <3>5
  <2> QED
    BY <2>2, <2>3, <2>4
<1>8. CASE ErasePage
  BY <1>0, <1>8 DEF ErasePage, ram, PageWear, IndexWear, CountWear, Stage
<1>9. CASE WritePage
  BY <1>0, <1>9 DEF WritePage, ghost, PageWear, IndexWear, CountWear, Stage, TypeOK
<1>10. ASSUME NEW torn \in BOOLEAN, Reset(torn)
       PROVE  PageWear' /\ IndexWear' /\ CountWear' /\ (wear <= MaxWrites + 1)'
  BY <1>0, <1>10 DEF Reset, PageWear, IndexWear, CountWear
<1>11. CASE UNCHANGED vars
  BY <1>0, <1>11 DEF vars, flash, ram, ghost, PageWear, IndexWear, CountWear
<1> QED
  BY <1>1, <1>2, <1>3, <1>4, <1>5, <1>6, <1>7, <1>8, <1>9, <1>10, <1>11 DEF Next

\* The invariant holds in every behaviour.
LEMMA FlashInvariant == Spec => []FlashInv
<1>1. FlashInv /\ [Next]_vars => FlashInv'
  BY StepType, StepStage, StepInStore, StepOutcome, StepWear DEF FlashInv
<1> QED
  BY InitFlash, <1>1, PTL DEF Spec

\* The variables keep their types: the index names a page or is erased, and a
\* counter passes MaxWrites only when it is erased.
THEOREM FlashTypeCorrect == Spec => []TypeOK
BY FlashInvariant, PTL DEF FlashInv

\* The boot after a reset inside a store finds what was there before or the
\* defaults, and once the page was erased an erased or a torn page, unless the
\* reset came between the writing of the index and the erasing of its page.
THEOREM ResetBringsBack == Spec => []ResetOutcome
BY FlashInvariant, PTL DEF FlashInv

\* A store that has gone on to a page erases it at most MaxWrites + 1 times before
\* it goes on, unless a clear or a reset has cost it its counter or its index.
THEOREM PagesWearEvenly == Spec => []WearBounded
<1>1. Wear => WearBounded
  BY DEF Wear, WearBounded
<1> QED
  BY FlashInvariant, <1>1, PTL DEF FlashInv

-----------------------------------------------------------------------------
\* Every step of the flash store is a step of the register or a stutter.
LEMMA StepRegister ==
  TypeOK /\ Stage /\ TypeOK' /\ [Next]_vars => [Register!Next]_Register!vars
<1> SUFFICES ASSUME TypeOK, Stage, TypeOK', [Next]_vars
             PROVE  [Register!Next]_Register!vars
  OBVIOUS
<1> USE FlashAssumption, ErasedNumber
<1>a. Recovered \in Values /\ Recovered' \in Values /\ Default \in Values
  <2>1. Recovered' \in Values
    BY DEF TypeOK, Recovered, Values
  <2> QED
    BY <2>1, RecoveredType DEF Values
<1>1. CASE Load
  BY <1>1 DEF Load, flash, Recovered, Register!vars
<1>2. ASSUME NEW p \in Params, Change(p)
      PROVE  [Register!Next]_Register!vars
  BY <1>2 DEF Change, flash, Recovered, Values, Register!Next, Register!Change
<1>3. CASE Clear
  BY <1>3 DEF Clear, Recovered, Register!Next, Register!Clear
<1>4. CASE Store
  BY <1>4 DEF Store, flash, Recovered, Register!Next, Register!Begin
<1>5. CASE EraseIndex
  BY <1>5, <1>a DEF EraseIndex, Register!Next, Register!Waver
<1>6. CASE WriteIndex
  BY <1>6, <1>a DEF WriteIndex, Register!Next, Register!Waver
<1>7. CASE Compare
  <2>1. Recovered = pages[flash_page_idx].params /\ Recovered' = Recovered /\ live' = live
    BY <1>7 DEF Compare, Stage, Recovered, flash
  <2>2. CASE SameContent(pages[flash_page_idx])
    BY <1>7, <2>1, <2>2 DEF Compare, SameContent, Register!Next, Register!Finish
  <2>3. CASE ~SameContent(pages[flash_page_idx])
    BY <1>7, <2>1, <2>3 DEF Compare, Register!vars
  <2> QED
    BY <2>2, <2>3
<1>8. CASE ErasePage
  BY <1>8, <1>a DEF ErasePage, Register!Next, Register!Waver
<1>9. CASE WritePage
  <2>1. Recovered' = live
    BY <1>9 DEF WritePage, Stage, Recovered, TypeOK
  <2> QED
    BY <1>9, <2>1 DEF WritePage, Register!Next, Register!Finish
<1>10. ASSUME NEW torn \in BOOLEAN, Reset(torn)
       PROVE  [Register!Next]_Register!vars
  <2>1. pc # "write_page" => Recovered' = Recovered
    BY <1>10 DEF Reset, Recovered
  <2>2. pc' = "boot" /\ pc # "boot"
    BY <1>10 DEF Reset
  <2> QED
    BY <1>a, <2>1, <2>2 DEF Register!Next, Register!Reset
<1>11. CASE UNCHANGED vars
  BY <1>11 DEF vars, flash, Recovered, Register!vars
<1> QED
  BY <1>1, <1>2, <1>3, <1>4, <1>5, <1>6, <1>7, <1>8, <1>9, <1>10, <1>11 DEF Next

\* Whatever page a store went to and wherever resets came, the flash store is a
\* register: a store that ended is read by every boot until the next one.
THEOREM ImplementsRegister == Spec => RegisterSpec
<1>1. Init => Register!Init
  BY FlashAssumption, ErasedNumber DEF Init, Recovered, Register!Init
<1>2. FlashInv /\ FlashInv' /\ [Next]_vars => [Register!Next]_Register!vars
  BY StepRegister DEF FlashInv
<1> QED
  BY FlashInvariant, <1>1, <1>2, PTL DEF Spec, RegisterSpec, Register!Spec
==============================================================================
