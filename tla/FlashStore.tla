----------------------------- MODULE FlashStore -----------------------------
(***************************************************************************)
(* The parameter store of the BLE firmware (ble_AT - music): the AT        *)
(* parameters are kept in one of MaxPage + 1 flash pages; one more page    *)
(* says in which.  A page counts its writes, and after MaxWrites of them   *)
(* the next page is used, so that no page wears out before the others.     *)
(*                                                                         *)
(* Flash is erased a page at a time to all ones, and a reset may come      *)
(* between any two flash operations or inside the writing of a page.       *)
(* Nothing else runs during a store: it is one handler of the main loop.   *)
(***************************************************************************)
EXTENDS Naturals

CONSTANTS
  Params,      \* sets of parameters: name, UART, defaults, addresses, UUIDs
  Default,     \* the one at_load_info_from_flash sets if there is none
  Blank,       \* what is read from an erased page
  Torn,        \* what is read from a page whose writing was interrupted
  MaxPage,     \* 20
  MaxWrites,   \* 20000
  Word         \* 2^16: numbers in flash and in gAT_buff_env are uint16_t

ASSUME FlashAssumption ==
  /\ Default \in Params /\ Blank \notin Params /\ Torn \notin Params /\ Blank # Torn
  /\ MaxPage \in Nat /\ MaxWrites \in Nat \ {0} /\ Word \in Nat
  /\ MaxPage < Word - 1 /\ MaxWrites < Word - 1

Values == Params \cup {Blank, Torn}
Erased == Word - 1    \* an erased uint16_t
Half   == 0 .. Erased

VARIABLES
  idx_page,         \* flash: the number at USER_FLASH_MAX_PAGE_ADDR
  pages,            \* flash: what each page of AT_INFO_FLASH_BASE_ADDR holds
  flash_page_idx,   \* gAT_buff_env
  flash_write_cnt,  \* gAT_buff_env
  live,             \* the parameters in use: gAT_buff_env, name, address, UUIDs
  pc,               \* "boot", "idle", or the next flash operation of a store
  first_store,      \* local variable of at_store_info_to_flash
  old,              \* ghost: what a reset would have loaded before the store
  struck,           \* ghost, until the boot: where in a store the reset came
  wear,             \* ghost: erasures since a store last went on to the next page
  cut               \* ghost: and whether a counter or the index was lost since then

ram   == <<flash_page_idx, flash_write_cnt>>
flash == <<idx_page, pages>>
ghost == <<old, struck, wear, cut>>
vars  == <<flash, ram, live, pc, first_store, ghost>>

\* What at_load_info_from_flash would make the parameters in use.
Recovered == IF idx_page > MaxPage THEN Default ELSE pages[idx_page].params
-----------------------------------------------------------------------------
\* at_load_info_from_flash, at boot.
Load ==
  /\ pc = "boot"
  /\ flash_page_idx' = idx_page
  /\ live' = Recovered
  /\ pc' = "idle"
  /\ struck' = "no"
  /\ UNCHANGED <<flash, flash_write_cnt, first_store, old, wear, cut>>

\* The AT commands that set a parameter.
Change(p) ==
  /\ pc = "idle"
  /\ live' = p
  /\ UNCHANGED <<flash, ram, pc, first_store, ghost>>

\* at_clr_flash_info: only the page that says where is erased, so the next store
\* begins at page 0 with a counter of 0.
Clear ==
  /\ pc = "idle"
  /\ idx_page' = Erased
  /\ cut' = TRUE
  /\ UNCHANGED <<pages, ram, live, pc, first_store, old, struck, wear>>

\* at_store_info_to_flash begins: is there an index?
Store ==
  /\ pc = "idle"
  /\ first_store' = (idx_page > MaxPage)
  /\ IF idx_page > MaxPage
     THEN flash_page_idx' = 0 /\ flash_write_cnt' = 0 /\ pc' = "erase_index"
     ELSE flash_page_idx' = idx_page /\ UNCHANGED flash_write_cnt /\ pc' = "compare"
  /\ old' = Recovered
  /\ UNCHANGED <<flash, live, struck, wear, cut>>

EraseIndex ==
  /\ pc = "erase_index"
  /\ idx_page' = Erased
  /\ pc' = "write_index"
  /\ UNCHANGED <<pages, ram, live, first_store, ghost>>

\* The index is written before the page is compared at the first store, and
\* after it when the page has been written often enough.
WriteIndex ==
  /\ pc = "write_index"
  /\ idx_page' = flash_page_idx
  /\ pc' = IF first_store THEN "compare" ELSE "erase_page"
  /\ IF first_store THEN UNCHANGED <<wear, cut>> ELSE wear' = 0 /\ cut' = FALSE
  /\ UNCHANGED <<pages, ram, live, first_store, old, struck>>

\* Mutant: a counter that stops at its limit.
CountedTo(n) == IF n = MaxWrites THEN n ELSE (n + 1) % Word

\* flash_write_cnt++ of a uint16_t.
Counted(n) == (n + 1) % Word

\* Mutant: a page that was ever written is taken for what it is to hold.
SameContentCount(page) == page.cnt # Erased

\* memcmp of each part with what is in use.
SameContent(page) == page.params = live

\* Mutant: no way back from the last page.
NextPageOnward(i) == i + 1

NextPage(i) == IF i + 1 > MaxPage THEN 0 ELSE i + 1

\* The page is read; unless it holds the same parameters they are stored in it,
\* or in the next page if it has been written MaxWrites times.
Compare ==
  /\ pc = "compare"
  /\ LET page == pages[flash_page_idx]
         cnt  == IF first_store THEN flash_write_cnt ELSE page.cnt
     IN IF SameContent(page)
        THEN flash_write_cnt' = cnt /\ pc' = "idle" /\ UNCHANGED flash_page_idx
        ELSE IF Counted(cnt) > MaxWrites
             THEN /\ flash_write_cnt' = 0
                  /\ flash_page_idx' = NextPage(flash_page_idx)
                  /\ pc' = "erase_index"
             ELSE /\ flash_write_cnt' = Counted(cnt)
                  /\ pc' = "erase_page"
                  /\ UNCHANGED flash_page_idx
  /\ UNCHANGED <<flash, live, first_store, ghost>>

\* Mutant: the page is not erased before it is written.
ErasePageSkipped ==
  /\ pc = "erase_page"
  /\ pc' = "write_page"
  /\ wear' = IF wear > MaxWrites + 1 THEN wear ELSE wear + 1
  /\ UNCHANGED <<flash, ram, live, first_store, old, struck, cut>>

ErasePage ==
  /\ pc = "erase_page"
  /\ pages' = [pages EXCEPT ![flash_page_idx] = [cnt |-> Erased, params |-> Blank]]
  /\ pc' = "write_page"
  /\ wear' = IF wear > MaxWrites + 1 THEN wear ELSE wear + 1
  /\ UNCHANGED <<idx_page, ram, live, first_store, old, struck, cut>>

WritePage ==
  /\ pc = "write_page"
  /\ pages' = [pages EXCEPT ![flash_page_idx] = [cnt |-> flash_write_cnt, params |-> live]]
  /\ pc' = "idle"
  /\ UNCHANGED <<idx_page, ram, live, first_store, ghost>>

\* The index has been written and the page it names is not erased yet.  (A page
\* that lost its counter is counted here too: it has nothing more to lose.)
IndexAhead == \/ first_store /\ pc \in {"compare", "erase_page"}
              \/ flash_write_cnt = 0 /\ pc = "erase_page"

\* A reset, between two operations or, with torn, while the page is written:
\* the counter comes first in the page.  The memory is lost; the values it
\* keeps here until the boot are read by nothing.
Reset(torn) ==
  /\ torn => pc = "write_page"
  /\ pc # "boot"
  /\ pages' = IF torn
              THEN [pages EXCEPT ![flash_page_idx] = [cnt |-> flash_write_cnt, params |-> Torn]]
              ELSE pages
  /\ flash_page_idx' = 0 /\ flash_write_cnt' = 0 /\ first_store' = FALSE
  /\ live' = Default
  /\ pc' = "boot"
  /\ struck' = CASE pc = "idle"       -> "no"
                 [] pc = "write_page" -> "page"
                 [] IndexAhead        -> "ahead"
                 [] OTHER             -> "early"
  /\ cut' = (cut \/ pc \in {"write_index", "write_page"})
  /\ UNCHANGED <<idx_page, old, wear>>
-----------------------------------------------------------------------------
Init ==
  /\ idx_page = Erased
  /\ pages = [i \in 0 .. MaxPage |-> [cnt |-> Erased, params |-> Blank]]
  /\ flash_page_idx = 0 /\ flash_write_cnt = 0
  /\ live = Default
  /\ pc = "boot"
  /\ first_store = FALSE
  /\ old = Default /\ struck = "no" /\ wear = 0 /\ cut = FALSE

Next ==
  \/ Load
  \/ \E p \in Params : Change(p)
  \/ Clear
  \/ Store
  \/ EraseIndex
  \/ WriteIndex
  \/ Compare
  \/ ErasePage
  \/ WritePage
  \/ \E torn \in BOOLEAN : Reset(torn)

Spec == Init /\ [][Next]_vars
-----------------------------------------------------------------------------
(***************************************************************************)
(* Properties.                                                             *)
(***************************************************************************)
\* Type invariant: the index names a page or is erased, and no page's counter
\* passes MaxWrites unless the page is erased.
TypeOK ==
  /\ idx_page \in 0 .. MaxPage \cup {Erased}
  /\ pages \in [0 .. MaxPage -> [cnt : 0 .. MaxWrites \cup {Erased}, params : Values]]
  /\ flash_page_idx \in 0 .. MaxPage \cup {Erased}
  /\ flash_write_cnt \in 0 .. MaxWrites \cup {Erased}
  /\ live \in Values /\ old \in Values
  /\ pc \in {"boot", "idle", "erase_index", "write_index", "compare", "erase_page", "write_page"}
  /\ first_store \in BOOLEAN /\ cut \in BOOLEAN
  /\ struck \in {"no", "early", "ahead", "page"}
  /\ wear \in 0 .. MaxWrites + 2

\* at_store_info_to_flash and at_load_info_from_flash are a register: a store
\* that ends is read by every boot until the next store or clear, whatever page
\* it went to, and a reset outside a store changes nothing.
Register == INSTANCE ParamStore WITH
  live <- IF pc = "boot" THEN Recovered ELSE live,
  kept <- Recovered,
  busy <- pc \notin {"boot", "idle"}
RegisterSpec == Register!Spec

\* What the boot finds after a reset inside a store: what it would have found
\* before the store, or the defaults; once the page has been erased also an erased
\* page or a torn one.  Only between the writing of the index and the erasing of
\* the page it names does something else come back: what an earlier round left.
ResetOutcome ==
  pc = "boot" =>
    /\ struck = "early" => Recovered \in {old, Default}
    /\ struck = "page"  => Recovered \in {Blank, Torn}

\* After a store has gone on to a page, that page is erased at most MaxWrites + 1
\* times before the next one is used, unless meanwhile the store was cleared or
\* a reset left the page without its counter, or the index page erased.
WearBounded == ~cut => wear <= MaxWrites + 1
=============================================================================
