----------------------------- MODULE OtaProofs -----------------------------
(***************************************************************************)
(* Proofs about the update over the air: when a reset finds a complete     *)
(* image to boot, that the part that runs is touched by nothing but an     *)
(* overrun, that an update that is carried through is what runs then, and  *)
(* what it takes for an update to go on undisturbed.                       *)
(***************************************************************************)
EXTENDS Ota, TLAPS

-----------------------------------------------------------------------------
(***************************************************************************)
(* The inductive invariant.                                                *)
(***************************************************************************)
\* Unless a write overruns, what runs is what the boot would choose, and it is whole.
BootSafe ==
  wild \in {"no", "piece"} =>
    /\ \A p \in Parts : flash[p].head # Mixed
    /\ running = Preferred(flash) /\ Complete(flash[running])

\* The updater does nothing without its link.
Linked == Updater \notin connected => stage = "off"

\* An updater that nothing cut into is one for which flash may be written.
Opened ==
  /\ stage = "ready" => first_loop
  /\ ~cut /\ stage \in {"subscribed", "erase", "write", "pieces", "reboot"} => Open

\* Packets are kept for the part that does not run, from the first one on, and as
\* many as there is room for.
KeptOnce ==
  /\ stage \in {"off", "ready", "subscribed", "erase"} => ~first_pkt.buf
  /\ first_pkt.buf => first_pkt.img \in Images
  /\ first_pkt.buf /\ stage \in {"write", "pieces", "reboot"} => base = 1 - running
  /\ first_pkt.buf /\ stage \in {"write", "pieces"} =>
       next > 0 /\ first_pkt.pkts = IF next < Held THEN next ELSE Held

\* An updater that goes on addresses the part that does not run, or was cut off.
Addressed ==
  /\ stage \in {"erase", "write", "pieces", "reboot"} => base \in Parts
  /\ stage = "erase" => next < Pages
  /\ ~cut /\ stage \in {"write", "pieces", "reboot"} => base = 1 - running
  /\ ~cut /\ stage = "erase" /\ next > 0 => base = 1 - running

\* Nothing cut into the update, and no write went wrong.
Clean == ~cut /\ wild = "no"

\* The pages before the next one to erase are empty, and so are all when the
\* first packet is sent.
ErasedSoFar ==
  Clean =>
    /\ stage = "erase" =>
         \A c \in Cells : c \div PerPage < next => flash[base].cell[c] = Blank
    /\ stage \in {"write", "pieces"} /\ next = 0 =>
         \A c \in Cells : flash[base].cell[c] = Blank

\* The packets before the next one are in flash, but for the head, and the kept
\* version is newer than the one that runs as soon as all kept ones are there.
WrittenSoFar ==
  Clean /\ stage \in {"write", "pieces"} /\ first_pkt.buf =>
    /\ first_pkt.img = image
    /\ \A c \in Cells : /\ flash[base].cell[c] \in {Blank, image}
                        /\ next >= 2 /\ c < next => flash[base].cell[c] = image
    /\ next >= 2 /\ next >= Held => first_pkt.ver > flash[running].head.ver

\* Before the restart all is there but the head.
Finished ==
  Clean /\ stage = "reboot" /\ first_pkt.buf =>
    /\ first_pkt.img = image
    /\ \A c \in Cells : flash[base].cell[c] = image
    /\ first_pkt.ver > flash[running].head.ver

\* A new head is written where writing is allowed.
Committing ==
  pc = "commit" => stage = "reboot" /\ first_pkt.buf /\ wild = "no" /\ (~cut => ota_state)

Progress == /\ Linked /\ Opened /\ KeptOnce /\ Addressed
            /\ ErasedSoFar /\ WrittenSoFar /\ Finished /\ Committing

Inv == TypeOK /\ BootSafe /\ Progress

-----------------------------------------------------------------------------
(***************************************************************************)
(* Numbers, parts of the flash, and what the operators return.             *)
(***************************************************************************)
\* An image has at least two packets, and no fewer than pages.
LEMMA Sizes ==
  /\ Total \in Nat /\ Total >= 2 /\ Held < Total /\ Pages <= Total
  /\ Cells \subseteq Nat /\ \A c \in Cells : c < Total
<1>1. Total \in Nat /\ Held \in Nat /\ Held >= 1 /\ Held < Total /\ PerPage >= 1
  BY OtaAssumption DEF Total
<1>2. Pages <= Total
  <2>1. Pages * PerPage = Pages * (PerPage - 1) + Pages
    BY OtaAssumption, <1>1
  <2>2. Pages * (PerPage - 1) >= 0
    BY OtaAssumption, <1>1
  <2> QED BY <2>1, <2>2, OtaAssumption DEF Total
<1> QED BY <1>1, <1>2 DEF Cells

\* Every packet lies in one of the pages.
LEMMA PageOfCell ==
  ASSUME NEW c \in Cells
  PROVE  c \div PerPage \in Nat /\ c \div PerPage < Pages
<1> DEFINE q == c \div PerPage
<1>1. c \in Nat /\ c < Pages * PerPage /\ PerPage \in Nat /\ PerPage >= 1 /\ Pages \in Nat
  BY Sizes, OtaAssumption DEF Total
<1>2. q \in Nat /\ q * PerPage <= c
  BY <1>1
<1>3. ASSUME q >= Pages PROVE FALSE
  <2>1. q * PerPage >= Pages * PerPage
    BY <1>1, <1>2, <1>3
  <2> QED BY <2>1, <1>1, <1>2
<1> QED BY <1>1, <1>2, <1>3

\* The boot chooses one of the two parts.
LEMMA PreferredPart == \A f : Preferred(f) \in Parts
BY DEF Preferred, Parts

\* There is one part beside the one that runs.
LEMMA OtherPart ==
  ASSUME TypeOK
  PROVE  /\ running \in Parts /\ 1 - running \in Parts /\ 1 - running # running
         /\ \A p \in Parts : p # running => p = 1 - running
BY DEF TypeOK, Parts

\* A head is not blank, nor spoilt, and it has a version.
LEMMA HeadIsNotBlank ==
  ASSUME NEW h \in Heads
  PROVE  h # Blank /\ h # Mixed /\ h.img \in Images /\ h.ver \in Nat
BY OtaAssumption DEF Heads

Marks == Images \cup {Blank, Mixed}
Part  == [head : Heads \cup {Blank, Mixed}, cell : [Cells -> Marks]]

\* Erasing a page leaves the head and the other pages.
LEMMA ErasedPart ==
  ASSUME NEW part \in Part
  PROVE  /\ Erased(part) \in Part /\ Erased(part).head = part.head
         /\ \A c \in Cells : Erased(part).cell[c] =
              IF c \div PerPage = next /\ (next = 0 \/ Open) THEN Blank ELSE part.cell[c]
BY DEF Erased, Part, Marks

\* What a packet spoils when none is kept has still the shape of a part.
LEMMA StrayPart ==
  ASSUME NEW part \in Part, image \in Images
  PROVE  Strays(part) \in Part
BY DEF Strays, Written, Part, Marks

\* Saving leaves the head; of the rest, what it does with each packet.
LEMMA SavedPart ==
  ASSUME NEW part \in Part, NEW pkt, pkt.img \in Images, image \in Images
  PROVE  /\ Saved(part, pkt) \in Part /\ Saved(part, pkt).head = part.head
         /\ Open => \A c \in Cells : Saved(part, pkt).cell[c] =
              IF c = next /\ ~KeptBack(next) THEN Written(part.cell[c], image)
              ELSE IF c = Held - 1 /\ pkt.pkts >= Held THEN Written(part.cell[c], pkt.img)
              ELSE part.cell[c]
<1>1. \A c \in Cells, i \in Images : Written(part.cell[c], i) \in Marks
  BY DEF Written, Part, Marks
<1>2. CASE ~Open
  BY <1>2 DEF Saved
<1>3. CASE Open
  <2> DEFINE cell == [c \in Cells |->
          CASE c = next /\ ~KeptBack(next)       -> Written(part.cell[c], image)
            [] c = Held - 1 /\ pkt.pkts >= Held  -> Written(part.cell[c], pkt.img)
            [] OTHER                             -> part.cell[c]]
  <2>1. Saved(part, pkt) = [part EXCEPT !.cell = cell]
    BY <1>3 DEF Saved
  <2>2. \A c \in Cells : cell[c] =
              IF c = next /\ ~KeptBack(next) THEN Written(part.cell[c], image)
              ELSE IF c = Held - 1 /\ pkt.pkts >= Held THEN Written(part.cell[c], pkt.img)
              ELSE part.cell[c]
    <3> SUFFICES ASSUME NEW c \in Cells
                 PROVE  cell[c] =
                          IF c = next /\ ~KeptBack(next) THEN Written(part.cell[c], image)
                          ELSE IF c = Held - 1 /\ pkt.pkts >= Held THEN Written(part.cell[c], pkt.img)
                          ELSE part.cell[c]
      OBVIOUS
    <3>1. CASE c = next /\ ~KeptBack(next)
      <4>1. ~(c = Held - 1 /\ pkt.pkts >= Held)
        BY <3>1, OtaAssumption, Sizes DEF KeptBack
      <4> QED BY <3>1, <4>1
    <3>2. CASE ~(c = next /\ ~KeptBack(next))
      BY <3>2
    <3> QED BY <3>1, <3>2
  <2>3. \A c \in Cells : part.cell[c] \in Marks
    BY DEF Part
  <2>4. cell \in [Cells -> Marks]
    <3>1. \A c \in Cells : cell[c] \in Marks
      BY <1>1, <2>2, <2>3
    <3> QED BY <3>1
  <2> HIDE DEF cell
  <2> QED BY <2>1, <2>2, <2>4 DEF Part
<1> QED BY <1>2, <1>3

-----------------------------------------------------------------------------
(***************************************************************************)
(* The initial states, and what a reset makes of a flash.                  *)
(***************************************************************************)
\* The device as it leaves the factory.
LEMMA InitInv == Init => Inv
<1> SUFFICES ASSUME Init PROVE Inv
  OBVIOUS
<1>1. VersionOf[Factory] \in Nat /\ Factory \in Images
  BY OtaAssumption
<1>2. flash \in [Parts -> Part]
  BY <1>1 DEF Init, Part, Parts, Marks, Heads
<1>3. NoPacket \in [buf : BOOLEAN, img : Images \cup {Blank}, ver : Nat, pkts : 0 .. Held]
  BY OtaAssumption DEF NoPacket
<1>4. TypeOK
  <2>1. 0 \in 0 .. Total - 1
    BY Sizes
  <2> QED BY <1>1, <1>2, <1>3, <2>1 DEF Init, TypeOK, Part, Parts, Marks
<1>5. BootSafe
  <2>1. flash[0].head.img = Factory /\ flash[0].head \in Heads /\ flash[1].head = Blank
    BY <1>1 DEF Init, Parts, Heads
  <2>2. Preferred(flash) = 0 /\ running = 0
    BY <2>1 DEF Preferred, Init
  <2>3. \A c \in Cells : flash[0].cell[c] = Factory
    BY DEF Init, Parts
  <2>4. \A p \in Parts : flash[p].head # Mixed
    BY <2>1, HeadIsNotBlank, OtaAssumption DEF Parts
  <2> QED BY <2>1, <2>2, <2>3, <2>4 DEF BootSafe, Complete
<1>6. Progress
  BY DEF Init, NoPacket, Progress, Linked, Opened, KeptOnce, Addressed, ErasedSoFar, WrittenSoFar,
         Finished, Committing, Clean
<1> QED BY <1>4, <1>5, <1>6 DEF Inv

\* A flash with a head that is not spoilt in either part, and a whole image to boot.
Sound(f) == (\A p \in Parts : f[p].head # Mixed) /\ Complete(f[Preferred(f)])

\* After a reset nothing is under way: all depends on what the boot finds.
LEMMA RestartInv ==
  ASSUME Inv, NEW f \in [Parts -> Part], Restart(f), Spoilt \/ Sound(f)
  PROVE  Inv'
<1>1. Boots(f) \subseteq Parts
  BY PreferredPart DEF Boots
<1>2. TypeOK'
  <2>1. NoPacket \in [buf : BOOLEAN, img : Images \cup {Blank}, ver : Nat, pkts : 0 .. Held]
    BY OtaAssumption DEF NoPacket
  <2>2. 0 \in 0 .. Total - 1
    BY Sizes
  <2>3. wild' \in {"no", "broken"} /\ cut' \in BOOLEAN
    BY Zenon DEF Restart, Inv, TypeOK
  <2> QED BY <1>1, <2>1, <2>2, <2>3 DEF Inv, TypeOK, Restart, Part, Parts, Marks
<1>3. BootSafe'
  <2> SUFFICES ASSUME wild' \in {"no", "piece"} PROVE Sound(f) /\ running' = Preferred(f)
    BY DEF BootSafe, Sound, Restart
  <2>1. CASE \A p \in Boots(f) : Complete(f[p])
    <3>1. \A p \in Parts : f[p].head # Mixed
      BY <2>1, HeadIsNotBlank DEF Boots, Complete
    <3> QED BY <2>1, <3>1 DEF Boots, Sound, Restart
  <2>2. CASE ~Spoilt
    BY <2>2 DEF Sound, Boots, Restart
  <2> QED BY <2>1, <2>2 DEF Restart
<1>4. Progress'
  BY DEF Restart, NoPacket, Progress, Linked, Opened, KeptOnce, Addressed, ErasedSoFar, WrittenSoFar,
         Finished, Committing, Clean
<1> QED BY <1>2, <1>3, <1>4 DEF Inv

-----------------------------------------------------------------------------
(***************************************************************************)
(* The actions that leave the flash alone.                                 *)
(***************************************************************************)
\* Where neither the flash nor the part that runs changes, the boot is as safe.
LEMMA BootSafeStays ==
  ASSUME BootSafe, UNCHANGED <<flash, running>>,
         wild' \in {"no", "piece"} => wild \in {"no", "piece"}
  PROVE  BootSafe'
BY DEF BootSafe, Complete

\* A link is made: only the updater's own one lets it begin.
LEMMA LinkCreateInv == ASSUME Inv, NEW l \in Links, LinkCreate(l) PROVE Inv'
<1>1. TypeOK'
  BY DEF LinkCreate, Inv, TypeOK
<1>2. BootSafe'
  BY BootSafeStays DEF LinkCreate, Inv
<1>3. Progress'
  <2> USE DEF LinkCreate, Inv, Progress
  <2>1. Linked' /\ Opened' /\ KeptOnce'
    BY DEF Linked, Opened, KeptOnce, Open
  <2>2. Addressed' /\ ErasedSoFar' /\ WrittenSoFar' /\ Finished' /\ Committing'
    BY DEF Addressed, ErasedSoFar, WrittenSoFar, Finished, Committing, Clean
  <2> QED BY <2>1, <2>2
<1> QED BY <1>1, <1>2, <1>3 DEF Inv

\* A link is lost: nothing is kept any more, and nobody is answered.
LEMMA LinkLostInv == ASSUME Inv, NEW l \in Links, LinkLost(l) PROVE Inv'
<1>1. TypeOK'
  <2>1. NoPacket \in [buf : BOOLEAN, img : Images \cup {Blank}, ver : Nat, pkts : 0 .. Held]
    BY OtaAssumption DEF NoPacket
  <2>2. first_pkt.buf \in BOOLEAN
    BY DEF Inv, TypeOK
  <2>3. first_loop' \in BOOLEAN /\ cut' \in BOOLEAN
    BY <2>2, Zenon DEF LinkLost, Inv, TypeOK
  <2> QED BY <2>1, <2>3 DEF LinkLost, Inv, TypeOK
<1>2. BootSafe'
  BY BootSafeStays DEF LinkLost, Inv
<1>3. ~first_pkt'.buf /\ ~ota_link_ntf_enable' /\ pc' = "run"
  BY DEF LinkLost, NoPacket
<1>4. Linked' /\ Opened'
  <2>1. ~cut' => l = Updater \/ stage \in {"off", "ready"}
    BY Zenon DEF LinkLost, Going
  <2> QED BY <1>3, <2>1 DEF LinkLost, Inv, Progress, Linked, Opened
<1>5. KeptOnce' /\ WrittenSoFar' /\ Finished' /\ Committing'
  BY <1>3 DEF KeptOnce, WrittenSoFar, Finished, Committing, Clean
<1>6. Addressed' /\ ErasedSoFar'
  BY <1>3 DEF LinkLost, Inv, Progress, Addressed, ErasedSoFar, Clean
<1> QED BY <1>1, <1>2, <1>4, <1>5, <1>6 DEF Inv, Progress

\* A link turns the answers on or off.
LEMMA WriteConfigInv ==
  ASSUME Inv, NEW l \in Links, NEW on \in BOOLEAN, WriteConfig(l, on) PROVE Inv'
<1> USE DEF WriteConfig, ota
<1>1. TypeOK'
  <2>1. cut' \in BOOLEAN
    BY Zenon DEF Inv, TypeOK
  <2> QED BY <2>1 DEF Inv, TypeOK
<1>2. BootSafe'
  BY BootSafeStays DEF Inv
<1>3. /\ ~cut' => ~cut /\ pc' = "run"
      /\ stage' = stage \/ (stage = "ready" /\ stage' = "subscribed")
  BY Zenon
<1>4. Linked' /\ Opened' /\ KeptOnce' /\ Committing'
  BY <1>3 DEF Inv, Progress, Linked, Opened, Open, KeptOnce, Committing
<1>5. Addressed' /\ ErasedSoFar' /\ WrittenSoFar' /\ Finished'
  BY <1>3 DEF Inv, Progress, Addressed, ErasedSoFar, WrittenSoFar, Finished, Clean
<1> QED BY <1>1, <1>2, <1>4, <1>5 DEF Inv, Progress

\* The updater asks where to write.
LEMMA GetStrBaseInv == ASSUME Inv, NEW i \in Images, GetStrBase(i) PROVE Inv'
<1> USE DEF GetStrBase, Update, Answer
<1>1. TypeOK'
  <2>1. NoPacket \in [buf : BOOLEAN, img : Images \cup {Blank}, ver : Nat, pkts : 0 .. Held]
    BY OtaAssumption DEF NoPacket
  <2>2. first_pkt.buf \in BOOLEAN /\ Open \in BOOLEAN
    BY DEF Inv, TypeOK, Open
  <2>3. Buffer \in {"none", "new", "held"}
    BY DEF Inv, TypeOK, Buffer
  <2>4. 0 \in 0 .. Total - 1 /\ base' \in Parts
    BY Sizes DEF Inv, TypeOK, Parts
  <2>5. first_loop' \in BOOLEAN /\ ota_state' \in BOOLEAN
    BY <2>2, Zenon
  <2> QED BY <2>1, <2>3, <2>4, <2>5 DEF Inv, TypeOK
<1>2. BootSafe'
  BY BootSafeStays DEF Inv
<1>3. ~first_pkt'.buf /\ ~first_pkt.buf /\ pc' = "run" /\ stage' \in {"erase", "waiting"} /\ next' = 0
  BY DEF NoPacket, Inv, Progress, KeptOnce
<1>4. Linked' /\ Opened'
  BY <1>3 DEF Inv, Progress, Linked, Opened, Open
<1>5. KeptOnce' /\ WrittenSoFar' /\ Finished' /\ Committing'
  BY <1>3 DEF KeptOnce, WrittenSoFar, Finished, Committing, Clean
<1>6. Addressed'
  BY <1>3, OtaAssumption DEF Addressed, Inv, TypeOK, Parts
<1>7. ErasedSoFar'
  BY <1>3, PageOfCell DEF ErasedSoFar, Clean
<1> QED BY <1>1, <1>2, <1>4, <1>5, <1>6, <1>7 DEF Inv, Progress

\* The updater remembers where it wrote before.
LEMMA GoByOldBaseInv == ASSUME Inv, NEW i \in Images, GoByOldBase(i) PROVE Inv'
<1> USE DEF GoByOldBase, Update, ota
<1>1. TypeOK'
  BY Sizes DEF Inv, TypeOK
<1>2. BootSafe'
  BY BootSafeStays DEF Inv
<1>3. ~first_pkt'.buf /\ pc' = "run" /\ stage' = "erase" /\ next' = 0
  BY DEF Inv, Progress, KeptOnce
<1>4. Linked' /\ Opened'
  BY <1>3 DEF Inv, Progress, Linked, Opened, Open
<1>5. KeptOnce' /\ WrittenSoFar' /\ Finished' /\ Committing'
  BY <1>3 DEF KeptOnce, WrittenSoFar, Finished, Committing, Clean
<1>6. Addressed'
  BY <1>3, OtaAssumption DEF Addressed
<1>7. ErasedSoFar'
  BY <1>3, PageOfCell DEF ErasedSoFar, Clean
<1> QED BY <1>1, <1>2, <1>4, <1>5, <1>6, <1>7 DEF Inv, Progress

\* The first piece of a packet waits.
LEMMA FirstPieceInv == ASSUME Inv, FirstPiece PROVE Inv'
<1> USE DEF FirstPiece, Command, Received
<1>1. TypeOK'
  <2>1. Open \in BOOLEAN
    BY DEF Inv, TypeOK, Open
  <2> QED BY <2>1 DEF Inv, TypeOK
<1>2. BootSafe'
  BY BootSafeStays DEF Inv
<1>3. Open' <=> Open
  BY DEF Open
<1>4. Progress'
  BY <1>3 DEF Inv, Progress, Linked, Opened, KeptOnce, Addressed, ErasedSoFar, WrittenSoFar,
              Finished, Committing, Clean
<1> QED BY <1>1, <1>2, <1>4 DEF Inv

\* A command is taken for a piece.
LEMMA SwallowedInv == ASSUME Inv, Swallowed PROVE Inv'
<1> USE DEF Swallowed, Received
<1>1. TypeOK'
  <2>1. Open \in BOOLEAN /\ Buffer \in {"none", "new", "held"}
    BY DEF Inv, TypeOK, Open, Buffer
  <2> QED BY <2>1 DEF Inv, TypeOK
<1>2. BootSafe'
  BY BootSafeStays DEF Inv
<1>3. (Open' <=> Open) /\ stage' \in {stage, "waiting"} /\ stage # "ready" /\ pc' = "run"
  BY DEF Open
<1>4. Progress'
  BY <1>3 DEF Inv, Progress, Linked, Opened, KeptOnce, Addressed, ErasedSoFar, WrittenSoFar,
              Finished, Committing, Clean
<1> QED BY <1>1, <1>2, <1>4 DEF Inv

-----------------------------------------------------------------------------
(***************************************************************************)
(* The commands that write to the flash.                                   *)
(***************************************************************************)
\* Whatever happens to the rest of the part that does not run, the boot's choice
\* and the part that runs are the same as before.
LEMMA OtherPartChanges ==
  ASSUME Inv, wild = "no", NEW b \in Parts, b # running,
         NEW part \in Part, part.head = flash[b].head,
         flash' = [flash EXCEPT ![b] = part], running' = running
  PROVE  /\ flash' \in [Parts -> Part]
         /\ flash'[b] = part /\ flash'[running] = flash[running]
         /\ BootSafe'
<1>1. flash \in [Parts -> Part] /\ running \in Parts
  BY DEF Inv, TypeOK, Part, Marks
<1>2. flash' \in [Parts -> Part] /\ flash'[b] = part
  BY <1>1
<1>3. \A p \in Parts : p # b => flash'[p] = flash[p]
  BY <1>1
<1>4. \A p \in Parts : flash'[p].head = flash[p].head
  BY <1>2, <1>3
<1>5. Preferred(flash') = Preferred(flash)
  BY <1>4 DEF Preferred, Parts
<1> QED BY <1>1, <1>2, <1>3, <1>4, <1>5 DEF Inv, BootSafe, Complete

\* A page is erased, of the part that does not run; or none is.
LEMMA PageEraseInv ==
  ASSUME Inv, PageErase PROVE Inv' /\ flash'[running] = flash[running]
<1> USE DEF PageErase, Command, Received
<1>1. Open \in BOOLEAN /\ Buffer \in {"none", "new", "held"} /\ (Open' <=> Open)
  BY DEF Inv, TypeOK, Open, Buffer
<1>2. base \in Parts /\ ~first_pkt.buf /\ next \in Nat /\ next < Pages
  BY DEF Inv, TypeOK, Progress, KeptOnce, Addressed
<1>3. /\ stage' = IF ota_link_ntf_enable
                  THEN IF next + 1 < Pages THEN "erase" ELSE "write" ELSE "waiting"
      /\ next' = IF next + 1 < Pages THEN next + 1 ELSE 0
      /\ UNCHANGED <<running, first_pkt, ota_link_ntf_enable, base, connected, wild>>
      /\ pc' = "run" /\ wild = "no" /\ stage = "erase"
  BY DEF EraseDone, Answer
<1>4. ~cut' => ~cut /\ base # running
  BY Zenon
<1>5. ASSUME base # running
      PROVE  /\ flash' \in [Parts -> Part] /\ flash'[base] = Erased(flash[base])
             /\ flash'[running] = flash[running] /\ BootSafe' /\ flash[base] \in Part
  <2>1. flash[base] \in Part
    BY <1>2 DEF Inv, TypeOK, Part, Marks
  <2>2. /\ Erased(flash[base]) \in Part /\ Erased(flash[base]).head = flash[base].head
        /\ flash' = [flash EXCEPT ![base] = Erased(flash[base])]
    BY <1>5, <2>1, ErasedPart
  <2> QED BY <1>2, <1>3, <1>5, <2>1, <2>2, OtherPartChanges
<1>6. flash' \in [Parts -> Part] /\ flash'[running] = flash[running] /\ BootSafe'
  <2>1. CASE base = running
    BY <1>3, <2>1, BootSafeStays DEF Inv, TypeOK, Part, Marks
  <2> QED BY <1>5, <2>1
<1>7. TypeOK'
  <2>1. next' \in 0 .. Total - 1
    BY <1>2, <1>3, Sizes, OtaAssumption
  <2>2. cut' \in BOOLEAN
    BY Zenon DEF Inv, TypeOK
  <2> QED BY <1>1, <1>3, <1>6, <2>1, <2>2 DEF Inv, TypeOK, Part, Marks
<1>8. Linked' /\ Opened' /\ KeptOnce'
  BY <1>1, <1>2, <1>3, <1>4 DEF Inv, Progress, Linked, Opened, KeptOnce
<1>9. ~cut' => base = 1 - running
  BY <1>2, <1>4, OtherPart DEF Inv
<1>10. Addressed'
  BY <1>2, <1>3, <1>9, OtaAssumption DEF Addressed
<1>11. ErasedSoFar'
  <2> SUFFICES ASSUME Clean', NEW c \in Cells, c \div PerPage < next + 1
               PROVE  flash'[base].cell[c] = Blank
    <3>1. ASSUME NEW c \in Cells, next + 1 >= Pages
          PROVE  c \div PerPage < next + 1
      BY <1>2, <3>1, PageOfCell, OtaAssumption
    <3>2. stage' = "erase" => next' = next + 1 /\ next + 1 < Pages
      BY <1>3
    <3>3. stage' = "write" => next + 1 >= Pages
      BY <1>2, <1>3, OtaAssumption
    <3>4. stage' # "pieces"
      BY <1>3
    <3> QED BY <1>2, <1>3, <3>1, <3>2, <3>3, <3>4 DEF ErasedSoFar, Clean
  <2>1. Open /\ (c \div PerPage < next => flash[base].cell[c] = Blank)
    BY <1>3, <1>4 DEF Inv, Progress, Opened, ErasedSoFar, Clean
  <2>2. c \div PerPage = next \/ c \div PerPage < next
    BY <1>2, PageOfCell
  <2> QED BY <1>4, <1>5, <2>1, <2>2, ErasedPart DEF Clean
<1>12. WrittenSoFar' /\ Finished' /\ Committing'
  BY <1>2, <1>3 DEF WrittenSoFar, Finished, Committing, Clean
<1> QED BY <1>6, <1>7, <1>8, <1>10, <1>11, <1>12 DEF Inv, Progress

\* Writing a packet to erased flash, or again, leaves that packet.
LEMMA WrittenOnce ==
  ASSUME NEW i, NEW cell \in {Blank, i}
  PROVE  Written(cell, i) = i
BY DEF Written

\* A version that is kept is raised when it has to be.
LEMMA KeptVersion ==
  ASSUME Inv, wild = "no", NEW v \in Nat
  PROVE  /\ flash[running].head.ver \in Nat
         /\ NewVersion(v) \in Nat /\ NewVersion(v) > flash[running].head.ver
<1>1. flash[running].head \in Heads
  BY DEF Inv, BootSafe, Complete
<1>2. flash[running].head.ver \in Nat
  BY <1>1, HeadIsNotBlank
<1> QED BY <1>2 DEF NewVersion

Packets == [buf : BOOLEAN, img : Images \cup {Blank}, ver : Nat, pkts : 0 .. Held]

\* A packet when some are kept: there are as many as before, or one more, and the
\* flash holds what Saved says.
LEMMA PacketKept ==
  ASSUME Inv, wild = "no", stage \in {"write", "pieces"}, first_pkt.buf, ~FirstPacket,
         WriteData, running' = running, base' = base
  PROVE  \E pkt \in Packets :
           /\ first_pkt' = pkt /\ pkt.buf /\ pkt.img = first_pkt.img
           /\ pkt.pkts = IF next + 1 < Held THEN next + 1 ELSE Held
           /\ pkt.ver = IF next + 1 >= Held THEN NewVersion(first_pkt.ver) ELSE first_pkt.ver
           /\ flash' \in [Parts -> Part] /\ flash'[base] = Saved(flash[base], pkt)
           /\ flash[base] \in Part
           /\ flash'[running] = flash[running] /\ BootSafe' /\ wild' = wild
<1> DEFINE pkts == IF KeptBack(next) THEN first_pkt.pkts + 1 ELSE first_pkt.pkts
           pkt  == [first_pkt EXCEPT !.pkts = pkts,
                                     !.ver = IF pkts >= Held THEN NewVersion(@) ELSE @]
<1>1. /\ first_pkt' = pkt /\ wild' = wild
      /\ flash' = [flash EXCEPT ![base] = Saved(flash[base], pkt)]
  BY DEF WriteData
<1>2. /\ next \in Nat /\ Held \in Nat /\ Held >= 1 /\ first_pkt.ver \in Nat /\ image \in Images
      /\ first_pkt \in Packets
  BY OtaAssumption DEF Inv, TypeOK, Packets
<1>3. /\ first_pkt.img \in Images /\ base = 1 - running /\ base \in Parts /\ base # running
      /\ first_pkt.pkts = IF next < Held THEN next ELSE Held
  BY OtherPart DEF Inv, Progress, KeptOnce, Addressed
<1>4. pkts = IF next + 1 < Held THEN next + 1 ELSE Held
  BY <1>2, <1>3 DEF KeptBack
<1>5. /\ pkts \in 0 .. Held /\ (pkts >= Held <=> next + 1 >= Held)
      /\ (IF pkts >= Held THEN NewVersion(first_pkt.ver) ELSE first_pkt.ver) \in Nat
  BY <1>2, <1>4, KeptVersion
<1> HIDE DEF pkts
<1>6. /\ pkt.buf /\ pkt.img = first_pkt.img /\ pkt.pkts = pkts
      /\ pkt.ver = IF pkts >= Held THEN NewVersion(first_pkt.ver) ELSE first_pkt.ver
      /\ pkt \in Packets
  BY <1>2, <1>5 DEF Packets
<1> HIDE DEF pkt
<1>7. flash[base] \in Part
  BY <1>3 DEF Inv, TypeOK, Part, Marks
<1>8. Saved(flash[base], pkt) \in Part /\ Saved(flash[base], pkt).head = flash[base].head
  BY <1>2, <1>3, <1>6, <1>7, SavedPart
<1>9. /\ flash' \in [Parts -> Part] /\ flash'[base] = Saved(flash[base], pkt)
      /\ flash'[running] = flash[running] /\ BootSafe'
  BY <1>1, <1>3, <1>8, OtherPartChanges
<1> QED BY <1>1, <1>4, <1>5, <1>6, <1>7, <1>9

\* A packet of an update that nothing cut into: it and those before are in flash.
LEMMA PacketWritten ==
  ASSUME Inv, wild = "no", stage \in {"write", "pieces"}, first_pkt.buf, ~cut,
         NEW pkt \in Packets, pkt.img = first_pkt.img,
         pkt.pkts = IF next + 1 < Held THEN next + 1 ELSE Held,
         flash[base] \in Part, flash'[base] = Saved(flash[base], pkt),
         NEW c \in Cells
  PROVE  /\ flash'[base].cell[c] \in {Blank, image}
         /\ c < next + 1 => flash'[base].cell[c] = image
<1>1. next \in Nat /\ next > 0 /\ Held \in Nat /\ Held >= 1 /\ image \in Images
  BY OtaAssumption DEF Inv, TypeOK, Progress, KeptOnce
<1>2. /\ first_pkt.img = image
      /\ flash[base].cell[c] \in {Blank, image}
      /\ next >= 2 /\ c < next => flash[base].cell[c] = image
  BY DEF Inv, Progress, WrittenSoFar, Clean
<1>3. Open
  BY DEF Inv, Progress, Opened
<1>4. KeptBack(next) <=> next < Held
  BY <1>1 DEF KeptBack
<1>5. Saved(flash[base], pkt).cell[c] =
        IF c = next /\ ~KeptBack(next) THEN Written(flash[base].cell[c], image)
        ELSE IF c = Held - 1 /\ pkt.pkts >= Held THEN Written(flash[base].cell[c], pkt.img)
        ELSE flash[base].cell[c]
  BY <1>1, <1>2, <1>3, SavedPart
<1>6. c \in Nat /\ c >= Held - 1
  BY Sizes, <1>1 DEF Cells
<1>7. Written(flash[base].cell[c], image) = image
  BY <1>2, WrittenOnce
<1>8. flash'[base].cell[c] =
        IF (c = next /\ next >= Held) \/ (c = Held - 1 /\ pkt.pkts >= Held) THEN image
        ELSE flash[base].cell[c]
  BY <1>1, <1>2, <1>4, <1>5, <1>7
<1>9. ASSUME c < next + 1, ~((c = next /\ next >= Held) \/ (c = Held - 1 /\ pkt.pkts >= Held))
      PROVE  next >= 2 /\ c < next
  BY <1>1, <1>6, <1>9
<1> QED BY <1>2, <1>8, <1>9

\* A packet, whole or put together, wherever it belongs.
LEMMA WriteDataInv ==
  ASSUME Inv, stage \in {"write", "pieces"}, WriteData, Received, first_loop' = FALSE,
         base' = base, pc' = pc, cut' = cut, ota_recving_data' \in BOOLEAN,
         ota_recving_buffer' \in {"none", "new", "held"}
  PROVE  Inv' /\ flash'[running] = flash[running]
<1> USE DEF Received
<1>1. /\ next \in Nat /\ next < Total /\ image \in Images /\ flash \in [Parts -> Part]
      /\ base \in Parts /\ Open \in BOOLEAN /\ (Open' <=> Open) /\ first_pkt \in Packets
  BY Sizes DEF Inv, TypeOK, Progress, Addressed, Open, Part, Marks, Packets
<1>2. ASSUME PacketDone
      PROVE  /\ next' = IF next + 1 < Total THEN next + 1 ELSE 0
             /\ stage' = IF ota_link_ntf_enable
                         THEN IF next + 1 < Total THEN "write" ELSE "reboot" ELSE "waiting"
  BY <1>2 DEF PacketDone, Answer
<1>3. PacketDone \/ UNCHANGED <<stage, next>>
  BY DEF WriteData
<1>4. Linked' /\ Opened' /\ Addressed' /\ next' \in 0 .. Total - 1
  BY <1>1, <1>2, <1>3, Sizes DEF Inv, TypeOK, Progress, Linked, Opened, Addressed
<1>5. ASSUME flash' \in [Parts -> Part], wild' \in {"no", "save"}, first_pkt' \in Packets
      PROVE  TypeOK'
  BY <1>1, <1>2, <1>3, <1>4, <1>5 DEF Inv, TypeOK, Part, Marks, Packets
<1>6. Committing'
  BY DEF Inv, Progress, Committing
<1>7. CASE FirstPacket
  <2>1. /\ ~first_pkt.buf /\ UNCHANGED <<flash, wild>> /\ PacketDone
        /\ next = 0 /\ base = 1 - running
    BY <1>7 DEF FirstPacket, Inv, Progress, KeptOnce, WriteData
  <2>2. first_pkt' = [buf |-> TRUE, img |-> image, ver |-> VersionOf[image], pkts |-> 1]
    BY <1>7, <2>1 DEF WriteData
  <2>3. TypeOK'
    <3>1. VersionOf[image] \in Nat /\ 1 \in 0 .. Held
      BY <1>1, OtaAssumption
    <3> QED BY <1>1, <1>5, <2>1, <2>2, <3>1 DEF Packets
  <2>4. BootSafe'
    BY <2>1, BootSafeStays DEF Inv
  <2>5. next' = 1 /\ 1 = IF next' < Held THEN next' ELSE Held
    BY <1>2, <2>1, Sizes, OtaAssumption
  <2>6. KeptOnce' /\ ErasedSoFar' /\ Finished'
    BY <1>1, <1>2, <2>1, <2>2, <2>5, Sizes DEF KeptOnce, ErasedSoFar, Finished, Clean
  <2>7. WrittenSoFar'
    <3>1. ~cut => \A c \in Cells : flash[base].cell[c] = Blank
      BY <2>1 DEF Inv, Progress, ErasedSoFar, Clean
    <3> QED BY <1>2, <2>1, <2>2, <2>5, <3>1 DEF WrittenSoFar, Clean
  <2> QED BY <1>4, <1>6, <2>1, <2>3, <2>4, <2>6, <2>7 DEF Inv, Progress
<1>8. CASE ~FirstPacket /\ first_pkt.buf
  <2>1. PacketDone
    BY <1>8 DEF WriteData
  <2>2. PICK pkt \in Packets :
           /\ first_pkt' = pkt /\ pkt.buf /\ pkt.img = first_pkt.img
           /\ pkt.pkts = IF next + 1 < Held THEN next + 1 ELSE Held
           /\ pkt.ver = IF next + 1 >= Held THEN NewVersion(first_pkt.ver) ELSE first_pkt.ver
           /\ flash' \in [Parts -> Part] /\ flash'[base] = Saved(flash[base], pkt)
           /\ flash[base] \in Part
           /\ flash'[running] = flash[running] /\ BootSafe' /\ wild' = wild
    BY <1>8, PacketKept
  <2>3. TypeOK'
    BY <1>5, <2>2
  <2>4. first_pkt'.img \in Images /\ base = 1 - running
    BY <1>8, <2>2 DEF Inv, Progress, KeptOnce
  <2>5. ASSUME ~cut, NEW c \in Cells
        PROVE  /\ flash'[base].cell[c] \in {Blank, image}
               /\ c < next + 1 => flash'[base].cell[c] = image
    BY <1>8, <2>2, <2>5, PacketWritten
  <2>6. next + 1 >= Held => first_pkt'.ver > flash'[running].head.ver
    BY <1>1, <2>2, KeptVersion DEF Packets
  <2>7. ~cut => first_pkt'.img = image
    BY <1>8, <2>2 DEF Inv, Progress, WrittenSoFar, Clean
  <2>8. KeptOnce' /\ ErasedSoFar'
    BY <1>1, <1>2, <2>1, <2>2, <2>4 DEF KeptOnce, ErasedSoFar, Clean
  <2>9. WrittenSoFar'
    BY <1>1, <1>2, <2>1, <2>5, <2>6, <2>7 DEF WrittenSoFar, Clean
  <2>10. Finished'
    <3>1. next + 1 >= Total => \A c \in Cells : c < next + 1
      BY <1>1, Sizes
    <3>2. next + 1 >= Total => next + 1 >= Held
      BY <1>1, Sizes, OtaAssumption
    <3> QED BY <1>1, <1>2, <2>1, <2>5, <2>6, <2>7, <3>1, <3>2, Sizes DEF Finished, Clean
  <2> QED BY <1>4, <1>6, <2>2, <2>3, <2>8, <2>9, <2>10 DEF Inv, Progress
<1>9. CASE ~FirstPacket /\ ~first_pkt.buf
  <2>1. /\ UNCHANGED first_pkt /\ ~first_pkt.buf
        /\ \/ PacketDone /\ UNCHANGED <<flash, wild>>
           \/ /\ wild' = "save"
              /\ flash' = IF running = 0 /\ base = 1 THEN [flash EXCEPT ![1] = Strays(@)] ELSE flash
    BY <1>9 DEF WriteData
  <2>2. flash' \in [Parts -> Part] /\ flash'[running] = flash[running]
    BY <1>1, <2>1, StrayPart DEF Parts
  <2>3. TypeOK'
    BY <1>1, <1>5, <2>1, <2>2
  <2>4. BootSafe'
    BY <2>1, BootSafeStays DEF Inv, BootSafe
  <2>5. KeptOnce' /\ WrittenSoFar' /\ Finished'
    BY <2>1 DEF KeptOnce, WrittenSoFar, Finished, Inv, TypeOK, Progress, Clean
  <2>6. ErasedSoFar'
    <3>1. ~cut => next > 0
      BY <1>1, <1>9 DEF FirstPacket, Inv, Progress, Addressed
    <3>2. ~cut => next' > 0 \/ stage' \notin {"erase", "write", "pieces"}
      BY <1>1, <1>2, <1>3, <3>1
    <3>3. stage' # "erase"
      BY <1>2, <1>3
    <3> QED BY <1>4, <3>2, <3>3 DEF ErasedSoFar, Clean
  <2> QED BY <1>4, <1>6, <2>2, <2>3, <2>4, <2>5, <2>6 DEF Inv, Progress
<1> QED BY <1>7, <1>8, <1>9

\* A packet in one piece.
LEMMA WritePacketInv ==
  ASSUME Inv, WritePacket PROVE Inv' /\ flash'[running] = flash[running]
<1>1. Buffer \in {"none", "new", "held"}
  BY DEF Inv, TypeOK, Buffer
<1> QED BY <1>1, WriteDataInv DEF WritePacket, Command, Received, Inv, TypeOK

\* A packet in two pieces.
LEMMA LastPieceInv ==
  ASSUME Inv, LastPiece PROVE Inv' /\ flash'[running] = flash[running]
<1>1. Buffer \in {"none", "new", "held"} /\ Open \in BOOLEAN
  BY DEF Inv, TypeOK, Buffer, Open
<1>2. CASE Buffer = "held"
  BY <1>1, <1>2, WriteDataInv DEF LastPiece
<1>3. CASE Buffer # "held"
  <2> USE <1>3 DEF LastPiece, Received
  <2>1. TypeOK'
    BY <1>1 DEF Inv, TypeOK
  <2>2. BootSafe'
    BY BootSafeStays DEF Inv
  <2>3. Open' <=> Open
    BY DEF Open
  <2>4. Progress'
    BY <2>3 DEF Inv, Progress, Linked, Opened, KeptOnce, Addressed, ErasedSoFar, WrittenSoFar,
                Finished, Committing, Clean
  <2> QED BY <2>1, <2>2, <2>4 DEF Inv
<1> QED BY <1>2, <1>3

-----------------------------------------------------------------------------
(***************************************************************************)
(* The restart, and resets at any time.                                    *)
(***************************************************************************)
\* A head that is erased in the part that does not run leaves the boot's choice.
LEMMA HeadErased ==
  ASSUME Inv, wild = "no", NEW b \in Parts, b # running,
         flash' = [flash EXCEPT ![b].head = Blank], running' = running
  PROVE  /\ flash' \in [Parts -> Part] /\ flash'[running] = flash[running]
         /\ flash'[b].cell = flash[b].cell /\ BootSafe'
<1>1. flash \in [Parts -> Part] /\ running \in Parts /\ b = 1 - running
  BY OtherPart DEF Inv, TypeOK, Part, Marks
<1>2. /\ flash' \in [Parts -> Part] /\ flash'[running] = flash[running]
      /\ flash'[b].head = Blank /\ flash'[b].cell = flash[b].cell
  BY <1>1 DEF Part
<1>3. flash'[running].head \in Heads
  BY <1>2 DEF Inv, BootSafe, Complete
<1>4. \A p \in Parts : flash'[p].head # Mixed
  BY <1>1, <1>2, <1>3, HeadIsNotBlank, OtaAssumption, OtherPart DEF Inv
<1>5. Preferred(flash') = running
  BY <1>1, <1>2, <1>3, HeadIsNotBlank DEF Preferred, Parts
<1> QED BY <1>2, <1>4, <1>5 DEF Inv, BootSafe, Complete

\* A reset at any time finds what ran, or the new image.
LEMMA ResetInv ==
  ASSUME Inv, wild \in {"no", "save"}, Restart(flash) PROVE Inv'
<1>1. flash \in [Parts -> Part]
  BY DEF Inv, TypeOK, Part, Marks
<1>2. Spoilt \/ Sound(flash)
  BY DEF Spoilt, Sound, Inv, BootSafe
<1> QED BY <1>1, <1>2, RestartInv

\* The restart command erases the old head, or restarts.
LEMMA RebootInv ==
  ASSUME Inv, Reboot PROVE Inv' /\ flash'[running] = flash[running]
<1>1. Open \in BOOLEAN /\ Buffer \in {"none", "new", "held"} /\ 1 - running \in Parts
  BY OtherPart DEF Inv, TypeOK, Open, Buffer
<1>2. CASE ~first_pkt.buf
  BY <1>2, ResetInv DEF Reboot, Restart
<1>3. CASE first_pkt.buf
  <2>1. /\ flash' = [flash EXCEPT ![1 - running].head = Blank] /\ pc' = "commit"
        /\ ota_state' = Open /\ first_loop' = FALSE /\ ota_recving_buffer' = Buffer
        /\ UNCHANGED <<running, first_pkt, ota_recving_data, ota_link_ntf_enable, connected,
                       stage, image, next, base, wild, cut>>
        /\ stage = "reboot" /\ wild = "no"
    BY <1>3 DEF Reboot, client
  <2>2. /\ flash' \in [Parts -> Part] /\ flash'[running] = flash[running]
        /\ flash'[1 - running].cell = flash[1 - running].cell /\ BootSafe'
    BY <1>1, <2>1, OtherPart, HeadErased DEF Inv
  <2>3. TypeOK'
    BY <1>1, <2>1, <2>2 DEF Inv, TypeOK, Part, Marks
  <2>4. base = 1 - running /\ (Open' <=> Open) /\ (~cut => Open)
    BY <1>3, <2>1 DEF Inv, Progress, Opened, KeptOnce, Open
  <2>5. Linked' /\ Opened' /\ KeptOnce' /\ Addressed' /\ Committing'
    BY <1>3, <2>1, <2>4 DEF Inv, Progress, Linked, Opened, KeptOnce, Addressed, Committing
  <2>6. ErasedSoFar' /\ WrittenSoFar'
    BY <2>1 DEF ErasedSoFar, WrittenSoFar, Clean
  <2>7. Finished'
    BY <1>3, <2>1, <2>2, <2>4 DEF Inv, Progress, Finished, Clean
  <2> QED BY <2>2, <2>3, <2>5, <2>6, <2>7 DEF Inv, Progress
<1> QED BY <1>2, <1>3

\* What the restart after an update that nothing cut into finds is that update.
LEMMA CommitInv ==
  ASSUME Inv, Commit
  PROVE  /\ Inv' /\ flash'[running] = flash[running]
         /\ ~cut => /\ running' = base
                    /\ flash'[base].head.img = image /\ Complete(flash'[base])
<1> DEFINE new == [img |-> first_pkt.img, ver |-> first_pkt.ver]
           f   == [flash EXCEPT ![1 - running].head = new]
<1>1. /\ stage = "reboot" /\ first_pkt.buf /\ wild = "no" /\ base = 1 - running
      /\ first_pkt.img \in Images /\ first_pkt.ver \in Nat /\ (~cut => ota_state)
  BY DEF Commit, Inv, TypeOK, Progress, Committing, KeptOnce
<1>2. flash \in [Parts -> Part] /\ running \in Parts /\ base \in Parts /\ base # running
  BY <1>1, OtherPart DEF Inv, TypeOK, Part, Marks
<1>3. new \in Heads /\ new # Mixed /\ new # Blank /\ new.img = first_pkt.img /\ new.ver = first_pkt.ver
  BY <1>1, HeadIsNotBlank DEF Heads
<1> HIDE DEF new
<1>4. /\ f \in [Parts -> Part] /\ f[running] = flash[running]
      /\ f[base].head = new /\ f[base].cell = flash[base].cell
  BY <1>1, <1>2, <1>3 DEF Part
<1> HIDE DEF f
<1>5. CASE cut
  <2>1. PICK g \in {f, flash} : Restart(g)
    BY DEF Commit, f, new
  <2>2. Spoilt
    BY <1>5 DEF Spoilt, Commit
  <2>3. Inv'
    BY <1>2, <1>4, <2>1, <2>2, RestartInv
  <2>4. flash'[running] = flash[running]
    BY <1>4, <2>1 DEF Restart
  <2> QED BY <1>5, <2>3, <2>4
<1>6. CASE ~cut
  <2>1. /\ first_pkt.img = image /\ first_pkt.ver > flash[running].head.ver
        /\ \A c \in Cells : flash[base].cell[c] = image
    BY <1>1, <1>6 DEF Inv, Progress, Finished, Clean
  <2>2. Restart(f)
    BY <1>1, <1>6 DEF Commit, f, new
  <2>3. flash[running].head \in Heads /\ flash[running].head # Blank /\ flash[running].head # Mixed
        /\ flash[running].head.ver \in Nat
    BY <1>1, HeadIsNotBlank DEF Inv, BootSafe, Complete
  <2>4. Preferred(f) = base
    BY <1>1, <1>2, <1>3, <1>4, <2>1, <2>3 DEF Preferred, Parts
  <2>5. Complete(f[base])
    BY <1>3, <1>4, <2>1 DEF Complete
  <2>6. \A p \in Parts : f[p].head # Mixed
    BY <1>1, <1>3, <1>4, <2>3, OtherPart DEF Inv
  <2>7. flash' = f /\ running' = base
    BY <2>2, <2>4, <2>6 DEF Restart, Boots
  <2>8. Inv'
    BY <1>4, <2>2, <2>4, <2>5, <2>6, RestartInv DEF Sound
  <2> QED BY <1>3, <1>4, <2>1, <2>5, <2>7, <2>8
<1> QED BY <1>5, <1>6

\* An overrun spoils the flash, and nothing else changes.
LEMMA OverrunInv == ASSUME Inv, Overrun PROVE Inv'
<1>1. flash \in [Parts -> Part] /\ running \in Parts /\ 1 - running \in Parts
  BY OtherPart DEF Inv, TypeOK, Part, Marks
<1>2. ASSUME NEW p \in Parts, NEW c \in Cells
      PROVE  [flash EXCEPT ![p].cell[c] = Mixed] \in [Parts -> Part]
  <2>1. [flash[p].cell EXCEPT ![c] = Mixed] \in [Cells -> Marks]
    BY <1>1 DEF Part, Marks
  <2> QED BY <1>1, <2>1 DEF Part
<1>3. flash' \in [Parts -> Part]
  <2>1. ASSUME NEW p \in Parts PROVE Spoil(p) \/ SpoilHead(p) => flash' \in [Parts -> Part]
    <3>1. Spoil(p) => flash' \in [Parts -> Part]
      BY <1>2 DEF Spoil, Intact
    <3>2. SpoilHead(p) => flash' \in [Parts -> Part]
      <4>1. [flash[p] EXCEPT !.head = Mixed] \in Part
        BY <1>1 DEF Part
      <4> QED BY <1>1, <4>1 DEF SpoilHead
    <3> QED BY <3>1, <3>2
  <2>2. \E p \in {running, 1 - running} : Spoil(p) \/ SpoilHead(p)
    BY Zenon DEF Overrun
  <2> QED BY <1>1, <2>1, <2>2
<1>4. UNCHANGED <<running, ota, ota_link_ntf_enable, connected, client, pc, wild, cut>>
  BY DEF Overrun
<1>5. TypeOK'
  BY <1>3, <1>4 DEF ota, client, Inv, TypeOK, Part, Marks
<1>6. wild = "save"
  BY DEF Overrun
<1>7. BootSafe'
  BY <1>4, <1>6 DEF BootSafe
<1>8. Linked' /\ Opened' /\ KeptOnce' /\ Addressed' /\ Committing'
  BY <1>4 DEF ota, client, Inv, Progress, Linked, Opened, Open, KeptOnce, Addressed, Committing
<1>9. ErasedSoFar' /\ WrittenSoFar' /\ Finished'
  BY <1>4, <1>6 DEF ErasedSoFar, WrittenSoFar, Finished, Clean
<1> QED BY <1>5, <1>7, <1>8, <1>9 DEF Inv, Progress

\* Every step preserves the invariant, and none but an overrun touches the part that
\* runs.
LEMMA NextInv ==
  ASSUME Inv, [Next]_vars
  PROVE  Inv' /\ (wild # "save" => flash'[running] = flash[running])
<1>1. CASE \E l \in Links : LinkCreate(l)
  BY <1>1, LinkCreateInv DEF LinkCreate
<1>2. CASE \E l \in Links : LinkLost(l)
  BY <1>2, LinkLostInv DEF LinkLost
<1>3. CASE \E l \in Links, on \in BOOLEAN : WriteConfig(l, on)
  BY <1>3, WriteConfigInv DEF WriteConfig
<1>4. CASE \E i \in Images : GetStrBase(i)
  BY <1>4, GetStrBaseInv DEF GetStrBase
<1>5. CASE \E i \in Images : GoByOldBase(i)
  BY <1>5, GoByOldBaseInv DEF GoByOldBase
<1>6. CASE FirstPiece
  BY <1>6, FirstPieceInv DEF FirstPiece
<1>7. CASE Swallowed
  BY <1>7, SwallowedInv DEF Swallowed
<1>8. CASE PowerReset
  BY <1>8, ResetInv DEF PowerReset, Restart
<1>9. CASE PageErase \/ WritePacket \/ LastPiece \/ Reboot \/ Commit
  BY <1>9, PageEraseInv, WritePacketInv, LastPieceInv, RebootInv, CommitInv
<1>10. CASE Overrun
  BY <1>10, OverrunInv DEF Overrun
<1>11. CASE Astray \/ UNCHANGED vars
  <2>1. UNCHANGED vars
    BY <1>11 DEF Astray
  <2> QED
    BY <2>1 DEF vars, ota, client, Inv, TypeOK, BootSafe, Complete, Progress, Linked, Opened, Open,
                KeptOnce, Addressed, ErasedSoFar, WrittenSoFar, Finished, Committing, Clean
<1> QED
  BY <1>1, <1>2, <1>3, <1>4, <1>5, <1>6, <1>7, <1>8, <1>9, <1>10, <1>11 DEF Next

\* The invariant holds in every state.
LEMMA InvHolds == Spec => []Inv
<1>1. Init => Inv
  BY InitInv
<1>2. Inv /\ [Next]_vars => Inv'
  BY NextInv
<1> QED BY <1>1, <1>2, PTL DEF Spec

-----------------------------------------------------------------------------
(***************************************************************************)
(* The theorems.                                                           *)
(***************************************************************************)
\* The variables keep their types; no more packets are kept than there is room for.
THEOREM OtaTypeCorrect == Spec => []TypeOK
<1>1. Inv => TypeOK
  BY DEF Inv
<1> QED BY <1>1, InvHolds, PTL

\* Whenever the power fails, the boot finds a complete image, unless a write overran
\* or the head of an update was written that something had cut into.
THEOREM AlwaysBootable == Spec => []Bootable
<1>1. Inv => Bootable
  BY DEF Inv, BootSafe, Bootable, Boots
<1> QED BY <1>1, InvHolds, PTL

\* Nothing but an overrun touches the part that runs.
THEOREM RunsUntouched == Spec => RunningUntouched
<1>1. Inv /\ [Next]_vars => [wild # "save" => flash'[running] = flash[running]]_vars
  BY NextInv
<1> QED BY <1>1, InvHolds, PTL DEF Spec, RunningUntouched

\* An update that is carried through and not cut into is what runs then, whatever
\* its version.
THEOREM UpdateRuns == Spec => Installed
<1>1. Inv /\ [Next]_vars => [Commit /\ ~cut => /\ running' = base
                                              /\ flash'[base].head.img = image
                                              /\ Complete(flash'[base])]_vars
  BY CommitInv
<1> QED BY <1>1, InvHolds, PTL DEF Spec, Installed

-----------------------------------------------------------------------------
(***************************************************************************)
(* Every command is answered.  Undisturbed is not inductive: it needs that *)
(* an updater whose update no loss cut into is one that is answered, that  *)
(* the buffer of its packet in pieces is there and holds the first piece,  *)
(* and that its kept packets are there when more follow.                   *)
(***************************************************************************)
Asked == {"subscribed", "erase", "write", "pieces", "reboot"}

Uncut ==
  /\ wild = "no" /\ stage # "waiting"
  /\ stage \in Asked => ota_link_ntf_enable
  /\ stage \in Asked \cup {"ready"} => Buffer # "none"
  /\ stage = "pieces" => ota_recving_buffer = "held"
  /\ ota_recving_data => stage = "pieces"
  /\ stage \in {"write", "pieces"} /\ next > 0 => first_pkt.buf

Calm == ~cut => Uncut

\* A reset forgets whatever cut in, unless there is nothing left to boot.
LEMMA RestartCalm == ASSUME NEW f, Restart(f), Inv, Calm PROVE Calm'
<1> SUFFICES ASSUME ~cut' PROVE Uncut'
  BY DEF Calm
<1>1. wild' = "no"
  <2>1. cut => wild' = "no"
    BY DEF Restart
  <2>2. Spoilt => cut
    BY DEF Spoilt, Calm, Uncut
  <2> QED BY <2>1, <2>2 DEF Restart
<1> QED BY <1>1 DEF Restart, Uncut, Asked

\* Links come and go: the updater's own begins anew, and the loss of another one
\* is counted as long as it can do harm.
LEMMA LinksCalm ==
  ASSUME Inv, Calm, NEW l \in Links, LinkCreate(l) \/ LinkLost(l)
  PROVE  Calm'
<1>1. CASE LinkCreate(l) /\ l = Updater
  BY <1>1 DEF LinkCreate, Calm, Uncut, Asked, Buffer
<1>2. CASE LinkCreate(l) /\ l # Updater
  <2>1. Buffer # "none" => Buffer' # "none"
    BY <1>2 DEF LinkCreate, Buffer
  <2> QED BY <1>2, <2>1 DEF LinkCreate, Calm, Uncut, Asked
<1>3. CASE LinkLost(l) /\ l = Updater
  <2>1. ~cut' => ~cut /\ ~ota_recving_data'
    BY <1>3, Zenon DEF LinkLost
  <2> QED BY <1>3, <2>1 DEF LinkLost, Calm, Uncut, Asked
<1>4. CASE LinkLost(l) /\ l # Updater
  <2>1. ~cut' => ~cut /\ ~ota_recving_data' /\ stage \in {"off", "ready"}
    BY <1>4, Zenon DEF LinkLost, Going
  <2>2. stage = "ready" => first_loop'
    BY <1>4 DEF LinkLost, Inv, Progress, Opened
  <2>3. stage = "ready" => Buffer' # "none"
    BY <1>4, <2>2 DEF LinkLost, Buffer
  <2> QED BY <1>4, <2>1, <2>3 DEF LinkLost, Calm, Uncut, Asked
<1> QED BY <1>1, <1>2, <1>3, <1>4

\* What asks for answers, and the commands before the first packet.
LEMMA BeginCalm ==
  ASSUME Inv, Calm,
         \/ \E l \in Links, on \in BOOLEAN : WriteConfig(l, on)
         \/ PageErase
         \/ \E i \in Images : GetStrBase(i) \/ GoByOldBase(i)
  PROVE  Calm'
<1>1. CASE \E l \in Links, on \in BOOLEAN : WriteConfig(l, on)
  <2>1. PICK l \in Links, on \in BOOLEAN : WriteConfig(l, on)
    BY <1>1
  <2>2. /\ UNCHANGED <<wild, next, first_pkt, ota_recving_data, ota_recving_buffer, first_loop>>
        /\ stage' = IF l = Updater THEN "subscribed" ELSE stage
        /\ ota_link_ntf_enable' = on
    BY <2>1 DEF WriteConfig, ota
  <2>3. ~cut' => ~cut /\ (l # Updater /\ stage \in Asked => on)
    BY <2>1, Zenon DEF WriteConfig, Going, Asked
  <2>4. l = Updater => on /\ stage = "ready"
    BY <2>1 DEF WriteConfig
  <2> QED BY <2>2, <2>3, <2>4 DEF Calm, Uncut, Asked, Buffer
<1>2. CASE \E i \in Images : GetStrBase(i)
  <2>1. ~cut => Buffer' # "none"
    BY <1>2 DEF GetStrBase, Calm, Uncut, Asked, Buffer
  <2> QED BY <1>2, <2>1 DEF GetStrBase, Answer, Calm, Uncut, Asked
<1>3. CASE \E i \in Images : GoByOldBase(i)
  BY <1>3 DEF GoByOldBase, Update, ota, Calm, Uncut, Asked, Buffer
<1>4. CASE PageErase
  <2>1. ~cut => Buffer' # "none"
    BY <1>4 DEF PageErase, Command, Received, Calm, Uncut, Asked, Buffer
  <2>2. stage' = "write" => next' = 0
    <3>1. next \in Nat /\ Pages \in Nat
      BY OtaAssumption DEF Inv, TypeOK
    <3> QED BY <1>4, <3>1 DEF PageErase, Command, EraseDone, Answer
  <2>3. /\ UNCHANGED <<wild, ota_link_ntf_enable, ota_recving_data>>
        /\ stage = "erase" /\ ~ota_recving_data
        /\ stage' \in {"erase", "write"} \/ ~ota_link_ntf_enable
    BY <1>4 DEF PageErase, Command, Received, EraseDone, Answer
  <2>4. ~cut' => ~cut
    BY <1>4, Zenon DEF PageErase
  <2> QED BY <2>1, <2>2, <2>3, <2>4 DEF Calm, Uncut, Asked
<1> QED BY <1>1, <1>2, <1>3, <1>4

\* A packet of an update that was not cut into finds what was kept before it.
LEMMA WriteDataCalm ==
  ASSUME Inv, Calm, stage \in {"write", "pieces"}, WriteData, Received, first_loop' = FALSE,
         base' = base, cut' = cut, ota_recving_data' = FALSE, ota_recving_buffer' = Buffer
  PROVE  Calm'
<1> SUFFICES ASSUME ~cut PROVE Uncut'
  BY DEF Calm
<1>1. /\ wild = "no" /\ ota_link_ntf_enable /\ (next > 0 => first_pkt.buf)
      /\ base = 1 - running /\ next \in Nat /\ Total \in Nat /\ Buffer # "none"
  BY Sizes DEF Calm, Uncut, Asked, Inv, TypeOK, Progress, Addressed
<1>2. FirstPacket \/ first_pkt.buf
  BY <1>1 DEF FirstPacket
<1>3. PacketDone /\ wild' = "no" /\ first_pkt'.buf
  <2>1. CASE FirstPacket
    <3>1. /\ PacketDone /\ wild' = wild
          /\ first_pkt' = IF first_pkt.buf THEN first_pkt
                          ELSE [buf |-> TRUE, img |-> image, ver |-> VersionOf[image], pkts |-> 1]
      BY <2>1 DEF WriteData
    <3>2. CASE first_pkt.buf
      BY <1>1, <3>1, <3>2
    <3>3. CASE ~first_pkt.buf
      BY <1>1, <3>1, <3>3
    <3> QED BY <3>2, <3>3
  <2>2. CASE ~FirstPacket
    <3>1. PacketDone
      BY <1>2, <2>2 DEF WriteData
    <3>2. wild' = wild /\ first_pkt'.buf
      BY <1>1, <1>2, <2>2, PacketKept DEF Received
    <3> QED BY <1>1, <3>1, <3>2
  <2> QED BY <2>1, <2>2
<1>4. stage' \in {"write", "reboot"} /\ ota_link_ntf_enable'
  BY <1>1, <1>3 DEF PacketDone, Answer, Received
<1>5. Buffer' # "none"
  BY <1>1 DEF Buffer
<1> QED BY <1>3, <1>4, <1>5 DEF Uncut, Asked

\* The packets, whole and in pieces.  A command that is taken for a piece, or a
\* piece that finds no first one, follows a loss that cut in.
LEMMA PacketsCalm ==
  ASSUME Inv, Calm, WritePacket \/ FirstPiece \/ LastPiece \/ Swallowed
  PROVE  Calm'
<1>1. CASE WritePacket
  <2>1. ota_recving_data' = FALSE
    BY <1>1 DEF WritePacket, Command, Inv, TypeOK
  <2> QED BY <1>1, <2>1, WriteDataCalm DEF WritePacket, Command, Received
<1>2. CASE FirstPiece
  BY <1>2 DEF FirstPiece, Command, Received, Calm, Uncut, Asked, Buffer
<1>3. CASE LastPiece /\ Buffer = "held"
  BY <1>3, WriteDataCalm DEF LastPiece, Received
<1>4. CASE LastPiece /\ Buffer # "held"
  <2>1. cut
    BY <1>4 DEF LastPiece, Calm, Uncut, Buffer
  <2> QED BY <1>4, <2>1 DEF LastPiece, Received, Calm
<1>5. CASE Swallowed
  <2>1. cut
    BY <1>5 DEF Swallowed, Calm, Uncut
  <2> QED BY <1>5, <2>1 DEF Swallowed, Received, Calm
<1> QED BY <1>1, <1>2, <1>3, <1>4, <1>5

\* The restart.
LEMMA RestartsCalm == ASSUME Inv, Calm, Reboot \/ Commit \/ PowerReset PROVE Calm'
<1>1. CASE Reboot /\ first_pkt.buf
  BY <1>1 DEF Reboot, client, Calm, Uncut, Asked, Buffer
<1>2. CASE Reboot /\ ~first_pkt.buf
  BY <1>2, RestartCalm DEF Reboot
<1>3. CASE Commit
  BY <1>3, RestartCalm DEF Commit, Calm
<1>4. CASE PowerReset
  BY <1>4, RestartCalm DEF PowerReset
<1> QED BY <1>1, <1>2, <1>3, <1>4

\* Every step keeps an update that was not disturbed on its way.
LEMMA NextCalm == ASSUME Inv, Calm, [Next]_vars PROVE Calm'
<1>1. CASE \E l \in Links : LinkCreate(l) \/ LinkLost(l)
  BY <1>1, LinksCalm
<1>2. CASE \/ \E l \in Links, on \in BOOLEAN : WriteConfig(l, on)
           \/ PageErase
           \/ \E i \in Images : GetStrBase(i) \/ GoByOldBase(i)
  BY <1>2, BeginCalm
<1>3. CASE WritePacket \/ FirstPiece \/ LastPiece \/ Swallowed
  BY <1>3, PacketsCalm
<1>4. CASE Reboot \/ Commit \/ PowerReset
  BY <1>4, RestartsCalm
<1>5. CASE Overrun
  BY <1>5 DEF Overrun, Calm, Uncut
<1>6. CASE Astray \/ UNCHANGED vars
  BY <1>6 DEF Astray, vars, ota, client, Calm, Uncut, Asked, Buffer
<1> QED BY <1>1, <1>2, <1>3, <1>4, <1>5, <1>6 DEF Next

\* An updater is answered, no memory outside the buffers is touched and no write
\* overruns, unless a loss of another link cut into its update, or one of any link
\* into a packet, another link turned the answers off, or it addressed what runs.
THEOREM UpdateUndisturbed == Spec => []Undisturbed
<1>1. Init => Calm
  BY DEF Init, Calm, Uncut, Asked
<1>2. Inv /\ Calm /\ [Next]_vars => Calm'
  BY NextCalm
<1>3. Calm => Undisturbed
  BY DEF Calm, Uncut, Undisturbed
<1> QED BY <1>1, <1>2, <1>3, InvHolds, PTL DEF Spec
=============================================================================
