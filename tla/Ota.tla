-------------------------------- MODULE Ota --------------------------------
(***************************************************************************)
(* The firmware's update over the air (ota.c, ota_service.c, and the flash *)
(* functions of patch.c).  The flash has room for two images, part A and   *)
(* part B; the device runs one and an updater writes the other.  The first *)
(* 256 bytes of an image, its head, hold its version.  They are kept back  *)
(* in memory and written last, so that the boot, which takes the newer of  *)
(* the two, finds the new image when it is complete.                       *)
(*                                                                         *)
(* An image is sent in packets.  The first Held of them make up at least   *)
(* the head and wait in memory.  The updater sends one command at a time   *)
(* and goes on when it is answered; it may send a packet in two pieces.    *)
(* All links share one state: any of them may be lost at any time, and may *)
(* turn the answers on or off.                                             *)
(***************************************************************************)
EXTENDS Naturals

CONSTANTS
  Links,
  Updater,     \* the link of the updater
  Images,
  Factory,     \* the image in part A at first
  VersionOf,   \* the version an image is sent with
  MaxVersion,  \* bound: no update starts from a higher version
  Pages,       \* flash pages of an image
  PerPage,     \* packets in a page
  Held,        \* packets kept back: ROUND(256, length)
  Blank,       \* what erased flash holds
  Mixed        \* what is left when flash is written twice, or with what is no image

ASSUME OtaAssumption ==
  /\ Updater \in Links /\ Factory \in Images
  /\ Blank \notin Images /\ Mixed \notin Images /\ Blank # Mixed
  /\ Blank \notin [img : Images, ver : Nat] /\ Mixed \notin [img : Images, ver : Nat]
  /\ MaxVersion \in Nat /\ VersionOf \in [Images -> 0 .. MaxVersion]
  /\ Pages \in Nat \ {0} /\ PerPage \in Nat /\ Held \in 1 .. PerPage
  /\ Held < Pages * PerPage

Parts == {0, 1}              \* part A, part B
Total == Pages * PerPage
Cells == Held - 1 .. Total - 1   \* Held - 1: the kept packets, from byte 256
Heads == [img : Images, ver : Nat]

VARIABLES
  flash,                \* each part: the head and what every packet left
  running,              \* the part that runs (system_regs->remap_length # 0: B)
  first_pkt,            \* the packets kept back
  first_loop, ota_state, ota_link_ntf_enable,
  ota_recving_data,     \* a packet is being sent in pieces
  ota_recving_buffer,   \* "none", "new", or "held": its first piece is there
  connected,            \* the links
  stage, image, next,   \* the updater: what it sends next
  base,                 \* the part it was told to write, 2 if it never asked
  pc,                   \* "commit": the new head is erased and not yet written
  wild,                 \* "save": flash is being written without an end; "piece": a
                        \* piece went outside its buffer; "broken": nothing to boot
  cut                   \* ghost: what Undisturbed excepts came in between

ota    == <<first_pkt, first_loop, ota_state, ota_recving_data, ota_recving_buffer>>
client == <<stage, image, next, base>>
vars   == <<flash, running, ota, ota_link_ntf_enable, connected, client, pc, wild, cut>>

NoPacket == [buf |-> FALSE, img |-> Blank, ver |-> 0, pkts |-> 0]
-----------------------------------------------------------------------------
\* The boot takes part B if it has a head and A has none or an older one.
Preferred(f) ==
  IF f[1].head # Blank /\ (f[0].head = Blank \/ f[1].head.ver > f[0].head.ver)
  THEN 1 ELSE 0

\* A spoilt head may say anything.
Boots(f) == IF \E p \in Parts : f[p].head = Mixed THEN Parts ELSE {Preferred(f)}

Complete(part) == part.head \in Heads /\ \A c \in Cells : part.cell[c] = part.head.img

\* Flash that is not erased before it is written keeps bits of both.
Written(cell, img) == IF cell \in {Blank, img} THEN img ELSE Mixed

\* What may leave no image to boot: an overrun, or the head of an update that was
\* cut into.
Spoilt == wild = "save" \/ (pc = "commit" /\ cut)

\* A reset: the memory is lost, and the updater's link with it.
Restart(f) ==
  /\ flash' = f /\ running' \in Boots(f)
  /\ first_pkt' = NoPacket /\ first_loop' = FALSE /\ ota_state' = FALSE
  /\ ota_recving_data' = FALSE /\ ota_recving_buffer' = "none"
  /\ ota_link_ntf_enable' = FALSE /\ connected' = {}
  /\ stage' = "off" /\ next' = 0 /\ UNCHANGED <<image, base>>
  /\ pc' = "run"
  /\ wild' = IF Spoilt /\ \E p \in Boots(f) : ~Complete(f[p]) THEN "broken" ELSE "no"
  /\ cut' = (cut /\ wild' = "broken")

\* Mutant: the first command after a connection is like any other.
LinkCreateQuiet(l) ==
  /\ pc = "run" /\ wild = "no" /\ l \notin connected
  /\ connected' = connected \cup {l}
  /\ stage' = IF l = Updater THEN "ready" ELSE stage
  /\ cut' = IF l = Updater THEN ota_recving_data ELSE cut
  /\ UNCHANGED <<flash, running, ota, ota_link_ntf_enable, image, next, base, pc, wild>>

\* GATTC_MSG_LINK_CREATE: ota_init.
LinkCreate(l) ==
  /\ pc = "run" /\ wild = "no" /\ l \notin connected
  /\ connected' = connected \cup {l}
  /\ first_loop' = TRUE
  /\ stage' = IF l = Updater THEN "ready" ELSE stage
  /\ cut' = IF l = Updater THEN ota_recving_data ELSE cut
  /\ UNCHANGED <<flash, running, first_pkt, ota_state, ota_recving_data, ota_recving_buffer,
                 ota_link_ntf_enable, image, next, base, pc, wild>>

\* The updater's link is up and it has asked for answers.
Going == stage \notin {"off", "ready"}

\* GATTC_MSG_LINK_LOST: ota_deinit.  That a packet is awaited in pieces stays.
LinkLost(l) ==
  /\ pc = "run" /\ wild = "no" /\ l \in connected
  /\ connected' = connected \ {l}
  /\ first_loop' = (first_loop \/ first_pkt.buf)
  /\ first_pkt' = NoPacket
  /\ ota_state' = FALSE /\ ota_recving_buffer' = "none"
  /\ ota_link_ntf_enable' = FALSE
  /\ stage' = IF l = Updater THEN "off" ELSE stage
  /\ cut' = (cut \/ ota_recving_data \/ (l # Updater /\ Going))
  /\ UNCHANGED <<flash, running, ota_recving_data, image, next, base, pc, wild>>

\* GATTC_MSG_WRITE_REQ of the descriptor: any link turns the answers of all on or
\* off.  The updater turns them on and begins.
WriteConfig(l, on) ==
  /\ pc = "run" /\ wild = "no" /\ l \in connected
  /\ l = Updater => on /\ stage = "ready"
  /\ ota_link_ntf_enable' = on
  /\ stage' = IF l = Updater THEN "subscribed" ELSE stage
  /\ cut' = (cut \/ (l # Updater /\ ~on /\ Going))
  /\ UNCHANGED <<flash, running, ota, connected, image, next, base, pc, wild>>
-----------------------------------------------------------------------------
\* app_get_ota_state() and ota_recving_buffer once a command's handling began.
Open   == first_loop \/ ota_state
Buffer == IF first_loop /\ ota_recving_buffer = "none" THEN "new" ELSE ota_recving_buffer

\* The beginning of app_otas_recv_data.
Received == /\ pc = "run" /\ wild = "no"
            /\ ota_state' = Open
            /\ UNCHANGED <<running, ota_link_ntf_enable, connected, image>>

\* A command, when no pieces are awaited.
Command == /\ Received
           /\ ~ota_recving_data
           /\ first_loop' = FALSE

\* ota_gatt_report_notify: without an answer the updater waits.
Answer(then) == stage' = IF ota_link_ntf_enable THEN then ELSE "waiting"

\* The next update has an image of the updater's choice.
Update(i) == flash[running].head.ver < MaxVersion /\ image' = i /\ next' = 0

\* OTA_CMD_GET_STR_BASE.
GetStrBase(i) ==
  /\ pc = "run" /\ wild = "no" /\ stage = "subscribed" /\ ~ota_recving_data
  /\ Update(i)
  /\ first_pkt' = NoPacket /\ first_loop' = first_pkt.buf
  /\ ota_state' = Open /\ ota_recving_buffer' = Buffer
  /\ base' = 1 - running
  /\ Answer("erase")
  /\ UNCHANGED <<flash, running, ota_recving_data, ota_link_ntf_enable, connected, pc, wild, cut>>

\* The updater goes by what it was told on an earlier link.
GoByOldBase(i) ==
  /\ pc = "run" /\ wild = "no" /\ stage = "subscribed"
  /\ base \in Parts /\ Update(i)
  /\ stage' = "erase"
  /\ UNCHANGED <<flash, running, ota, ota_link_ntf_enable, connected, base, pc, wild, cut>>

\* A page without its head if it is the first; the others only while flash may be
\* erased (flash_erase of patch.c).
Erased(part) ==
  [part EXCEPT !.cell = [c \in Cells |->
     IF c \div PerPage = next /\ (next = 0 \/ Open) THEN Blank ELSE part.cell[c]]]

EraseDone ==
  /\ next' = IF next + 1 < Pages THEN next + 1 ELSE 0
  /\ Answer(IF next + 1 < Pages THEN "erase" ELSE "write")

\* Mutant: the address is not checked.
PageEraseAnywhere ==
  /\ stage = "erase" /\ Command
  /\ ota_recving_buffer' = Buffer
  /\ flash' = [flash EXCEPT ![base] = Erased(@)]
  /\ EraseDone
  /\ cut' = (cut \/ base = running)
  /\ UNCHANGED <<first_pkt, ota_recving_data, base, pc, wild>>

\* OTA_CMD_PAGE_ERASE.  Who addresses the part that runs is to be disconnected, and
\* is answered as if the page were erased.
PageErase ==
  /\ stage = "erase" /\ Command
  /\ ota_recving_buffer' = Buffer
  /\ flash' = IF base = running THEN flash ELSE [flash EXCEPT ![base] = Erased(@)]
  /\ EraseDone
  /\ cut' = (cut \/ base = running)
  /\ UNCHANGED <<first_pkt, ota_recving_data, base, pc, wild>>

\* Mutant: an image of the same version is left as it is.
NewVersionLax(v) ==
  IF v < flash[running].head.ver THEN flash[running].head.ver + 1 ELSE v

\* The kept version is raised if it is not newer than the one that runs.
NewVersion(v) ==
  IF v <= flash[running].head.ver THEN flash[running].head.ver + 1 ELSE v

\* Mutant: one packet too many is kept.
KeptBackOneMore(n) == n <= Held

\* A packet that belongs to the head or to the rest of the kept ones.
KeptBack(n) == n <= Held - 1

\* Mutant: the kept packets are saved with the head.
SavedWhole(part, pkt) ==
  IF ~Open THEN part
  ELSE [head |-> IF pkt.pkts >= Held THEN [img |-> pkt.img, ver |-> pkt.ver] ELSE part.head,
        cell |-> [c \in Cells |->
                    CASE c = next /\ ~KeptBack(next)       -> Written(part.cell[c], image)
                      [] c = Held - 1 /\ pkt.pkts >= Held  -> Written(part.cell[c], pkt.img)
                      [] OTHER                             -> part.cell[c]]]

\* What a packet leaves in flash: itself, unless it is kept back, and the kept
\* packets from byte 256 once they are complete.  flash_write of patch.c writes
\* nothing unless ota_state is set.
Saved(part, pkt) ==
  IF ~Open THEN part
  ELSE [part EXCEPT !.cell = [c \in Cells |->
          CASE c = next /\ ~KeptBack(next)       -> Written(part.cell[c], image)
            [] c = Held - 1 /\ pkt.pkts >= Held  -> Written(part.cell[c], pkt.img)
            [] OTHER                             -> part.cell[c]]]

\* base_address == new_bin_base.
FirstPacket == next = 0 /\ base = 1 - running

\* new_bin_base + length * (0 - 1), without kept packets, lies below part B: none of
\* its packets is taken for a kept one, and those of the head go where it is.  (For
\* part A it wraps, and all are.)
Strays(part) ==
  [head |-> IF next < Held THEN Mixed ELSE part.head,
   cell |-> [c \in Cells |-> IF c = next THEN Written(part.cell[c], image) ELSE part.cell[c]]]

PacketDone ==
  /\ next' = IF next + 1 < Total THEN next + 1 ELSE 0
  /\ Answer(IF next + 1 < Total THEN "write" ELSE "reboot")

\* OTA_CMD_WRITE_DATA.  Without kept packets their number is 0, and so many are
\* complete at once: "the rest" of no buffer, 0 - 256 bytes, is saved, if flash may
\* be written.  (Its version, in the ROM at NULL, is raised to no effect, or that
\* faults, which is a reset.)
WriteData ==
  LET pkts == IF KeptBack(next) THEN first_pkt.pkts + 1 ELSE first_pkt.pkts
      pkt  == [first_pkt EXCEPT !.pkts = pkts,
                                !.ver = IF pkts >= Held THEN NewVersion(@) ELSE @]
  IN \/ /\ FirstPacket
        /\ first_pkt' = IF first_pkt.buf THEN first_pkt
                        ELSE [buf |-> TRUE, img |-> image, ver |-> VersionOf[image], pkts |-> 1]
        /\ PacketDone
        /\ UNCHANGED <<flash, wild>>
     \/ /\ ~FirstPacket /\ first_pkt.buf
        /\ first_pkt' = pkt
        /\ flash' = [flash EXCEPT ![base] = Saved(@, pkt)]
        /\ PacketDone
        /\ UNCHANGED wild
     \/ /\ ~FirstPacket /\ ~first_pkt.buf /\ ~Open
        /\ PacketDone
        /\ UNCHANGED <<flash, first_pkt, wild>>
     \/ /\ ~FirstPacket /\ ~first_pkt.buf /\ Open
        /\ flash' = IF running = 0 /\ base = 1 THEN [flash EXCEPT ![1] = Strays(@)] ELSE flash
        /\ wild' = "save"
        /\ UNCHANGED <<first_pkt, stage, next>>

WritePacket ==
  /\ stage = "write" /\ Command
  /\ ota_recving_buffer' = Buffer
  /\ WriteData
  /\ UNCHANGED <<ota_recving_data, base, pc, cut>>

\* OTA_CMD_NULL: the first piece goes to the buffer, if there is one.
FirstPiece ==
  /\ stage = "write" /\ Command
  /\ stage' = "pieces"
  /\ ota_recving_data' = TRUE
  /\ IF Buffer = "none"
     THEN wild' = "piece" /\ UNCHANGED ota_recving_buffer
     ELSE ota_recving_buffer' = "held" /\ UNCHANGED wild
  /\ UNCHANGED <<flash, first_pkt, next, base, pc, cut>>

\* The last piece completes a command, if the first one is still there.
LastPiece ==
  /\ stage = "pieces" /\ Received
  /\ first_loop' = FALSE
  /\ ota_recving_data' = FALSE /\ ota_recving_buffer' = Buffer
  /\ IF Buffer = "held"
     THEN WriteData
     ELSE wild' = "piece" /\ UNCHANGED <<flash, first_pkt, stage, next>>
  /\ UNCHANGED <<base, pc, cut>>

\* A command is taken for a piece that was due on an earlier link: it waits for
\* more, or what is in the new buffer is carried out.
Swallowed ==
  /\ stage \in {"subscribed", "erase", "write", "reboot"} /\ ota_recving_data
  /\ Received
  /\ first_loop' = FALSE /\ ota_recving_buffer' = Buffer
  /\ \/ stage' = "waiting" /\ UNCHANGED <<wild, ota_recving_data>>
     \/ wild' = "piece" /\ ota_recving_data' = FALSE /\ UNCHANGED stage
  /\ UNCHANGED <<flash, first_pkt, next, base, pc, cut>>

\* OTA_CMD_REBOOT: the old head is erased, the new one written, and the device
\* starts anew; or only the last if nothing is kept.
Reboot ==
  /\ pc = "run" /\ wild = "no" /\ stage = "reboot" /\ ~ota_recving_data
  /\ IF first_pkt.buf
     THEN /\ flash' = [flash EXCEPT ![1 - running].head = Blank]
          /\ pc' = "commit"
          /\ ota_state' = Open /\ first_loop' = FALSE /\ ota_recving_buffer' = Buffer
          /\ UNCHANGED <<running, first_pkt, ota_recving_data, ota_link_ntf_enable,
                         connected, client, wild, cut>>
     ELSE Restart(flash)

Commit ==
  /\ pc = "commit"
  /\ Restart(IF ota_state
             THEN [flash EXCEPT ![1 - running].head = [img |-> first_pkt.img, ver |-> first_pkt.ver]]
             ELSE flash)

\* The first packet of a part that is not spoilt yet.
Intact(part) ==
  {c \in Cells : part.cell[c] # Mixed /\ \A d \in Cells : d < c => part.cell[d] = Mixed}

Spoil(p)     == \E c \in Intact(flash[p]) : flash' = [flash EXCEPT ![p].cell[c] = Mixed]
SpoilHead(p) == flash[p].head # Mixed /\ flash' = [flash EXCEPT ![p].head = Mixed]

\* flash_write of nearly 2^32 bytes, from byte 256 of the part that does not run on
\* to the one that runs and round to where it began, with interrupts disabled.
Overrun ==
  /\ wild = "save"
  /\ LET gone(p) == Intact(flash[p]) = {}
     IN \/ Spoil(1 - running)
        \/ gone(1 - running) /\ SpoilHead(running)
        \/ gone(1 - running) /\ flash[running].head = Mixed /\ Spoil(running)
        \/ gone(1 - running) /\ flash[running].head = Mixed /\ gone(running)
           /\ SpoilHead(1 - running)
  /\ UNCHANGED <<running, ota, ota_link_ntf_enable, connected, client, pc, wild, cut>>

\* The power fails or the watchdog bites, also between two flash operations.
PowerReset == wild \in {"no", "save"} /\ Restart(flash)

\* Nothing is said of what follows a write outside the buffers, and no update of a
\* device with nothing to boot.
Astray == wild \in {"piece", "broken"} /\ UNCHANGED vars
-----------------------------------------------------------------------------
Init ==
  /\ flash = [p \in Parts |->
       IF p = 0
       THEN [head |-> [img |-> Factory, ver |-> VersionOf[Factory]], cell |-> [c \in Cells |-> Factory]]
       ELSE [head |-> Blank, cell |-> [c \in Cells |-> Blank]]]
  /\ running = 0
  /\ first_pkt = NoPacket /\ first_loop = FALSE /\ ota_state = FALSE
  /\ ota_link_ntf_enable = FALSE
  /\ ota_recving_data = FALSE /\ ota_recving_buffer = "none"
  /\ connected = {}
  /\ stage = "off" /\ image = Factory /\ next = 0 /\ base = 2
  /\ pc = "run" /\ wild = "no" /\ cut = FALSE

Next ==
  \/ \E l \in Links : LinkCreate(l)
  \/ \E l \in Links : LinkLost(l)
  \/ \E l \in Links, on \in BOOLEAN : WriteConfig(l, on)
  \/ \E i \in Images : GetStrBase(i)
  \/ \E i \in Images : GoByOldBase(i)
  \/ PageErase
  \/ WritePacket
  \/ FirstPiece
  \/ LastPiece
  \/ Swallowed
  \/ Reboot
  \/ Commit
  \/ Overrun
  \/ PowerReset
  \/ Astray

Spec == Init /\ [][Next]_vars
-----------------------------------------------------------------------------
(***************************************************************************)
(* Properties.                                                             *)
(***************************************************************************)
\* Type invariant: no more than Held packets are kept (the size of first_pkt.buf).
TypeOK ==
  /\ flash \in [Parts -> [head : Heads \cup {Blank, Mixed},
                         cell : [Cells -> Images \cup {Blank, Mixed}]]]
  /\ running \in Parts /\ base \in Parts \cup {2}
  /\ first_pkt \in [buf : BOOLEAN, img : Images \cup {Blank}, ver : Nat, pkts : 0 .. Held]
  /\ first_loop \in BOOLEAN /\ ota_state \in BOOLEAN /\ ota_link_ntf_enable \in BOOLEAN
  /\ ota_recving_data \in BOOLEAN /\ ota_recving_buffer \in {"none", "new", "held"}
  /\ connected \subseteq Links
  /\ stage \in {"off", "ready", "subscribed", "erase", "write", "pieces", "reboot", "waiting"}
  /\ image \in Images /\ next \in 0 .. Total - 1
  /\ pc \in {"run", "commit"} /\ wild \in {"no", "save", "piece", "broken"} /\ cut \in BOOLEAN

\* Whenever the power fails, the boot finds a complete image: the head of a new
\* one is not there before the rest, and the head of an old one, whose pages are
\* erased first, is older than what runs.  The exceptions are an overrun and what
\* follows the head of an update that was cut into (Spoilt).
Bootable == wild \in {"no", "piece"} => \A p \in Boots(flash) : Complete(flash[p])

\* An update that is carried through, and not cut into, is what the device runs
\* then, also if the image was sent with an old version.
Installed ==
  [][Commit /\ ~cut => /\ running' = base
                      /\ flash'[base].head.img = image
                      /\ Complete(flash'[base])]_vars

\* Nothing but an overrun erases or writes the part that runs, even if an updater
\* goes by an old address and by the answers to its refused commands.
RunningUntouched == [][wild # "save" => flash'[running] = flash[running]]_vars

\* Every command is answered, no memory outside the buffers is touched and no write
\* overruns, unless the update was cut into: another link was lost or turned the
\* answers off after the updater had asked for them, a link was lost in the middle
\* of a packet since the last reset, or the updater addressed the part that runs.
Undisturbed == ~cut => wild = "no" /\ stage # "waiting"

\* The comment at ota.c:462: the kept packets are written "from 256 ~ length *
\* malloced_pkt_num", whose end is that of the first cell; nothing else of a part
\* is overwritten by saving them.
SavedRange ==
  [][wild = "save" => \A p \in Parts : \A c \in Cells \ {Held - 1} :
                        flash'[p].cell[c] = flash[p].cell[c]]_vars
=============================================================================
