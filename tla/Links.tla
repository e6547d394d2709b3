-------------------------------- MODULE Links --------------------------------
(***************************************************************************)
(* The links of the BLE firmware (ble_AT - music): advertising, the        *)
(* connection parameters that are asked for 1.5 s after a link came up,    *)
(* with one timer for all links, and the two buttons with the sleep mode   *)
(* they switch.  What a link does to the transparent mode is in Bridge.    *)
(*                                                                         *)
(* The device is a slave: the role is the default that is set when no      *)
(* parameters are stored.  Callbacks, timers and tasks run one at a time   *)
(* in one loop; the pin interrupt comes between any two of them.  LEDs and *)
(* the copies of peer parameters are left out: nothing reads them.  The    *)
(* disconnect button adds nothing to a link that may be lost at any time.  *)
(***************************************************************************)
EXTENDS Naturals, FiniteSets

CONSTANTS
  Conn,    \* connection indices
  NoLink   \* not one of them

ASSUME LinksAssumption == IsFiniteSet(Conn) /\ NoLink \notin Conn

\* Parameters as asked for; with an interval above LINK_INTERVAL_MIN; with only
\* the latency or the timeout other than asked for.
Param  == {"good", "slow", "other"}
\* GAP_ERR_COMMAND_DISALLOWED; one of the three refusals; any other status.
Status == {"disallowed", "refused", "transient"}
Pin    == {"PC5", "PD6"}

VARIABLES
  conn,           \* the links that are connected
  latest,         \* what gap_get_latest_conn_parameter returns
  param_timer,    \* update_param_timer runs
  timer_arg,      \* the link it was last initialised for: the last one connected
  asked,          \* the stack: links with an update request not answered yet
  svc_added,      \* GAP_EVT_ALL_SVC_ADDED has been handled
  advertising,    \* the stack advertises
  adv_end,        \* the stack has ended advertising and not yet said so
  lone,           \* ghost: the link that is and has always been the only one
  owed            \* ghost: the lone link's parameters have still to be looked at

VARIABLES
  auto_sleep,     \* gAT_buff_env.default_info.auto_sleep, as loaded
  sleep,          \* system_sleep_enable
  pins,           \* the buttons that are down
  pin_isr,        \* an edge whose interrupt has not been served
  curr_button,    \* curr_button_before_anti_shake
  button_timer,   \* button_anti_shake_timer runs
  early           \* ghost: PC5 was down when the services had been added

linkVars   == <<conn, latest, param_timer, timer_arg, asked, lone, owed>>
advVars    == <<svc_added, advertising, adv_end>>
buttonVars == <<auto_sleep, sleep, pins, pin_isr, curr_button, button_timer, early>>
vars       == <<linkVars, advVars, buttonVars>>
-----------------------------------------------------------------------------
(***************************************************************************)
(* Connection parameters.                                                  *)
(***************************************************************************)
\* at_con_param_update(c, latency), when param is the latest link's parameters:
\* it is these that decide, and current_con_interval is LINK_INTERVAL_MIN ever.
AskUnlessGood(c, param, pending) == IF param = "good" THEN pending ELSE pending \cup {c}

\* Mutant: the timer keeps the argument it was first initialised with.
SlaveConnectedKeepsArg(c, p) ==
  /\ advertising /\ c \notin conn
  /\ conn' = conn \cup {c}
  /\ latest' = p
  /\ param_timer' = TRUE /\ timer_arg' = (IF timer_arg = NoLink THEN c ELSE timer_arg)
  /\ asked' = asked \ {c}
  /\ advertising' = FALSE /\ adv_end' = TRUE
  /\ lone' = (IF conn = {} THEN c ELSE NoLink) /\ owed' = TRUE
  /\ UNCHANGED <<svc_added, buttonVars>>

\* at_cb_slave_connected; the stack stops advertising and will say so.
SlaveConnected(c, p) ==
  /\ advertising /\ c \notin conn
  /\ conn' = conn \cup {c}
  /\ latest' = p
  /\ param_timer' = TRUE /\ timer_arg' = c
  /\ asked' = asked \ {c}
  /\ advertising' = FALSE /\ adv_end' = TRUE
  /\ lone' = (IF conn = {} THEN c ELSE NoLink) /\ owed' = TRUE
  /\ UNCHANGED <<svc_added, buttonVars>>

\* Mutant: a lost link starts advertising too.
DisconnectedAdvertises(c) ==
  /\ c \in conn
  /\ conn' = conn \ {c}
  /\ lone' = (IF c = lone THEN NoLink ELSE lone)
  /\ advertising' = TRUE
  /\ UNCHANGED <<latest, param_timer, timer_arg, asked, owed, svc_added, adv_end, buttonVars>>

\* at_cb_disconnected does not touch the timer: it may fire for a lost link.
Disconnected(c) ==
  /\ c \in conn
  /\ conn' = conn \ {c}
  /\ lone' = (IF c = lone THEN NoLink ELSE lone)
  /\ UNCHANGED <<latest, param_timer, timer_arg, asked, owed, advVars, buttonVars>>

\* Mutant: the handler waits again instead of asking.
ParamTimerAgain ==
  /\ param_timer
  /\ latest # "good"
  /\ UNCHANGED vars

\* param_timer_func.
ParamTimer ==
  /\ param_timer
  /\ param_timer' = FALSE
  /\ asked' = AskUnlessGood(timer_arg, latest, asked)
  /\ owed' = (owed /\ timer_arg # lone)
  /\ UNCHANGED <<conn, latest, timer_arg, lone, advVars, buttonVars>>

\* at_cb_param_ind: p is what the peer has set, asked or not.  Whether the
\* parameters of the last connection follow an update is up to the stack.
ParamUpdated(c, p) ==
  /\ c \in conn
  /\ latest' \in {latest} \cup {q \in {p} : c = timer_arg}
  /\ asked' = IF p = "slow" THEN AskUnlessGood(c, latest', asked \ {c}) ELSE asked \ {c}
  /\ UNCHANGED <<conn, param_timer, timer_arg, lone, owed, advVars, buttonVars>>

\* at_cb_param_rejected.  The interval is never raised: it is 24 and only an
\* interval below 15 would be.  A lost link's request is not refused by a peer.
ParamRejected(c, s) ==
  /\ c \in asked
  /\ s = "refused" => c \in conn
  /\ asked' = asked \ {c}
  /\ param_timer' = CASE s = "disallowed" -> param_timer
                      [] s = "transient"  -> TRUE
                      [] s = "refused"    -> FALSE
  /\ owed' = IF c = lone /\ s # "disallowed" THEN s = "transient" ELSE owed
  /\ UNCHANGED <<conn, latest, timer_arg, lone, advVars, buttonVars>>
-----------------------------------------------------------------------------
(***************************************************************************)
(* Advertising.                                                            *)
(***************************************************************************)
\* at_all_svc_added.
SvcAdded ==
  /\ ~svc_added
  /\ svc_added' = TRUE
  /\ advertising' = TRUE
  /\ sleep' = auto_sleep
  /\ early' = ("PC5" \in pins)
  /\ UNCHANGED <<linkVars, adv_end, auto_sleep, pins, pin_isr, curr_button, button_timer>>

\* Mutant: advertising goes on only when no link is up.
AdvEndAlone ==
  /\ adv_end
  /\ adv_end' = FALSE
  /\ advertising' = (conn = {})
  /\ UNCHANGED <<linkVars, svc_added, buttonVars>>

\* GAP_EVT_ADV_END: at_cb_adv_end starts advertising again.
AdvEnd ==
  /\ adv_end
  /\ adv_end' = FALSE
  /\ advertising' = TRUE
  /\ UNCHANGED <<linkVars, svc_added, buttonVars>>
-----------------------------------------------------------------------------
(***************************************************************************)
(* Buttons.                                                                *)
(***************************************************************************)
PinChange(k) ==
  /\ pins' = IF k \in pins THEN pins \ {k} ELSE pins \cup {k}
  /\ pin_isr' = TRUE
  /\ UNCHANGED <<linkVars, advVars, auto_sleep, sleep, curr_button, button_timer, early>>

\* Mutant: a running timer is left to run, with the level it was started for.
PinIsrOnce ==
  /\ pin_isr
  /\ pin_isr' = FALSE
  /\ curr_button' = IF button_timer THEN curr_button ELSE pins
  /\ button_timer' = TRUE
  /\ UNCHANGED <<linkVars, advVars, auto_sleep, sleep, pins, early>>

\* pmu_gpio_isr_ram.
PinIsr ==
  /\ pin_isr
  /\ pin_isr' = FALSE
  /\ curr_button' = pins
  /\ button_timer' = TRUE
  /\ UNCHANGED <<linkVars, advVars, auto_sleep, sleep, pins, early>>

\* button_anti_shake_timeout_handler: only a level that has lasted counts.
AntiShake ==
  /\ button_timer
  /\ button_timer' = FALSE
  /\ IF pins = curr_button
     THEN /\ sleep' = IF pins = {} THEN auto_sleep ELSE sleep /\ "PC5" \notin pins
          /\ early' = FALSE
     ELSE UNCHANGED <<sleep, early>>
  /\ UNCHANGED <<linkVars, advVars, auto_sleep, pins, pin_isr, curr_button>>
-----------------------------------------------------------------------------
\* user_entry_after_ble_init.
Init ==
  /\ conn = {} /\ latest = "other"
  /\ param_timer = FALSE /\ timer_arg = NoLink /\ asked = {}
  /\ svc_added = FALSE /\ advertising = FALSE /\ adv_end = FALSE
  /\ lone = NoLink /\ owed = FALSE
  /\ auto_sleep \in BOOLEAN /\ sleep = FALSE
  /\ pins = {} /\ pin_isr = FALSE /\ curr_button = {} /\ button_timer = FALSE
  /\ early = FALSE

Next ==
  \/ \E c \in Conn, p \in Param : SlaveConnected(c, p)
  \/ \E c \in Conn : Disconnected(c)
  \/ ParamTimer
  \/ \E c \in Conn, p \in Param : ParamUpdated(c, p)
  \/ \E c \in Conn, s \in Status : ParamRejected(c, s)
  \/ SvcAdded
  \/ AdvEnd
  \/ \E k \in Pin : PinChange(k)
  \/ PinIsr
  \/ AntiShake

\* Timers fire and the stack reports what it did; peers and users owe nothing.
Fairness == WF_vars(ParamTimer) /\ WF_vars(AdvEnd) /\ WF_vars(SvcAdded)
Spec == Init /\ [][Next]_vars /\ Fairness
-----------------------------------------------------------------------------
(***************************************************************************)
(* Properties.                                                             *)
(***************************************************************************)
\* Type invariant; the timer has an argument whenever it runs, nothing goes over
\* the air before the services are added, and advertising is not started again
\* before its end has been reported.
TypeOK ==
  /\ conn \subseteq Conn /\ asked \subseteq Conn
  /\ lone = NoLink \/ conn = {lone}
  /\ latest \in Param
  /\ param_timer \in BOOLEAN /\ timer_arg \in Conn \cup {NoLink}
  /\ param_timer => timer_arg # NoLink
  /\ svc_added \in BOOLEAN /\ advertising \in BOOLEAN /\ adv_end \in BOOLEAN
  /\ conn # {} \/ advertising => svc_added
  /\ ~(advertising /\ adv_end)
  /\ owed \in BOOLEAN /\ auto_sleep \in BOOLEAN /\ sleep \in BOOLEAN
  /\ pins \subseteq Pin /\ curr_button \subseteq Pin
  /\ pin_isr \in BOOLEAN /\ button_timer \in BOOLEAN /\ early \in BOOLEAN

\* While a link has always been the only one, the one timer serves it: after it
\* came up, and after a request that failed for a passing reason, the timer runs
\* with this link as its argument, whatever links came, went and were asked for
\* before.  (With a second link nothing of the kind holds: its connection takes
\* the timer away from the first, and a refusal from either stops it.)
UpdateComing == lone # NoLink /\ owed => param_timer /\ timer_arg = lone

\* A lone link's parameters are looked at in the end, and after every passing
\* failure again, as long as it stays the only link.
UpdateAsked == \A c \in Conn : (lone = c /\ owed) ~> (lone # c \/ ~owed)

\* When the buttons have been still for the anti-shake time, PC5 keeps the
\* device awake and no button leaves it as configured, however they bounced and
\* however the interrupt, the timer and the level came in one another's way.
\* The exception is a button held while the services are added: SvcAdded
\* switches sleep on without looking.
ButtonsSettled ==
  svc_added /\ ~pin_isr /\ ~button_timer /\ ~early =>
    /\ "PC5" \in pins => ~sleep
    /\ pins = {} => sleep = auto_sleep

\* The device can always be found again: no connection ends advertising for good.
VisibleAgain == []<>advertising
==============================================================================
