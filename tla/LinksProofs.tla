----------------------------- MODULE LinksProofs -----------------------------
(***************************************************************************)
(* The invariants of Links, for any number of links.                       *)
(***************************************************************************)
EXTENDS Links, TLAPS

\* The timer's argument is the last link that came up, and that is the lone one.
LoneIsLast == lone # NoLink => timer_arg = lone

\* When the pins have been read since they last moved, the timer that runs will
\* compare them with what they still are.
LevelRead == button_timer /\ ~pin_isr => curr_button = pins

\* Nothing ends advertising before the services have been added, and nobody is
\* connected or asked before the timer has an argument.
Beginnings == /\ adv_end => svc_added
              /\ conn # {} \/ asked # {} => timer_arg # NoLink

LinksInv == TypeOK /\ Beginnings /\ LoneIsLast /\ UpdateComing /\ LevelRead /\ ButtonsSettled

\* The initial states satisfy the invariant.
LEMMA InitLinks == Init => LinksInv
BY LinksAssumption
DEF Init, LinksInv, TypeOK, Beginnings, LoneIsLast, UpdateComing, LevelRead, ButtonsSettled,
    Param, Pin

\* What the links and the timer do leaves the buttons alone.
LEMMA ButtonsAlone ==
  ASSUME LevelRead, ButtonsSettled, UNCHANGED buttonVars, UNCHANGED svc_added
  PROVE  LevelRead' /\ ButtonsSettled'
BY DEF LevelRead, ButtonsSettled, buttonVars

\* What the buttons do leaves the links alone.
LEMMA LinksAlone ==
  ASSUME LoneIsLast, UpdateComing, UNCHANGED linkVars
  PROVE  LoneIsLast' /\ UpdateComing'
BY DEF LoneIsLast, UpdateComing, linkVars

\* Every step preserves the invariant.
LEMMA StepLinks == LinksInv /\ [Next]_vars => LinksInv'
<1> SUFFICES ASSUME LinksInv, [Next]_vars
             PROVE  LinksInv'
  OBVIOUS
<1> USE LinksAssumption DEF LinksInv
<1>1. ASSUME NEW c \in Conn, NEW p \in Param, SlaveConnected(c, p)
      PROVE  LinksInv'
  <2>1. TypeOK' /\ Beginnings'
    BY <1>1 DEF SlaveConnected, TypeOK, Beginnings, buttonVars
  <2>2. LoneIsLast' /\ UpdateComing'
    BY <1>1 DEF SlaveConnected, LoneIsLast, UpdateComing
  <2>3. LevelRead' /\ ButtonsSettled'
    BY <1>1, ButtonsAlone DEF SlaveConnected
  <2> QED
    BY <2>1, <2>2, <2>3
<1>2. ASSUME NEW c \in Conn, Disconnected(c)
      PROVE  LinksInv'
  <2>1. TypeOK' /\ Beginnings'
    BY <1>2 DEF Disconnected, TypeOK, Beginnings, advVars, buttonVars
  <2>2. LoneIsLast' /\ UpdateComing'
    BY <1>2 DEF Disconnected, LoneIsLast, UpdateComing
  <2>3. LevelRead' /\ ButtonsSettled'
    BY <1>2, ButtonsAlone DEF Disconnected, advVars
  <2> QED
    BY <2>1, <2>2, <2>3
<1>3. CASE ParamTimer
  <2>1. TypeOK' /\ Beginnings'
    BY <1>3 DEF ParamTimer, AskUnlessGood, TypeOK, Beginnings, advVars, buttonVars
  <2>2. LoneIsLast' /\ UpdateComing'
    BY <1>3 DEF ParamTimer, LoneIsLast, UpdateComing
  <2>3. LevelRead' /\ ButtonsSettled'
    BY <1>3, ButtonsAlone DEF ParamTimer, advVars
  <2> QED
    BY <2>1, <2>2, <2>3
<1>4. ASSUME NEW c \in Conn, NEW p \in Param, ParamUpdated(c, p)
      PROVE  LinksInv'
  <2>1. TypeOK' /\ Beginnings'
    BY <1>4 DEF ParamUpdated, AskUnlessGood, TypeOK, Beginnings, advVars, buttonVars
  <2>2. LoneIsLast' /\ UpdateComing'
    BY <1>4 DEF ParamUpdated, LoneIsLast, UpdateComing
  <2>3. LevelRead' /\ ButtonsSettled'
    BY <1>4, ButtonsAlone DEF ParamUpdated, advVars
  <2> QED
    BY <2>1, <2>2, <2>3
<1>5. ASSUME NEW c \in Conn, NEW s \in Status, ParamRejected(c, s)
      PROVE  LinksInv'
  <2>1. timer_arg # NoLink /\ s \in {"disallowed", "refused", "transient"}
    BY <1>5 DEF Status, ParamRejected, Beginnings
  <2>2. TypeOK' /\ Beginnings'
    <3>1. asked' \subseteq Conn /\ Beginnings'
      BY <1>5, <2>1 DEF ParamRejected, TypeOK, Beginnings, advVars
    <3>2. param_timer' \in BOOLEAN /\ owed' \in BOOLEAN
      BY <1>5, <2>1 DEF ParamRejected, TypeOK
    <3> QED
      BY <1>5, <2>1, <3>1, <3>2 DEF ParamRejected, TypeOK, advVars, buttonVars
  <2>3. LoneIsLast' /\ UpdateComing'
    BY <1>5, <2>1 DEF ParamRejected, LoneIsLast, UpdateComing, TypeOK
  <2>4. LevelRead' /\ ButtonsSettled'
    BY <1>5, ButtonsAlone DEF ParamRejected, advVars
  <2> QED
    BY <2>2, <2>3, <2>4
<1>6. CASE SvcAdded
  <2>1. TypeOK' /\ Beginnings'
    <3>1. Beginnings'
      BY <1>6 DEF SvcAdded, Beginnings, linkVars
    <3>2. ~adv_end
      BY <1>6 DEF SvcAdded, Beginnings
    <3> QED
      BY <1>6, <3>1, <3>2 DEF SvcAdded, TypeOK, linkVars
  <2>2. LoneIsLast' /\ UpdateComing'
    BY <1>6, LinksAlone DEF SvcAdded
  <2>3. LevelRead' /\ ButtonsSettled'
    BY <1>6 DEF SvcAdded, LevelRead, ButtonsSettled
  <2> QED
    BY <2>1, <2>2, <2>3
<1>7. CASE AdvEnd
  <2>1. TypeOK' /\ Beginnings'
    <3>1. svc_added /\ Beginnings'
      BY <1>7 DEF AdvEnd, Beginnings, linkVars
    <3> QED
      BY <1>7, <3>1 DEF AdvEnd, TypeOK, linkVars, buttonVars
  <2>2. LoneIsLast' /\ UpdateComing'
    BY <1>7, LinksAlone DEF AdvEnd
  <2>3. LevelRead' /\ ButtonsSettled'
    BY <1>7, ButtonsAlone DEF AdvEnd
  <2> QED
    BY <2>1, <2>2, <2>3
<1>8. ASSUME NEW k \in Pin, PinChange(k)
      PROVE  LinksInv'
  <2>1. TypeOK' /\ Beginnings'
    BY <1>8 DEF PinChange, TypeOK, Beginnings, linkVars, advVars
  <2>2. LoneIsLast' /\ UpdateComing'
    BY <1>8, LinksAlone DEF PinChange
  <2>3. LevelRead' /\ ButtonsSettled'
    BY <1>8 DEF PinChange, LevelRead, ButtonsSettled
  <2> QED
    BY <2>1, <2>2, <2>3
<1>9. CASE PinIsr
  <2>1. TypeOK' /\ Beginnings'
    BY <1>9 DEF PinIsr, TypeOK, Beginnings, linkVars, advVars
  <2>2. LoneIsLast' /\ UpdateComing'
    BY <1>9, LinksAlone DEF PinIsr
  <2>3. LevelRead' /\ ButtonsSettled'
    BY <1>9 DEF PinIsr, LevelRead, ButtonsSettled
  <2> QED
    BY <2>1, <2>2, <2>3
<1>10. CASE AntiShake
  <2>1. sleep' \in BOOLEAN /\ early' \in BOOLEAN
    BY <1>10 DEF AntiShake, TypeOK
  <2>2. TypeOK' /\ Beginnings'
    BY <1>10, <2>1 DEF AntiShake, TypeOK, Beginnings, linkVars, advVars
  <2>3. LoneIsLast' /\ UpdateComing'
    BY <1>10, LinksAlone DEF AntiShake
  <2>4. LevelRead' /\ ButtonsSettled'
    BY <1>10 DEF AntiShake, LevelRead, ButtonsSettled
  <2> QED
    BY <2>2, <2>3, <2>4
<1>11. CASE UNCHANGED vars
  BY <1>11 DEF vars, linkVars, advVars, buttonVars, TypeOK, Beginnings, LoneIsLast,
     UpdateComing, LevelRead, ButtonsSettled
<1> QED
  BY <1>1, <1>2, <1>3, <1>4, <1>5, <1>6, <1>7, <1>8, <1>9, <1>10, <1>11 DEF Next

\* The invariant holds in every behaviour.
LEMMA LinksInvariant == Spec => []LinksInv
BY InitLinks, StepLinks, PTL DEF Spec

\* The variables of the links keep their types, for any set of links.
THEOREM LinksTypeCorrect == Spec => []TypeOK
BY LinksInvariant, PTL DEF LinksInv

\* A lone link whose parameters have not been looked at has the timer.
THEOREM LoneLinkHasTimer == Spec => []UpdateComing
BY LinksInvariant, PTL DEF LinksInv

\* Still buttons and the sleep mode agree.
THEOREM SleepFollowsButtons == Spec => []ButtonsSettled
BY LinksInvariant, PTL DEF LinksInv
==============================================================================
