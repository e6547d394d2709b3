------------------------------- MODULE Editors -------------------------------
(***************************************************************************)
(* The vibration mode editor: the queue of transforms with its list and    *)
(* its curve, the edit in place that a double click begins, the mode file, *)
(* and the menu of atomic waves with the database file, which the atomic   *)
(* wave editor writes.  The drawn signal of a loaded audio is left out.    *)
(*                                                                         *)
(* A handler that raises stops where it raises: Tk reports the exception   *)
(* and goes on.  The handlers of the buttons are bound to the release of   *)
(* the mouse and run for a disabled button too: the locks lock nothing.    *)
(* The selected line is an input of the handler, 0 for none: a click may   *)
(* select any line before it, and every listing drops the selection.       *)
(***************************************************************************)
EXTENDS Naturals, SequencesExt

CONSTANTS
  Kind,       \* names of transforms
  ParamsOf,   \* for each kind, the parameters its form can hold
  MaxLen,     \* bound: transforms in the queue
  MaxSaved,   \* bound: transforms in a queue that is saved
  BuiltIn,    \* families of atomic waves of init_db
  Stored,     \* families of a database file
  None,       \* no file, no family
  Torn        \* a file that has been truncated and not written

ASSUME EditorsAssumption ==
  /\ DOMAIN ParamsOf = Kind /\ \A k \in Kind : ParamsOf[k] # {}
  /\ MaxLen \in Nat /\ MaxSaved \in 0 .. MaxLen
  /\ BuiltIn # {} /\ Stored # {} /\ None \notin BuiltIn \cup Stored

Transform == [name : Kind, params : UNION {ParamsOf[k] : k \in Kind}]

\* transform_func[name] takes as many parameters as the form of that name holds.
Fits(t)    == t.params \in ParamsOf[t.name]
AllFit(ts) == \A i \in DOMAIN ts : Fits(ts[i])
Form       == {t \in Transform : Fits(t)}

VARIABLES
  transforms,    \* TransformQueue.transforms
  shown,         \* the transforms opQueueListbox lists
  active,        \* the enabled form: transName and its parameters
  inPlaceEdit,   \* the position edited in place, 0 for None
  curve,         \* the transforms the drawn curve went through
  mode_file,     \* None, Torn or the queue it holds
  saving         \* save_transforms has opened the file and not dumped yet

VARIABLES
  wave_file,     \* None, Torn or the families it holds
  play_db,       \* the families the backend has waves of
  db_name        \* the family the menu shows, None for ''

queue == <<transforms, shown, inPlaceEdit, curve>>
files == <<mode_file, saving, wave_file>>
menu  == <<play_db, db_name>>
vars  == <<queue, active, files, menu>>
-----------------------------------------------------------------------------
\* Mutant: the whole transform of the form is stored.
UpdatedWhole(ts) == IF inPlaceEdit = 0 THEN ts ELSE [ts EXCEPT ![inPlaceEdit] = active]

\* Mutant: the position is off by one.
UpdatedBefore(ts) ==
  IF inPlaceEdit < 2 THEN ts ELSE [ts EXCEPT ![inPlaceEdit - 1].params = active.params]

\* TransformQueue.update: the name stays.
Updated(ts) ==
  IF inPlaceEdit = 0 THEN ts ELSE [ts EXCEPT ![inPlaceEdit].params = active.params]

\* __on_transform_param_change(include_active) when the queue holds ts and the
\* listbox lists listed: a position past the end raises in update, a transform
\* whose parameters do not fit raises in apply_all.
Refresh(ts, listed, include) ==
  IF inPlaceEdit > Len(ts)
  THEN transforms' = ts /\ shown' = listed /\ UNCHANGED <<inPlaceEdit, curve>>
  ELSE /\ transforms' = Updated(ts) /\ shown' = Updated(ts)
       /\ IF AllFit(Updated(ts))
          THEN /\ curve' = Updated(ts) \o (IF include /\ inPlaceEdit = 0 THEN <<active>> ELSE <<>>)
               /\ inPlaceEdit' = 0
          ELSE UNCHANGED <<inPlaceEdit, curve>>

Editing == ~saving /\ UNCHANGED <<active, files, menu>>

\* __on_add_transform.
Add ==
  /\ Len(transforms) < MaxLen
  /\ LET ts == Append(transforms, active) IN Refresh(ts, ts, FALSE)
  /\ Editing

\* __on_delete_transform: list.remove takes the first transform that equals the
\* selected one.
Delete(i) ==
  /\ i \in DOMAIN shown /\ i \in DOMAIN transforms
  /\ LET ts == RemoveFirst(transforms, transforms[i]) IN Refresh(ts, ts, FALSE)
  /\ Editing

Swapped(ts, i, j) == [ts EXCEPT ![i] = ts[j], ![j] = ts[i]]

\* __on_move_up_transform: the first stays, and all is drawn anew.
MoveUp(i) ==
  /\ i \in DOMAIN shown /\ i \in DOMAIN transforms \cup {1}
  /\ LET ts == IF i = 1 THEN transforms ELSE Swapped(transforms, i, i - 1)
     IN Refresh(ts, ts, FALSE)
  /\ Editing

\* __on_move_down_transform.
MoveDown(i) ==
  /\ i \in DOMAIN shown /\ i \in DOMAIN transforms
  /\ LET ts == IF i = Len(transforms) THEN transforms ELSE Swapped(transforms, i, i + 1)
     IN Refresh(ts, ts, FALSE)
  /\ Editing

\* The button "Apply Transform".
Apply == Refresh(transforms, shown, TRUE) /\ Editing

\* A form is enabled or its parameters are set; an edit in place goes on.
SetActive(t) ==
  /\ active' = t
  /\ ~saving
  /\ UNCHANGED <<queue, files, menu>>

\* Mutant: the form takes the parameters over as they are.
DoubleClickAsIs(i) ==
  /\ i \in DOMAIN shown
  /\ active' = IF i \in DOMAIN transforms THEN transforms[i] ELSE active
  /\ inPlaceEdit' = i
  /\ ~saving
  /\ UNCHANGED <<transforms, shown, curve, files, menu>>

\* __on_transform_selected, on a line that the queue may no longer have.  A form
\* takes over the parameters it has room for.
DoubleClick(i) ==
  /\ i \in DOMAIN shown
  /\ active' \in IF i \notin DOMAIN transforms THEN {active}
                 ELSE IF Fits(transforms[i]) THEN {transforms[i]}
                 ELSE {t \in Form : t.name = transforms[i].name}
  /\ inPlaceEdit' = i
  /\ ~saving
  /\ UNCHANGED <<transforms, shown, curve, files, menu>>
-----------------------------------------------------------------------------
\* Mutant: the queue is taken from the file and nothing is drawn.
LoadModeOnly ==
  /\ mode_file \notin {None, Torn}
  /\ transforms' = mode_file
  /\ UNCHANGED <<shown, inPlaceEdit, curve>>
  /\ Editing

\* Mutant: the queue is emptied before the file is read.
LoadModeEmpties ==
  /\ mode_file # None
  /\ Refresh(IF mode_file = Torn THEN <<>> ELSE mode_file, shown, FALSE)
  /\ Editing

\* __load_vib_mode; without a whole file it raises and the queue stays.
LoadMode ==
  /\ mode_file \notin {None, Torn}
  /\ Refresh(mode_file, shown, FALSE)
  /\ Editing

\* __save_vib_mode: open truncates the file, dump writes it.
SaveMode ==
  /\ ~saving /\ Len(transforms) <= MaxSaved
  /\ saving' = TRUE /\ mode_file' = Torn
  /\ UNCHANGED <<queue, active, wave_file, menu>>

SaveModeDone ==
  /\ saving
  /\ saving' = FALSE /\ mode_file' = transforms
  /\ UNCHANGED <<queue, active, wave_file, menu>>

\* AtomicWaveFrame adds a family or a wave: save opens the file, which truncates
\* it, and dump is called without the file and raises.
SaveWaves ==
  /\ wave_file' = Torn
  /\ UNCHANGED <<queue, active, mode_file, saving, menu>>

\* Mutant: the new database is in place before the file is read.
LoadWavesEarly ==
  /\ wave_file # None
  /\ play_db' = IF wave_file = Torn THEN {} ELSE wave_file
  /\ db_name' \in IF wave_file = Torn THEN {db_name} ELSE wave_file
  /\ ~saving
  /\ UNCHANGED <<queue, active, files>>

\* __on_load_atomic_db: without a whole file it raises before anything is set.
LoadWaves ==
  /\ wave_file \notin {None, Torn}
  /\ play_db' = wave_file
  /\ db_name' \in wave_file
  /\ ~saving
  /\ UNCHANGED <<queue, active, files>>

\* The window is closed or the program dies, and it is started again.
Restart ==
  /\ transforms' = <<>> /\ shown' = <<>> /\ active' \in Form /\ inPlaceEdit' = 0
  /\ curve' = <<>>
  /\ saving' = FALSE
  /\ play_db' = BuiltIn /\ db_name' = None
  /\ UNCHANGED <<mode_file, wave_file>>

Init ==
  /\ transforms = <<>> /\ shown = <<>> /\ active \in Form /\ inPlaceEdit = 0
  /\ curve = <<>>
  /\ mode_file = None /\ saving = FALSE
  /\ wave_file \in {None, Stored}
  /\ play_db = BuiltIn /\ db_name = None

Next ==
  \/ Add
  \/ \E i \in DOMAIN shown : Delete(i)
  \/ \E i \in DOMAIN shown : MoveUp(i)
  \/ \E i \in DOMAIN shown : MoveDown(i)
  \/ Apply
  \/ \E t \in Form : SetActive(t)
  \/ \E i \in DOMAIN shown : DoubleClick(i)
  \/ LoadMode
  \/ SaveMode
  \/ SaveModeDone
  \/ SaveWaves
  \/ LoadWaves
  \/ Restart

Spec == Init /\ [][Next]_vars
-----------------------------------------------------------------------------
(***************************************************************************)
(* Properties.                                                             *)
(***************************************************************************)
Queues == BoundedSeq(Transform, MaxLen)

\* Type invariant; the forms never hold parameters of another kind.
TypeOK ==
  /\ transforms \in Queues /\ shown \in Queues
  /\ active \in Form
  /\ inPlaceEdit \in 0 .. MaxLen
  /\ curve \in BoundedSeq(Transform, MaxLen + 1) /\ AllFit(curve)
  /\ saving \in BOOLEAN
  /\ mode_file \in {None, Torn} \/ mode_file \in Queues
  /\ saving => mode_file = Torn
  /\ wave_file \in {None, Torn, Stored}

Names(ts) == ToBag([i \in DOMAIN ts |-> ts[i].name])

\* Whatever is edited in place, moved or applied, loaded over or deleted beside
\* an edit in place: no transform changes its kind.  Adding adds the one of the
\* form, deleting takes one like the selected, loading a whole file takes what it
\* holds, and a restart empties the queue; nothing else adds or takes anything.
NamesKept ==
  [][LET now == Names(transforms')
     IN \/ now = Names(transforms)
        \/ Add /\ now = Names(Append(transforms, active))
        \/ \E i, j \in DOMAIN transforms :
             /\ Delete(i) /\ transforms[j] = transforms[i]
             /\ now = Names(RemoveAt(transforms, j))
        \/ LoadMode /\ mode_file \notin {None, Torn} /\ now = Names(mode_file)
        \/ Restart /\ now = EmptyBag]_vars

\* With no edit in place the list shows the queue, and the curve shows what the
\* queue does to a signal, with at most one transform more that was tried out;
\* unless the queue holds a transform that cannot be computed.  The menu names a
\* family that can be played, also after a database that could not be read.
Displayed ==
  /\ play_db # {} /\ (db_name # None => db_name \in play_db)
  /\ inPlaceEdit = 0 =>
       /\ shown = transforms
       /\ AllFit(transforms) =>
            \/ curve = transforms
            \/ \E t \in Form : curve = Append(transforms, t)

\* A queue that could be computed becomes one that cannot only when a form of
\* another kind was enabled during an edit in place, or from a file that was
\* saved so.  (It does become one: update takes the parameters of whatever form
\* is enabled, the curve is not drawn any more and the edit does not end.)
SpoiltByForm ==
  [][AllFit(transforms) /\ ~AllFit(transforms') =>
       \/ /\ inPlaceEdit \in DOMAIN transforms'
          /\ transforms'[inPlaceEdit].name # active.name
       \/ mode_file \notin {None, Torn} /\ ~AllFit(mode_file)]_vars

=============================================================================
