-------------------------------- MODULE Console --------------------------------
(***************************************************************************)
(* The terminal console and the control plane behind it (control/plane.rs, *)
(* handle.rs, reader.rs, mutation.rs; the app of crates/tui).              *)
(*                                                                         *)
(* The interface never waits: a key sends a command and changes what is    *)
(* shown at once; the control thread hands commands to a serial mutation   *)
(* worker or to a catalog reader; their answers come back, in the order    *)
(* they are sent, on one channel.  A list that was read before a delete    *)
(* was committed may be answered after it: every request for a list has a  *)
(* generation, and a deleted row leaves a tombstone that hides it from     *)
(* older generations.                                                      *)
(***************************************************************************)
EXTENDS Integers, Sequences, FiniteSets, SequencesExt

CONSTANTS
    Ids,            \* catalog ids, in the order of the list
    Filters,        \* each filter is the set of ids that it matches
    ConsoleStarts   \* profiles: bounds, and whether ids are typed

ConsoleProfile == [presses : Nat, kicks : Nat, restores : Nat, faults : Nat,
                   filters : Nat, typed : BOOLEAN]
ASSUME ConsoleAssumption ==
    /\ Ids \subseteq Nat \ {0} /\ IsFiniteSet(Ids) /\ Filters \subseteq SUBSET Ids /\ Ids \in Filters
    /\ ConsoleStarts \subseteq ConsoleProfile

VARIABLES
    row,        \* the catalog: "none", "stopped", "started" or "deleted"
    control,    \* where the control thread is
    slot,       \* the session is in its slot
    commands, mutations, reads,     \* the channels
    mutator, reader,                \* the two workers
    events,     \* ControlEvent, to the interface
    shown,      \* the rows on the screen: "no", or as which
    selected,   \* the id under the cursor, or 0
    filter,
    tomb,       \* DeleteTombstones
    sent,       \* the newest generation asked for
    quit,       \* "no", "asked", "joins" or "done"
    budget

consoleVars == <<row, control, slot, commands, mutations, reads, mutator, reader, events,
                 shown, selected, filter, tomb, sent, quit, budget>>
catalogVars == <<row>>
planeVars == <<control, slot, commands, mutations, reads, mutator, reader>>
uiVars == <<shown, selected, filter, tomb, sent>>

NoTomb == -1
HideFromAll == -2       \* u64::MAX, which no generation exceeds
NoAnswer == [op |-> "none"]
Hidden == [x \in Ids |-> "no"]
Deleters == {"softDelete", "remove"}

ConsoleInit ==
    /\ row \in [Ids -> {"stopped", "started"}]
    /\ control = "boots" /\ slot = FALSE
    /\ commands = <<>> /\ mutations = <<>> /\ reads = <<>> /\ events = <<>>
    /\ mutator = [pc |-> "idle", answer |-> NoAnswer]
    /\ reader = [pc |-> "idle", seq |-> 0, filter |-> Ids, rows |-> Hidden]
    /\ shown = Hidden /\ selected = 0 /\ filter = Ids
    /\ tomb = [x \in Ids |-> NoTomb] /\ sent = 0
    /\ quit = "no" /\ budget \in ConsoleStarts

Pays(b) == budget[b] > 0 /\ budget' = [budget EXCEPT ![b] = @ - 1]

-----------------------------------------------------------------------------
(* The control thread.                                                     *)

\* control_thread_main: the session is started, or could not be.
ControlBoots ==
    /\ control = "boots"
    /\ \/ control' = "runs" /\ slot' = TRUE /\ budget' = budget
       \/ Pays("faults") /\ control' = "ended" /\ slot' = slot
    /\ UNCHANGED <<row, commands, mutations, reads, mutator, reader, events, uiVars, quit>>

\* Seeded fault: the mutation worker is left to see its channel close.
ShutdownReaderOnly(m) == m
\* The worker holds a sender of its own channel: it has to be told.
ShutdownMutator(m) == Append(m, [op |-> "shutdown"])

ControlTakes ==
    LET c == Head(commands)
    IN /\ control = "runs" /\ commands # <<>> /\ commands' = Tail(commands)
       /\ CASE c.op = "list" ->
                  /\ reads' = Append(reads, c)
                  /\ UNCHANGED <<control, mutations>>
            [] c.op = "shutdown" ->
                  /\ reads' = Append(reads, c) /\ mutations' = ShutdownMutator(mutations)
                  /\ control' = "readerJoins"
            [] OTHER ->
                  /\ mutations' = Append(mutations, c)
                  /\ UNCHANGED <<control, reads>>
       /\ UNCHANGED <<row, slot, mutator, reader, events, uiVars, quit, budget>>

ControlJoins ==
    /\ \/ control = "readerJoins" /\ reader.pc = "ended" /\ control' = "mutatorJoins"
       \/ control = "mutatorJoins" /\ mutator.pc = "ended" /\ control' = "stops"
    /\ UNCHANGED <<row, slot, commands, mutations, reads, mutator, reader, events, uiVars, quit, budget>>

\* session.shutdown, which tells the trackers, and then the slot.
ControlEnds ==
    /\ control = "stops" /\ control' = "ended" /\ slot' = FALSE
    /\ UNCHANGED <<row, commands, mutations, reads, mutator, reader, events, uiVars, quit, budget>>

-----------------------------------------------------------------------------
(* The mutation worker.                                                    *)

\* What a job makes of the row of x, or "failed".
Outcome(op, r) ==
    CASE op = "start" /\ r \in {"stopped", "started"} -> "started"
      [] op = "stop" /\ r \in {"stopped", "started"} -> "stopped"
      [] op = "softDelete" /\ r \in {"stopped", "deleted"} -> "deleted"
      [] op = "remove" /\ r \in {"stopped", "deleted"} -> "none"
      [] OTHER -> "failed"

MutatorWorks ==
    LET j == Head(mutations)
    IN /\ mutator.pc = "idle" /\ mutations # <<>> /\ mutations' = Tail(mutations)
       /\ IF j.op = "shutdown"
          THEN mutator' = [mutator EXCEPT !.pc = "ended"] /\ UNCHANGED <<row, budget>>
          ELSE \E o \in {Outcome(j.op, row[j.id]), "failed"} :
                  /\ IF o # "failed" THEN row' = [row EXCEPT ![j.id] = o] ELSE row' = row
                  /\ IF o = Outcome(j.op, row[j.id]) THEN budget' = budget ELSE Pays("faults")
                  /\ mutator' = [pc |-> "answers",
                                 answer |-> [op |-> j.op, id |-> j.id, ok |-> o # "failed"]]
       /\ UNCHANGED <<control, slot, commands, reads, reader, events, uiVars, quit>>

MutatorAnswers ==
    /\ mutator.pc = "answers"
    /\ events' = Append(events, mutator.answer)
    /\ mutator' = [pc |-> "idle", answer |-> NoAnswer]
    /\ UNCHANGED <<row, control, slot, commands, mutations, reads, reader, uiVars, quit, budget>>

-----------------------------------------------------------------------------
(* The catalog reader.                                                     *)

\* The newest request stands for all that wait; a shutdown among them ends it.
ReaderTakes ==
    LET c == Last(reads)
    IN /\ reader.pc = "idle" /\ reads # <<>> /\ reads' = <<>>
       /\ reader' = IF c.op = "shutdown" THEN [reader EXCEPT !.pc = "ended"]
                    ELSE [pc |-> "selects", seq |-> c.seq, filter |-> c.filter, rows |-> Hidden]
       /\ UNCHANGED <<row, control, slot, commands, mutations, mutator, events, uiVars, quit, budget>>

\* list_torrents_filtered
Listed(f) == [x \in Ids |-> IF x \in f /\ row[x] \in {"stopped", "started"} THEN row[x] ELSE "no"]

ReaderSelects ==
    /\ reader.pc = "selects"
    /\ reader' = [reader EXCEPT !.pc = "answers", !.rows = Listed(reader.filter)]
    /\ UNCHANGED <<row, control, slot, commands, mutations, reads, mutator, events, uiVars, quit, budget>>

\* CatalogList, or CatalogListFailed of a busy database.
ReaderAnswers ==
    /\ \/ reader.pc = "answers" /\ budget' = budget
          /\ events' = Append(events, [op |-> "list", ok |-> TRUE, seq |-> reader.seq,
                                       filter |-> reader.filter, rows |-> reader.rows])
       \/ reader.pc = "selects" /\ Pays("faults")
          /\ events' = Append(events, [op |-> "list", ok |-> FALSE, seq |-> reader.seq,
                                       filter |-> reader.filter])
    /\ reader' = [reader EXCEPT !.pc = "idle", !.rows = Hidden]
    /\ UNCHANGED <<row, control, slot, commands, mutations, reads, mutator, uiVars, quit>>

-----------------------------------------------------------------------------
(* The interface.                                                          *)

Visible(s) == {x \in Ids : s[x] # "no"}

\* restore_selection: the same id or, when it is gone, the same line.
Under(s, old, sel) ==
    LET line == Cardinality({x \in Visible(old) : x < sel})
        below(x) == Cardinality({y \in Visible(s) : y < x})
    IN IF sel = 0 \/ Visible(s) = {} THEN 0
       ELSE IF sel \in Visible(s) THEN sel
       ELSE CHOOSE x \in Visible(s) :
               below(x) = IF line < Cardinality(Visible(s)) THEN line ELSE Cardinality(Visible(s)) - 1

Shows(s) == shown' = s /\ selected' = Under(s, shown, selected)
Without(x) == [shown EXCEPT ![x] = "no"]

\* kick_catalog_list: a generation is taken and, when it could be sent, noted.
Kicks(f, q) == /\ sent' = sent + 1
              /\ commands' = Append(q, [op |-> "list", seq |-> sent + 1, filter |-> f])

\* DeleteTombstones::apply.
Hides(x, n) == tomb[x] = HideFromAll \/ n <= tomb[x]
Strip(rows, n) == [x \in Ids |-> IF Hides(x, n) THEN "no" ELSE rows[x]]
Expire(n) == [x \in Ids |-> IF Hides(x, n) THEN tomb[x] ELSE NoTomb]

\* Seeded fault: the confirmation ends the hiding.
ConfirmedClears(x) == [tomb EXCEPT ![x] = NoTomb]
\* DeleteTombstones::confirmed
Confirmed(x) == [tomb EXCEPT ![x] = sent]
\* Seeded fault: a failed delete leaves the tombstone where it is.
FailedKeeps(x) == tomb
\* DeleteTombstones::failed
Failed(x) == [tomb EXCEPT ![x] = NoTomb]

\* apply_catalog_list, and CatalogListFailed.
TakesList(e) ==
    IF e.filter # filter
    THEN Kicks(filter, commands) /\ UNCHANGED <<shown, selected, tomb>>
    ELSE /\ IF e.ok THEN Shows(Strip(e.rows, e.seq)) /\ tomb' = Expire(e.seq)
                    ELSE UNCHANGED <<shown, selected, tomb>>
         /\ UNCHANGED <<sent, commands>>

\* SoftDeleted and Removed evict the row that a stale list may have shown.
TakesDeleted(e) ==
    /\ IF e.ok THEN tomb' = Confirmed(e.id) /\ Shows(Without(e.id))
               ELSE tomb' = Failed(e.id) /\ UNCHANGED <<shown, selected>>
    /\ Kicks(filter, commands)

\* Started, StartFailed, Stopped; a stop that failed is only reported.
TakesStarted(e) ==
    /\ shown' = IF shown[e.id] # "no" /\ (e.ok \/ e.op = "start")
                THEN [shown EXCEPT ![e.id] = IF e.op = "start" /\ e.ok THEN "started" ELSE "stopped"]
                ELSE shown
    /\ IF e.ok THEN Kicks(filter, commands) ELSE UNCHANGED <<sent, commands>>
    /\ UNCHANGED <<selected, tomb>>

\* poll_control_events: the next one.  Nothing polls once the user quits.
UiTakes ==
    LET e == Head(events)
    IN /\ quit = "no" /\ events # <<>> /\ events' = Tail(events)
       /\ CASE e.op = "list" -> TakesList(e)
            [] e.op \in Deleters -> TakesDeleted(e)
            [] OTHER -> TakesStarted(e)
       /\ UNCHANGED <<row, control, slot, mutations, reads, mutator, reader, filter, quit, budget>>

\* tick_refresh, :refresh, what the watch thread reports.
UiRefreshes ==
    /\ quit = "no" /\ control # "ended" /\ Pays("kicks") /\ Kicks(filter, commands)
    /\ UNCHANGED <<row, control, slot, mutations, reads, mutator, reader, events, shown, selected,
                   filter, tomb, quit>>

\* apply_filter
UserFilters(f) ==
    /\ quit = "no" /\ control # "ended" /\ f # filter /\ Pays("filters")
    /\ filter' = f /\ selected' = 0 /\ Kicks(f, commands)
    /\ UNCHANGED <<row, control, slot, mutations, reads, mutator, reader, events, shown, tomb, quit>>

UserSelects(x) ==
    /\ quit = "no" /\ x \in Visible(shown) \ {selected} /\ selected' = x
    /\ UNCHANGED <<row, planeVars, events, shown, filter, tomb, sent, quit, budget>>

Presses(c) == quit = "no" /\ control # "ended" /\ Pays("presses") /\ commands' = Append(commands, c)

\* delete_selected and :remove, with optimistic_remove_row.
Deletes(op, x) ==
    /\ shown[x] # "started" /\ Presses([op |-> op, id |-> x])
    /\ tomb' = [tomb EXCEPT ![x] = HideFromAll]
    /\ Shows(Without(x))
    /\ UNCHANGED <<row, control, slot, mutations, reads, mutator, reader, events, filter, sent, quit>>

UserPressesDelete == selected # 0 /\ \E op \in Deleters : Deletes(op, selected)
\* The palette takes any id, shown or not.
UserTypesRemove(x) == budget.typed /\ Deletes("remove", x)

\* toggle_start_selected
UserToggles ==
    LET want == IF shown[selected] = "started" THEN "stopped" ELSE "started"
    IN /\ selected # 0
       /\ Presses([op |-> IF want = "started" THEN "start" ELSE "stop", id |-> selected])
       /\ shown' = [shown EXCEPT ![selected] = want]
       /\ UNCHANGED <<row, control, slot, mutations, reads, mutator, reader, events, selected,
                      filter, tomb, sent, quit>>

\* begin_shutdown, request_shutdown
UserQuits ==
    /\ quit = "no" /\ quit' = "asked"
    /\ IF control = "ended" THEN commands' = commands /\ slot' = FALSE
       ELSE commands' = Append(commands, [op |-> "shutdown"]) /\ slot' = slot
    /\ UNCHANGED <<row, control, mutations, reads, mutator, reader, events, uiVars, budget>>

\* poll_shutdown waits for the slot, finish_shutdown for the thread.
UiEnds ==
    /\ \/ quit = "asked" /\ ~slot /\ quit' = "joins"
       \/ quit = "joins" /\ control = "ended" /\ quit' = "done"
    /\ UNCHANGED <<row, planeVars, events, uiVars, budget>>

\* The watch thread restores what was deleted and may have it started.
WatchRestores(x, start) ==
    /\ row[x] = "deleted" /\ Pays("restores")
    /\ row' = [row EXCEPT ![x] = IF start THEN "started" ELSE "stopped"]
    /\ commands' = IF start /\ control # "ended" THEN Append(commands, [op |-> "start", id |-> x])
                   ELSE commands
    /\ UNCHANGED <<control, slot, mutations, reads, mutator, reader, events, uiVars, quit>>

-----------------------------------------------------------------------------
Plane == ControlBoots \/ ControlTakes \/ ControlJoins \/ ControlEnds
ControlThreads == MutatorWorks \/ MutatorAnswers \/ ReaderTakes \/ ReaderSelects \/ ReaderAnswers
Keys == \/ UserPressesDelete \/ UserToggles \/ UserQuits
        \/ \E x \in Ids : UserSelects(x) \/ UserTypesRemove(x)
        \/ \E f \in Filters : UserFilters(f)

ConsoleNext == \/ Plane \/ ControlThreads \/ Keys \/ UiTakes \/ UiRefreshes \/ UiEnds
               \/ \E x \in Ids, s \in BOOLEAN : WatchRestores(x, s)

ConsoleSpec == ConsoleInit /\ [][ConsoleNext]_consoleVars

\* Threads that have something to do get to do it; the user need not act.
ConsoleFairSpec == ConsoleSpec /\ WF_consoleVars(Plane) /\ WF_consoleVars(ControlThreads) /\ WF_consoleVars(UiEnds)

-----------------------------------------------------------------------------
\* delete_filter.rs: a stale list "must not resurrect the row".  What is on the
\* screen is in the catalog, and what the next key would delete is on the
\* screen, over lists that overtake deletes, deletes that fail, and rows that
\* the watch thread restores; when nobody types an id that is not shown.
RowsExist ==
    /\ \A x \in Visible(shown) : row[x] \in {"stopped", "started"}
    /\ selected # 0 => selected \in Visible(shown)

\* A row that is hidden from every list is one whose delete has still to be
\* answered: nothing in the catalog stays off the screen for good.
HiddenIsPending == control \in {"boots", "runs"} => \A x \in Ids : tomb[x] = HideFromAll =>
    \/ \E i \in DOMAIN commands : commands[i].op \in Deleters /\ commands[i].id = x
    \/ \E i \in DOMAIN mutations : mutations[i].op \in Deleters /\ mutations[i].id = x
    \/ mutator.pc = "answers" /\ mutator.answer.op \in Deleters /\ mutator.answer.id = x
    \/ \E i \in DOMAIN events : events[i].op \in Deleters /\ events[i].id = x

\* The list shows what is there, and hides only what is on its way out.
ListIsTrue == RowsExist /\ HiddenIsPending

\* lifecycle.rs: "Join so process exit does not kill mid quit-time stopped
\* announces".  Whatever is queued and whoever is busy, quitting ends.
QuitEnds == quit # "no" ~> quit = "done"
=============================================================================
