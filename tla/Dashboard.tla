----------------------------- MODULE Dashboard -----------------------------
(***************************************************************************)
(* What the terminal UI shows (crates/rara-tui/src/app.rs) and what its    *)
(* keys do (handle_key of event_loop.rs).  Overlays and the search prompt  *)
(* take keys away from the tabs below them.                                *)
(*                                                                         *)
(* A search text is one that is typed or none; what is typed selects the   *)
(* trading events.  The lists of the other tabs are never filled.          *)
(***************************************************************************)
EXTENDS Integers, Sequences, SequencesExt

CONSTANTS
  MaxEvents,   \* rows that the Events tab keeps (1000)
  MaxKeys      \* bound on the keys pressed that do not leave anything

ASSUME DashboardAssumption == MaxEvents \in Nat \ {0} /\ MaxKeys \in Nat

Tabs == {"overview", "research", "trading", "strategies", "events"}
Topics == {"trading", "research", "feedback", "sentinel"}

VARIABLES
  ui,       \* App: the tab, its overlays, the Events tab's filter and selection
  rows,     \* EventsState.events: number and topic
  keys      \* history: keys pressed

dashboardVars == <<ui, rows, keys>>

NewApp ==
  [running |-> TRUE, tab |-> "overview", dag |-> FALSE, order |-> FALSE,
   search |-> FALSE, query |-> FALSE, filter |-> Topics, auto |-> TRUE, selected |-> 0]

Filtered(evs, app) ==
  SelectSeq(evs, LAMBDA e : /\ e.topic \in app.filter
                            /\ app.query => e.topic = "trading")

\* The oldest rows leave when the buffer is full, and only a list that scrolls by
\* itself moves its selection.
PushEvent(state, event) ==
  LET all  == Append(state.rows, event)
      kept == SubSeq(all, Len(all) - (IF Len(all) > MaxEvents THEN MaxEvents ELSE Len(all)) + 1,
                     Len(all))
      n    == Len(Filtered(kept, state.ui))
  IN [rows |-> kept,
      ui   |-> IF state.ui.auto /\ n > 0
               THEN [state.ui EXCEPT !.selected = n - 1] ELSE state.ui]

-----------------------------------------------------------------------------
(***************************************************************************)
(* The keys.  Press tells which of them are bounded.                       *)
(***************************************************************************)
Press == keys < MaxKeys /\ keys' = keys + 1
Leave == keys' = keys

OnDag    == ui.tab = "research" /\ ui.dag
OnOrder  == ui.tab = "trading" /\ ui.order
OnSearch == ui.tab = "events" /\ ui.search
OnTab    == ~OnDag /\ ~OnOrder /\ ~OnSearch

\* The popup of the Research tab and the overlay of the Trading tab.
CloseOverlay ==
  /\ OnDag \/ OnOrder
  /\ ui' = [ui EXCEPT !.dag = IF OnDag THEN FALSE ELSE @,
                      !.order = IF OnOrder THEN FALSE ELSE @]
  /\ Leave

\* Deviation: Esc clears the text and the prompt stays.
EscapeStaysInSearch ==
  /\ OnSearch /\ Leave
  /\ ui' = [ui EXCEPT !.query = FALSE, !.selected = 0]

\* Esc leaves the search prompt without its text, Enter with it.
EscapeSearch ==
  /\ OnSearch /\ Leave
  /\ ui' = [ui EXCEPT !.search = FALSE, !.query = FALSE, !.selected = 0]

Quit ==
  /\ ui' = [ui EXCEPT !.running = FALSE]
  /\ Leave

TypeSearch ==
  /\ OnSearch /\ Press
  /\ \E query \in BOOLEAN : ui' = [ui EXCEPT !.query = query]

EnterSearch ==
  /\ OnSearch /\ Press
  /\ ui' = [ui EXCEPT !.search = FALSE, !.selected = 0]

SelectTab ==
  /\ OnTab /\ Press
  /\ \E tab \in Tabs \ {ui.tab} : ui' = [ui EXCEPT !.tab = tab]

OpenOverlay ==
  /\ OnTab /\ Press
  /\ \/ ui.tab = "research" /\ ui' = [ui EXCEPT !.dag = TRUE]
     \/ ui.tab = "trading" /\ ui' = [ui EXCEPT !.order = TRUE]

\* Filters, the space bar, j, k, G and the slash.
Count == Len(Filtered(rows, ui))

SetFilter ==
  \E filter \in {Topics} \cup {{t} : t \in Topics} :
    ui' = [ui EXCEPT !.filter = filter, !.selected = 0]

Scroll ==
  \/ ui' = [ui EXCEPT !.auto = ~@]
  \/ ui' = [ui EXCEPT !.auto = FALSE, !.selected = IF Count > 0 /\ @ < Count - 1 THEN @ + 1 ELSE @]
  \/ ui' = [ui EXCEPT !.auto = FALSE, !.selected = IF @ > 0 THEN @ - 1 ELSE @]
  \/ ui' = [ui EXCEPT !.auto = TRUE, !.selected = IF Count > 0 THEN Count - 1 ELSE @]

EventsKey ==
  /\ OnTab /\ ui.tab = "events" /\ Press
  /\ \/ SetFilter
     \/ Scroll
     \/ ui' = [ui EXCEPT !.search = TRUE, !.query = FALSE]

\* Esc: what the user presses who wants to leave.
PressEscape == CloseOverlay \/ EscapeSearch \/ (OnTab /\ Quit)

HandleKey ==
  \/ TypeSearch \/ EnterSearch \/ SelectTab \/ OpenOverlay \/ EventsKey
  \/ PressEscape
  \/ (~OnSearch /\ Quit)
=============================================================================
