-------------------------------- MODULE LogView --------------------------------
(***************************************************************************)
(* The activity log (activity_log.rs) and its screen (tui: app/log.rs,     *)
(* ui/log.rs, the loop and keys of lib.rs).                                *)
(*                                                                         *)
(* Any thread appends lines to a ring; a line takes its sequence number    *)
(* before it takes the ring's lock.  The screen looks at the number alone, *)
(* copies the ring when it moved, and shows a window of the lines that     *)
(* pass a filter: the newest ones, or a page that the user scrolled to,    *)
(* which must stay where it is while lines come in and fall out.  The      *)
(* scroll position is an offset from the end, remade from the sequence     *)
(* number of the page's first line at every copy.                          *)
(*                                                                         *)
(* A line is its number, the rows it wraps to and whether the filter, when *)
(* there is one, lets it through.                                          *)
(***************************************************************************)
EXTENDS Integers, Sequences, FiniteSets, FiniteSetsExt, SequencesExt

CONSTANTS
    Threads,        \* that log, beside the screen's own
    RingSize,       \* capacity of the ring
    LogTexts,       \* what may be logged: sequences of lines, and so a bound
    MaxKeys,        \* bound: keys that the user presses
    Heights         \* of the panel

Screen == "screen"
ASSUME LogAssumption ==
    /\ Screen \notin Threads /\ RingSize \in Nat \ {0} /\ MaxKeys \in Nat
    /\ Heights \subseteq Nat \ {0}
    /\ LogTexts \subseteq Seq([rows : Nat \ {0}, hit : BOOLEAN])

VARIABLES
    text,       \* what is logged in this behaviour, in the order of the numbers
    ring,       \* the lines, oldest first
    seq,        \* lines numbered so far
    writing,    \* per thread: the line it has numbered and not appended
    view,       \* the screen
    pin,        \* ghost: the line the user last left on top, 0 when following
    keys        \* keys left

logVars == <<text, ring, seq, writing, view, pin, keys>>

NoLine == [seq |-> 0, rows |-> 1, hit |-> FALSE]

\* fromEnd: entries below the window; anchor: the number of its first line;
\* known: the last number seen; copying: a poll between its two looks.
LogInit == \E h \in Heights :
    /\ text \in LogTexts /\ ring = <<>> /\ seq = 0 /\ writing = [t \in Threads \cup {Screen} |-> NoLine]
    /\ view = [mode |-> "list", lines |-> <<>>, filter |-> FALSE, height |-> h,
               fromEnd |-> 0, anchor |-> 0, known |-> 0, copying |-> FALSE]
    /\ pin = 0 /\ keys = MaxKeys

-----------------------------------------------------------------------------
(* ActivityLog::push                                                       *)

TakesNumber(t) ==
    /\ writing[t].seq = 0 /\ seq < Len(text)
    /\ seq' = seq + 1
    /\ writing' = [writing EXCEPT ![t] = [seq |-> seq + 1, rows |-> text[seq + 1].rows,
                                                          hit |-> text[seq + 1].hit]]
Numbers(t) == TakesNumber(t) /\ UNCHANGED <<text, ring, view, pin, keys>>

Appended(line) == IF Len(ring) >= RingSize THEN Append(Tail(ring), line) ELSE Append(ring, line)

Appends(t) ==
    /\ writing[t].seq # 0
    /\ ring' = Appended(writing[t])
    /\ writing' = [writing EXCEPT ![t] = NoLine]
    /\ UNCHANGED <<text, seq, view, pin, keys>>

-----------------------------------------------------------------------------
(* Pages: "from" and "to" count lines, a page is the lines from+1 .. to.   *)

Rows(s, from, to) ==
    LET sum[n \in 0..Len(s)] == IF n <= from THEN 0 ELSE sum[n - 1] + s[n].rows IN sum[to]

\* A page is never empty: one line that is too tall is cut.
PackDown(s, from, h) == Max({to \in from..Len(s) : Rows(s, from, to) <= h \/ to = from + 1})
PackUp(s, to, h) == Min({from \in 0..to : Rows(s, from, to) <= h \/ from = to - 1})

\* compute_log_window
Window(s, fromEnd, h) ==
    LET to == IF fromEnd >= Len(s) THEN 0 ELSE Len(s) - fromEnd
    IN IF s = <<>> THEN <<0, 0>>
       ELSE IF to = 0 THEN <<0, 1>> ELSE <<PackUp(s, to, h), to>>

\* max_log_from_end: at the top, a whole page of the oldest.
OldestPage(s, h) == Len(s) - PackDown(s, 0, h)

\* log_line_matches
Passing(lines, on) ==
    LET kept[n \in 0..Len(lines)] ==
            IF n = 0 THEN <<>>
            ELSE IF lines[n].hit \/ ~on THEN Append(kept[n - 1], lines[n]) ELSE kept[n - 1]
    IN kept[Len(lines)]
FilteredLines == Passing(view.lines, view.filter)

TopSeq(s, fromEnd, h) == IF s = <<>> THEN 0 ELSE s[Window(s, fromEnd, h)[1] + 1].seq

\* A view of the lines "s" that ends fromEnd above the last.
Placed(v, s, fromEnd) == [v EXCEPT !.fromEnd = fromEnd,
                                   !.anchor = IF fromEnd = 0 THEN 0 ELSE TopSeq(s, fromEnd, v.height)]
FollowTail(v) == [v EXCEPT !.fromEnd = 0, !.anchor = 0]

-----------------------------------------------------------------------------
(* reanchor_log_after_snapshot                                             *)

Anchored(s, v) == {i \in DOMAIN s : s[i].seq = v.anchor}

\* The page that begins at the anchor, and what fits above when the lines
\* below do not fill it.
PageAt(v, s, i) ==
    LET to == PackDown(s, i - 1, v.height)
        from == Min({a \in 0..(i - 1) : Rows(s, a, to) <= v.height \/ a = i - 1})
    IN [v EXCEPT !.fromEnd = Len(s) - to, !.anchor = s[from + 1].seq]

\* Seeded fault: the offset is kept and the page slides with the ring.
ReanchorsByOffset(v, s) ==
    IF v.fromEnd = 0 \/ v.anchor = 0 \/ s = <<>> THEN FollowTail(v)
    ELSE Placed(v, s, v.fromEnd)

Reanchors(v, s) ==
    IF v.fromEnd = 0 \/ v.anchor = 0 \/ s = <<>> THEN FollowTail(v)
    ELSE IF Anchored(s, v) # {} THEN PageAt(v, s, Min(Anchored(s, v)))
    ELSE Placed(v, s, OldestPage(s, v.height))

-----------------------------------------------------------------------------
(* poll_activity_log: the number, then the lines.                          *)

Polls == view.mode \in {"log", "filter", "help"} /\ writing[Screen].seq = 0

PollLooks ==
    /\ Polls /\ ~view.copying /\ seq # view.known
    /\ view' = [view EXCEPT !.known = seq, !.copying = TRUE]
    /\ UNCHANGED <<text, ring, seq, writing, pin, keys>>

PollCopies ==
    /\ view.copying
    /\ view' = [Reanchors(view, Passing(ring, view.filter)) EXCEPT !.lines = ring, !.copying = FALSE]
    /\ UNCHANGED <<text, ring, seq, writing, pin, keys>>

-----------------------------------------------------------------------------
(* Keys and the mouse.                                                     *)

Key(mode) == /\ view.mode \in mode /\ ~view.copying /\ writing[Screen].seq = 0
             /\ keys > 0 /\ keys' = keys - 1
             /\ UNCHANGED <<text, ring, seq>>

\* open_log: follows, polls (a copy may still be due) and copies in any case.
OpenLog ==
    /\ Key({"list"})
    /\ view' = [FollowTail(view) EXCEPT !.mode = "log", !.lines = ring, !.known = seq]
    /\ pin' = 0 /\ UNCHANGED writing

CloseLog == Key({"log"}) /\ view' = [view EXCEPT !.mode = "list"] /\ UNCHANGED <<pin, writing>>

BeginFilter == Key({"log"}) /\ view' = [view EXCEPT !.mode = "filter"] /\ UNCHANGED <<pin, writing>>
CancelFilter == Key({"filter"}) /\ view' = [view EXCEPT !.mode = "log"] /\ UNCHANGED <<pin, writing>>
ApplyFilter == \E f \in BOOLEAN :
    /\ Key({"filter"})
    /\ view' = [FollowTail(view) EXCEPT !.filter = f, !.mode = "log"]
    /\ pin' = 0 /\ UNCHANGED writing
ClearFilter ==
    /\ Key({"log"}) /\ view.filter
    /\ view' = [FollowTail(view) EXCEPT !.filter = FALSE]
    /\ pin' = 0 /\ UNCHANGED writing

OpenHelp == Key({"log"}) /\ view' = [view EXCEPT !.mode = "help"] /\ UNCHANGED <<pin, writing>>
CloseHelp == Key({"help"}) /\ view' = [view EXCEPT !.mode = "log"] /\ UNCHANGED <<pin, writing>>

\* log_page_delta
Page == Max({1, view.height - 2})

\* log_scroll and log_scroll_home; End is a scroll past everything.
Scrolls(to) ==
    /\ view' = IF FilteredLines = <<>> THEN FollowTail(view) ELSE Placed(view, FilteredLines, to)
    /\ pin' = view'.anchor
    /\ UNCHANGED writing

Highest == OldestPage(FilteredLines, view.height)
ScrollUp(by) == Key({"log", "filter"}) /\ Scrolls(Min({view.fromEnd + by, Highest}))
ScrollDown(by) == Key({"log", "filter"}) /\ Scrolls(Max({view.fromEnd - by, 0}))
ScrollHome == Key({"log"}) /\ Scrolls(Highest)
ScrollEnd == Key({"log"}) /\ Scrolls(0)

\* cycle_log_capture: the screen logs a line of its own.
CycleCapture ==
    /\ view.mode = "log" /\ ~view.copying /\ keys > 0 /\ keys' = keys - 1
    /\ TakesNumber(Screen)
    /\ UNCHANGED <<text, ring, view, pin>>

\* draw_log measures the panel; nothing is anchored again.
Resize(h) ==
    /\ Key({"log", "filter", "help"}) /\ h # view.height
    /\ view' = [view EXCEPT !.height = h]
    /\ pin' = IF h < view.height THEN 0 ELSE pin
    /\ UNCHANGED writing

-----------------------------------------------------------------------------
LogPolls == PollLooks \/ PollCopies

LogNext ==
    \/ \E t \in Threads : Numbers(t)
    \/ \E t \in Threads \cup {Screen} : Appends(t)
    \/ CycleCapture \/ PollLooks \/ PollCopies
    \/ OpenLog \/ CloseLog \/ BeginFilter \/ CancelFilter \/ ApplyFilter \/ ClearFilter
    \/ OpenHelp \/ CloseHelp \/ ScrollHome \/ ScrollEnd
    \/ \E by \in {1, Page} : ScrollUp(by) \/ ScrollDown(by)
    \/ \E h \in Heights : Resize(h)

LogSpec == LogInit /\ [][LogNext]_logVars

-----------------------------------------------------------------------------
LogTypeOK ==
    /\ Len(ring) <= RingSize /\ seq \in 0..Len(text)
    /\ view.fromEnd \in 0..Len(view.lines) /\ view.anchor \in 0..Len(text)

Shown == LET w == Window(FilteredLines, view.fromEnd, view.height)
         IN {FilteredLines[i].seq : i \in (w[1] + 1)..w[2]}

\* log.rs: "keep pinned content stable".  What the user left on top of the
\* page is on the page as long as it is among the lines, however many come in,
\* fall out of the ring or do not pass the filter, and in whatever order.
PinHolds == (pin # 0 /\ view.fromEnd > 0 /\ \E i \in DOMAIN FilteredLines : FilteredLines[i].seq = pin)
                => pin \in Shown

\* The same, whatever the view says of itself.
PinStays == (pin # 0 /\ \E i \in DOMAIN FilteredLines : FilteredLines[i].seq = pin) => pin \in Shown

\* activity_log.rs: "TUI uses this to detect new lines cheaply".  When the
\* number has not moved the screen has the lines.
NumberTells == (Polls /\ ~view.copying /\ seq = view.known /\ \A t \in Threads : writing[t].seq = 0)
                  => view.lines = ring
=============================================================================
