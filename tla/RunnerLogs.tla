------------------------------ MODULE RunnerLogs ------------------------------
(***************************************************************************)
(* The runner's log (logs.rs) and the commands that read it and write into *)
(* it: services append entries and rotate the file, approve and deny read  *)
(* the inbox and append a decision, logs.tail pages through the newest     *)
(* entries, and reports read them at once.  Every append makes a sink of   *)
(* its own, and a service logs that it starts before it asks for the       *)
(* runtime guard, so that the sink's lock keeps no two writers apart.  An  *)
(* entry reaches the file in two writes, its text and its end of line, and *)
(* every access of a writer is a step of its own; a reader finds, opens    *)
(* and reads a file in one step.                                           *)
(***************************************************************************)
EXTENDS Integers, Sequences, FiniteSets

CONSTANTS
    Writers,        \* services that append through a FileLogSink
    Deciders,       \* approve and deny commands
    Approvals,      \* ids of approval requests
    MaxBytes,       \* max_bytes of the file, in writes
    Window,         \* how many recent entries a reader keeps
    PageLimit,      \* limit of logs.tail
    MaxEntries,     \* bound: entries of the writers
    MaxFiles        \* bound: files that are created

VARIABLES
    current, old,   \* the files that the path and its ".1" name, 0 for none
    content,        \* what is written into every file
    appended,       \* how many entries the writers began
    pc, mine,       \* of writers and deciders: the step, and the entry at work
    handle,         \* of writers and deciders: the file they opened
    tail,           \* the pager: its cursor, and what it saw
    decided         \* history: approvals for which a decision was reported as recorded

vars == <<current, old, content, appended, pc, mine, handle, tail, decided>>
files == <<current, old, content>>
rest == <<tail, decided>>

NL == [kind |-> "newline"]
Entry(id, kind, of) == [id |-> id, kind |-> kind, of |-> of]
NoEntry == [kind |-> "none"]
NoTail == [active |-> FALSE]
LogUsers == Writers \cup Deciders
LogSteps == {"idle", "size", "rotate", "remove", "find", "rename", "open", "text", "newline"}
Goto(p, step) == pc' = [pc EXCEPT ![p] = step]

Init ==
    /\ current = 0 /\ old = 0 /\ content = <<>> /\ appended = 0
    /\ pc = [p \in LogUsers |-> "idle"] /\ mine = [p \in LogUsers |-> NoEntry]
    /\ handle = [p \in LogUsers |-> 0]
    /\ tail = NoTail /\ decided = {}

(* Reading: read_recent_log_entries and its tolerant form.  A line and an    *)
(* entry are named by where their text begins in the file.                   *)
Text(file) == IF file = 0 THEN <<>> ELSE content[file]

\* A line holds the texts that were written since the last end of line.
Lines(text) == {i \in DOMAIN text : text[i] # NL /\ (i > 1 => text[i - 1] = NL)}

\* Two texts on one line do not parse.
Parsed(text, line) == line < Len(text) => text[line + 1] = NL

Entries(text) == {line \in Lines(text) : Parsed(text, line)}
Malformed(text) == Cardinality(Lines(text) \ Entries(text))

Later(i, entries) == Cardinality({j \in entries : j > i})
Newest(entries) == {i \in entries : Later(i, entries) < Window}

\* A strict reader fails at the first line that does not parse; a tolerant one counts
\* such lines.
Read(reader, text) ==
    IF reader = "strict" /\ Malformed(text) > 0 THEN [status |-> "failed"]
    ELSE [status |-> "read", entries |-> Newest(Entries(text)), skipped |-> Malformed(text)]

(* FileLogSink::append_result.                                               *)
Requested(a) ==
    LET Asks(e) == e.kind = "request" /\ e.of = a IN
    \/ \E f \in DOMAIN content : \E i \in DOMAIN content[f] : Asks(content[f][i])
    \/ \E v \in Writers : pc[v] # "idle" /\ Asks(mine[v])

\* A request is logged once: nothing in this repository writes one, it reads them.
Begin(w) ==
    /\ pc[w] = "idle" /\ appended < MaxEntries
    /\ \E kind \in {"event", "request"}, a \in Approvals :
        /\ kind = "request" => ~Requested(a)
        /\ mine' = [mine EXCEPT ![w] = Entry(appended + 1, kind, a)]
    /\ appended' = appended + 1
    /\ Goto(w, "size")
    /\ UNCHANGED <<files, handle, rest>>

\* rotate_if_needed: it looks for each file before it moves it.
Size(w) ==
    /\ pc[w] = "size"
    /\ Goto(w, IF Len(Text(current)) + 1 < MaxBytes THEN "open" ELSE "rotate")
    /\ UNCHANGED <<files, appended, mine, handle, rest>>

FindOld(w) ==
    /\ pc[w] = "rotate"
    /\ Goto(w, IF old = 0 THEN "find" ELSE "remove")
    /\ UNCHANGED <<files, appended, mine, handle, rest>>

\* The removal fails when another writer removed the file: the entry is dropped, because
\* LogSink::append ignores the error.
RemoveOld(w) ==
    /\ pc[w] = "remove"
    /\ Goto(w, IF old = 0 THEN "idle" ELSE "find")
    /\ old' = 0
    /\ UNCHANGED <<current, content, appended, mine, handle, rest>>

FindCurrent(w) ==
    /\ pc[w] = "find"
    /\ Goto(w, IF current = 0 THEN "open" ELSE "rename")
    /\ UNCHANGED <<files, appended, mine, handle, rest>>

\* The entry is dropped also when another writer moved the file away; what that one left
\* under the old name is replaced.
RenameCurrent(w) ==
    /\ pc[w] = "rename"
    /\ \/ current = 0 /\ Goto(w, "idle") /\ UNCHANGED <<current, old>>
       \/ current # 0 /\ Goto(w, "open") /\ old' = current /\ current' = 0
    /\ UNCHANGED <<content, appended, mine, handle, rest>>

\* The handle stays with the file when the name moves on.
Open(p) ==
    /\ pc[p] = "open"
    /\ IF current # 0
       THEN /\ handle' = [handle EXCEPT ![p] = current]
            /\ UNCHANGED <<current, content>>
       ELSE /\ Len(content) < MaxFiles
            /\ content' = Append(content, <<>>)
            /\ current' = Len(content) + 1
            /\ handle' = [handle EXCEPT ![p] = Len(content) + 1]
    /\ Goto(p, "text")
    /\ UNCHANGED <<old, appended, mine, rest>>

WriteText(p) ==
    /\ pc[p] = "text"
    /\ content' = [content EXCEPT ![handle[p]] = Append(@, mine[p])]
    /\ Goto(p, "newline")
    /\ UNCHANGED <<current, old, appended, mine, handle, rest>>

WriteNewline(p) ==
    /\ pc[p] = "newline"
    /\ content' = [content EXCEPT ![handle[p]] = Append(@, NL)]
    /\ Goto(p, "idle")
    /\ handle' = [handle EXCEPT ![p] = 0]
    /\ decided' = IF p \in Deciders THEN decided \cup {mine[p].of} ELSE decided
    /\ UNCHANGED <<current, old, appended, mine, tail>>

(* approve and deny.                                                         *)
\* is_approval_request_event, is_approval_decision_event and approval_id_from_entry
Mentioned(kind, text, entries) ==
    {text[i].of : i \in {j \in entries : text[j].kind = kind}}

\* Variant of Pending: the oldest entries of the file.
PendingAmongOldest(text) ==
    LET all == Entries(text)
        seen == {i \in all : Cardinality({j \in all : j < i}) < Window}
    IN Mentioned("request", text, seen) \ Mentioned("decision", text, seen)

\* local_approval_inbox
Pending(text) ==
    LET seen == Newest(Entries(text)) IN
    Mentioned("request", text, seen) \ Mentioned("decision", text, seen)

\* The inbox is read strictly.
Inbox == IF Read("strict", Text(current)).status = "read" THEN Pending(Text(current)) ELSE {}

\* The command reads the inbox and appends without a lock, and without a rotation.
ReadInbox(d, a) ==
    /\ pc[d] = "idle" /\ mine[d] = NoEntry
    /\ a \in Inbox
    /\ mine' = [mine EXCEPT ![d] = Entry(0, "decision", a)]
    /\ Goto(d, "open")
    /\ UNCHANGED <<files, appended, handle, rest>>

(* logs.tail: pages of the newest entries, the next from where the last one ended. *)
NextCursor(offset, shown) == offset + Cardinality(shown)

Page(offset) ==
    LET newest == Newest(Entries(Text(current))) IN
    {i \in newest : Later(i, newest) \in offset..(offset + PageLimit - 1)}

StartTail ==
    /\ ~tail.active
    /\ tail' = [active |-> TRUE, offset |-> 0, seen |-> {}, ended |-> FALSE, file |-> current,
                skipped |-> Malformed(Text(current)), first |-> Newest(Entries(Text(current)))]
    /\ UNCHANGED <<files, appended, pc, mine, handle, decided>>

NextPage ==
    /\ tail.active /\ ~tail.ended
    /\ LET shown == Page(tail.offset)
           next == NextCursor(tail.offset, shown)
       IN tail' = [tail EXCEPT !.offset = next,
                               !.seen = @ \cup shown,
                               !.ended = next >= Cardinality(Newest(Entries(Text(current))))]
    /\ UNCHANGED <<files, appended, pc, mine, handle, decided>>

Next ==
    \/ \E w \in Writers : \/ Begin(w) \/ Size(w) \/ FindOld(w) \/ RemoveOld(w)
                          \/ FindCurrent(w) \/ RenameCurrent(w)
    \/ \E p \in LogUsers : Open(p) \/ WriteText(p) \/ WriteNewline(p)
    \/ \E d \in Deciders, a \in Approvals : ReadInbox(d, a)
    \/ StartTail \/ NextPage

Spec == Init /\ [][Next]_vars

-----------------------------------------------------------------------------
(* Properties.                                                             *)

TypeOK ==
    /\ {current, old} \subseteq 0..Len(content) /\ Len(content) <= MaxFiles
    /\ appended \in 0..MaxEntries
    /\ \A p \in LogUsers :
        /\ pc[p] \in LogSteps
        /\ handle[p] \in 0..Len(content)
    /\ decided \subseteq Approvals

\* An approval whose decision a command reported as recorded is in no inbox any more,
\* whatever writers append and rotate while the command runs.  Where a line cannot be
\* read, be it that of the decision, there is no inbox at all: the commands fail.
DecidedIsNotPending == decided \cap Inbox = {}

\* A reader that goes from page to page sees every entry that the first page could have
\* led to and that the window still holds, although new entries move the old ones away
\* from the offset it holds.  It may miss some when the file is rotated or one more line
\* becomes unreadable meanwhile, and those that new entries push out of the window.
PagingSkipsNothing ==
    tail.active /\ tail.ended /\ tail.file = current
    /\ Malformed(Text(current)) = tail.skipped
        => tail.first \cap Newest(Entries(Text(current))) \subseteq tail.seen

\* Whatever writers have got to: what a reader returns without an error and without a
\* word of skipped lines holds every entry whose text is in the file, unless the file has
\* more than the window.
ReportsAreHonest ==
    \A file \in DOMAIN content, reader \in {"strict", "tolerant"} :
        LET text == Text(file)
            result == Read(reader, text)
            texts == {i \in DOMAIN text : text[i] # NL}
        IN result.status = "read" /\ result.skipped = 0 /\ Cardinality(texts) <= Window
            => result.entries = texts
=============================================================================
