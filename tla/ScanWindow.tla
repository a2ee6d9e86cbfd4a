----------------------------- MODULE ScanWindow -----------------------------
(***************************************************************************)
(* The files source (sources/opendal): a scan hands on the files whose     *)
(* last modification lies in the window (ts_after, ts_before], then the    *)
(* window moves and the checkpoint is saved. Files are written and         *)
(* overwritten meanwhile; the process may stop or crash and start again.   *)
(*                                                                         *)
(* A version of a file is its time of modification, so that writing a file *)
(* is one step; it becomes visible up to MaxDelay later (an upload that    *)
(* takes a while, two clocks that differ).                                 *)
(***************************************************************************)
EXTENDS Integers, FiniteSets, Sequences

CONSTANTS
    File,
    Patterns,    \* path_patterns: a sequence of [negated, matches \subseteq File]
    Empty,       \* the versions without content, pairs of a file and a time
    Margin,      \* TIME_MARGIN, in ticks of the clock
    MaxDelay,    \* the longest delay of a version, below Margin
    Limits,      \* ts_before_limit; a limit the clock never reaches is none
    MaxTime,     \* bound: the clock
    MaxWrites,   \* bound: the versions ever written
    MaxStarts    \* bound: how often the process starts

VARIABLES
    clock, writes, starts,
    written,     \* written[f]: the latest version of f, 0 if none
    visible,     \* visible[f]: the latest version that can be listed and read
    limit,
    at,          \* where `run` is
    after, before,   \* ts_after, ts_before
    saved,       \* the checkpoint, 0 if there is none
    todo,        \* the places the listing has not come to
    entry,       \* the file accepted and about to be read, with its version
    scanned,     \* whether the listing was complete
    sent,        \* the versions handed on
    skipped,     \* the versions that could not be processed, with a warning
    overlooked,  \* those whose length could not be asked for, without one
    resend,      \* those of `sent` the window has gone back before
    repeated     \* the versions handed on again without a reason

windowVars == <<limit, after, before, saved>>
scanVars   == <<todo, entry, scanned>>
outVars   == <<sent, skipped, overlooked, resend, repeated>>
diskVars   == <<clock, writes, written, visible>>
vars == <<diskVars, starts, at, windowVars, scanVars, outVars>>

NoEntry == <<>>

\* FilePatternMatcher: a file that some pattern includes, if there is one that
\* does not exclude, and that none excludes.
PathAccepted(f) ==
    LET included == {i \in DOMAIN Patterns : ~Patterns[i].negated}
    IN  /\ included = {} \/ \E i \in included : f \in Patterns[i].matches
        /\ \A i \in DOMAIN Patterns \ included : f \notin Patterns[i].matches

\* Fault: the upper bound is the present.
TsBeforeNow == IF clock > limit THEN limit ELSE clock

\* compute_ts_before
TsBefore == IF clock - Margin > limit THEN limit ELSE clock - Margin

IsAtLimit == after >= limit

\* Resource::from_entry: what the listing does not tell of a file, and a length
\* of 0, is asked for; 0 stands for what nobody told.
FromEntry(f, told, statAnswers) ==
    [path          |-> f,
     lastModified  |-> IF "time" \in told \/ statAnswers THEN visible[f] ELSE 0,
     contentLength |-> IF <<f, visible[f]>> \notin Empty /\ ("length" \in told \/ statAnswers)
                       THEN 1 ELSE 0]

InWindow(version) == version > after /\ version <= before

\* Filter::accept: a file without a time is refused with a warning, any other
\* without a word.
Accept(resource) ==
    /\ resource.lastModified # 0
    /\ InWindow(resource.lastModified)
    /\ resource.contentLength > 0
    /\ PathAccepted(resource.path)

Init ==
    /\ clock = Margin /\ writes = 0 /\ starts = 1
    /\ written = [f \in File |-> 0] /\ visible = [f \in File |-> 0]
    /\ limit \in Limits
    /\ at = "load" /\ after = 0 /\ before = TsBefore /\ saved = 0
    /\ todo = {} /\ entry = NoEntry /\ scanned = FALSE
    /\ sent = {} /\ skipped = {} /\ overlooked = {} /\ resend = {} /\ repeated = {}

(***************************************************************************)
(* The storage                                                             *)
(***************************************************************************)

Tick ==
    /\ clock < MaxTime
    /\ \A f \in File : visible[f] # written[f] => clock + 1 - written[f] <= MaxDelay
    /\ clock' = clock + 1
    /\ UNCHANGED <<writes, written, visible, starts, at, windowVars, scanVars, outVars>>

Write(f) ==
    /\ writes < MaxWrites /\ visible[f] = written[f] /\ written[f] < clock
    /\ writes' = writes + 1
    /\ written' = [written EXCEPT ![f] = clock]
    /\ UNCHANGED <<clock, visible, starts, at, windowVars, scanVars, outVars>>

Publish(f) ==
    /\ visible[f] # written[f]
    /\ visible' = [visible EXCEPT ![f] = written[f]]
    /\ UNCHANGED <<clock, writes, written, starts, at, windowVars, scanVars, outVars>>

(***************************************************************************)
(* OpendalExtractor::run                                                   *)
(***************************************************************************)

\* What was sent since the bound the window goes back to will be sent again.
GoBackTo(bound) == resend' = {x \in sent : x[2] > bound}

\* load_ts_after: a checkpoint that cannot be read starts over.
Load ==
    /\ at = "load" /\ at' = "top"
    /\ after' \in {saved, 0} /\ GoBackTo(after')
    /\ UNCHANGED <<diskVars, starts, limit, before, saved, scanVars, sent, skipped,
                   overlooked, repeated>>

StartScan ==
    /\ at = "top" /\ ~IsAtLimit
    /\ at' = "scan"
    /\ todo' = File /\ entry' = NoEntry /\ scanned' = FALSE
    /\ UNCHANGED <<diskVars, starts, windowVars, outVars>>

\* The limit is reached, or the token is cancelled.
Stop ==
    /\ at = "top" /\ at' = "stopped"
    /\ UNCHANGED <<diskVars, starts, windowVars, scanVars, outVars>>

\* The listing comes to a file; it may have appeared during the scan, or is not
\* there (version 0). The listing tells its time and its length or not, and a
\* stat fails or not. Of the warnings, those about this window's files matter.
Visit(f) ==
    /\ at = "scan" /\ entry = NoEntry /\ f \in todo
    /\ todo' = todo \ {f}
    /\ \E told \in SUBSET {"time", "length"}, statAnswers \in BOOLEAN :
          LET version  == <<f, visible[f]>>
              resource == FromEntry(f, told, statAnswers)
          IN  /\ entry' = IF Accept(resource) THEN version ELSE NoEntry
              /\ skipped' = skipped \cup
                     {x \in {version} : InWindow(x[2]) /\ resource.lastModified = 0}
              /\ overlooked' = overlooked \cup
                     {x \in {version} \ Empty : /\ InWindow(resource.lastModified)
                                               /\ resource.contentLength = 0}
    /\ UNCHANGED <<diskVars, starts, at, windowVars, scanned, sent, resend, repeated>>

\* The parser reads the file, perhaps a later version than the listing's, which
\* is then sent again in its own window; or it fails and the file is skipped.
Parse ==
    /\ at = "scan" /\ entry # NoEntry
    /\ entry' = NoEntry
    /\ \/ LET read == <<entry[1], visible[entry[1]]>>
          IN  /\ sent' = sent \cup ({read} \cap {entry})
              /\ resend' = resend \ {read}
              /\ repeated' = repeated \cup (({read} \cap sent) \ resend)
              /\ UNCHANGED skipped
       \/ skipped' = skipped \cup {entry} /\ UNCHANGED <<sent, resend, repeated>>
    /\ UNCHANGED <<diskVars, starts, at, windowVars, todo, scanned, overlooked>>

\* The listing ends, or fails half way.
EndScan ==
    /\ at = "scan" /\ entry = NoEntry
    /\ at' = "scanned" /\ scanned' \in {FALSE, todo = {}} /\ todo' = {}
    /\ UNCHANGED <<diskVars, starts, windowVars, entry, outVars>>

\* After the pause: an incomplete scan is done again from its beginning.
Retry ==
    /\ at = "scanned" /\ ~scanned /\ at' = "top"
    /\ GoBackTo(after)
    /\ UNCHANGED <<diskVars, starts, windowVars, scanVars, sent, skipped, overlooked,
                   repeated>>

JumpToNextTsWindow ==
    /\ at = "scanned" /\ scanned /\ at' = "save"
    /\ after' = before /\ before' = TsBefore
    /\ UNCHANGED <<diskVars, starts, limit, saved, scanVars, outVars>>

\* save_ts_after; a failure is logged.
Save ==
    /\ at = "save" /\ at' = "top"
    /\ saved' \in {saved, after}
    /\ UNCHANGED <<diskVars, starts, limit, after, before, scanVars, outVars>>

\* A stopped or crashed process starts again; from_patterns sets the window.
Start ==
    /\ starts < MaxStarts /\ starts' = starts + 1
    /\ at' = "load" /\ after' = 0 /\ before' = TsBefore
    /\ todo' = {} /\ entry' = NoEntry /\ scanned' = FALSE
    /\ UNCHANGED <<diskVars, limit, saved, outVars>>

Next ==
    \/ Tick \/ \E f \in File : Write(f) \/ Publish(f) \/ Visit(f)
    \/ Load \/ StartScan \/ Stop \/ Parse \/ EndScan \/ Retry
    \/ JumpToNextTsWindow \/ Save \/ Start

Spec == Init /\ [][Next]_vars

-----------------------------------------------------------------------------
\* Every file with content whose last version the window or the checkpoint has
\* passed was handed on, or skipped with a warning, or nobody could tell its
\* length: neither the files written during a scan nor those that show up late
\* fall between two windows, whatever listing failed and wherever a restart
\* resumed (opendal/mod.rs:139, filter.rs:19). And none was handed on twice but
\* by the retry of a scan, after a restart, or because it was overwritten while
\* it was read.
FilesOnce ==
    /\ \A f \in File : PathAccepted(f) /\ visible[f] \in 1..after \cup 1..saved =>
          <<f, visible[f]>> \in sent \cup skipped \cup overlooked \cup Empty
    /\ repeated = {}
=============================================================================
