-------------------------- MODULE FetchRecordings --------------------------
(***************************************************************************)
(* tools/fetch-recordings.sh: the script that copies recordings off the    *)
(* Senders, and with -m removes them there, while the Senders go on        *)
(* recording.  The script runs under `set -e', so that a command which     *)
(* returns false ends it; `((n++))' returns false when n was 0.            *)
(* A recording is its length; ssh, scp and rsync may fail at every call.   *)
(***************************************************************************)
EXTENDS Naturals, FiniteSets

CONSTANTS Hosts,       \* how many hosts the script is given
          Recordings,  \* the names of the recordings
          HostOf,      \* the host each recording is made on
          MaxSize      \* bound on the length of a recording

ASSUME HostsAssumption == Hosts \in Nat \ {0} /\ MaxSize \in Nat \ {0}
ASSUME HostOfAssumption == HostOf \in [Recordings -> 1..Hosts]

VARIABLES size,      \* what the Sender has written; 0: not begun
          writing,   \* the recordings the Sender has open
          removed,   \* the recordings the script has removed on the Pi
          copy,      \* the length of the local copy; 0: none
          pc,        \* where the script is; "ended": it is not running
          mode,      \* "look" (-l, -n), "copy", or "move" (-m)
          host,      \* the host of this turn of the loop
          ok, fail,  \* the script's counters
          todo,      \* the files listed on the host and not yet handled
          listed,    \* their lengths when rsync listed them
          copied,    \* copied, and to be removed next
          finished   \* the recordings that were over when this run began

sender == <<size, writing>>
script == <<pc, mode, host, ok, fail, todo, listed, copied, finished>>
vars == <<sender, removed, copy, script>>

Init ==
    /\ size = [r \in Recordings |-> 0] /\ copy = size /\ listed = size
    /\ writing = {} /\ removed = {} /\ todo = {} /\ copied = {}
    /\ pc = "ended" /\ mode = "copy" /\ host = 1 /\ ok = 0 /\ fail = 0
    /\ finished = {}

-----------------------------------------------------------------------------
\* The Senders.

\* A recording is begun, or grows.  A file that was removed while it is open
\* goes on growing where nobody can read it.
Record(r) ==
    /\ size[r] < MaxSize /\ (size[r] = 0 \/ r \in writing)
    /\ size' = [size EXCEPT ![r] = @ + 1]
    /\ writing' = writing \cup {r}
    /\ UNCHANGED <<removed, copy, script>>

Finish(r) ==
    /\ r \in writing
    /\ writing' = writing \ {r}
    /\ UNCHANGED <<size, removed, copy, script>>

-----------------------------------------------------------------------------
\* The script.

OnPi == {r \in Recordings : HostOf[r] = host /\ size[r] > 0} \ removed

Start(m) ==
    /\ pc = "ended"
    /\ pc' = "probe" /\ mode' = m /\ host' = 1 /\ ok' = 0 /\ fail' = 0
    /\ todo' = {} /\ copied' = {}
    /\ finished' = {r \in Recordings : size[r] > 0} \ (writing \cup removed)
    /\ UNCHANGED <<sender, removed, copy, listed>>

\* The end of a turn of the loop, after ((n++)): `set -e' ends the script
\* when n was 0, and otherwise the next host is due, if there is one.
NextHost(n) ==
    /\ pc' = IF n = 0 \/ host = Hosts THEN "ended" ELSE "probe"
    /\ host' = IF pc' = "probe" THEN host + 1 ELSE host
    /\ todo' = {} /\ copied' = {}

CountOk == ok' = ok + 1 /\ NextHost(ok)
CountFail == fail' = fail + 1 /\ NextHost(fail)

\* ssh cannot reach the host; the same comes of rsync finding no file there.
Unreachable ==
    /\ pc = "probe"
    /\ CountFail
    /\ UNCHANGED <<sender, removed, copy, mode, ok, listed, finished>>

\* With -l the files are only shown, with -n they are only named.
Look ==
    /\ pc = "probe" /\ mode = "look"
    /\ CountOk
    /\ UNCHANGED <<sender, removed, copy, mode, fail, listed, finished>>

\* rsync when this machine has it, else scp over the names that ls returns.
List ==
    /\ pc = "probe" /\ mode # "look"
    /\ pc' \in IF OnPi = {} THEN {"scp"} ELSE {"rsync", "scp"}
    /\ todo' = OnPi /\ listed' = size
    /\ UNCHANGED <<sender, removed, copy, mode, host, ok, fail, copied, finished>>

RsyncMovesAll(r) ==
    /\ pc = "rsync" /\ r \in todo
    /\ todo' = todo \ {r}
    /\ copy' = IF copy[r] = 0 THEN [copy EXCEPT ![r] = size[r]] ELSE copy
    /\ copied' = IF mode = "move" THEN copied \cup {r} ELSE copied
    /\ UNCHANGED <<sender, removed, pc, mode, host, ok, fail, listed, finished>>

\* --ignore-existing: a file of which there is a copy is passed over.
Rsync(r) ==
    /\ pc = "rsync" /\ r \in todo
    /\ todo' = todo \ {r}
    /\ copy' = IF copy[r] = 0 THEN [copy EXCEPT ![r] = size[r]] ELSE copy
    /\ copied' = IF mode = "move" /\ copy[r] = 0 THEN copied \cup {r} ELSE copied
    /\ UNCHANGED <<sender, removed, pc, mode, host, ok, fail, listed, finished>>

\* --remove-source-files: rsync keeps a file that changed since it was listed.
RsyncRemove(r) ==
    /\ pc = "rsync" /\ r \in copied
    /\ copied' = copied \ {r}
    /\ removed' = IF size[r] = listed[r] THEN removed \cup {r} ELSE removed
    /\ UNCHANGED <<sender, copy, pc, mode, host, ok, fail, todo, listed, finished>>

RsyncEnds ==
    /\ pc = "rsync" /\ todo = {} /\ copied = {}
    /\ CountOk
    /\ UNCHANGED <<sender, removed, copy, mode, fail, listed, finished>>

\* The connection is lost.
RsyncFails ==
    /\ pc = "rsync"
    /\ CountFail
    /\ UNCHANGED <<sender, removed, copy, mode, ok, listed, finished>>

Scp(r) ==
    /\ pc = "scp" /\ r \in todo
    /\ todo' = todo \ {r}
    /\ copy' = [copy EXCEPT ![r] = size[r]]
    /\ IF mode = "move" THEN pc' = "rm" /\ copied' = {r}
       ELSE UNCHANGED <<pc, copied>>
    /\ UNCHANGED <<sender, removed, mode, host, ok, fail, listed, finished>>

\* A part of the file may be there all the same.
ScpFails(r) ==
    /\ pc = "scp" /\ r \in todo
    /\ todo' = todo \ {r} /\ fail' = 1
    /\ \E n \in {copy[r]} \cup 0..size[r] : copy' = [copy EXCEPT ![r] = n]
    /\ UNCHANGED <<sender, removed, pc, mode, host, ok, listed, copied, finished>>

\* ssh has the list of names as its standard input, and may take what is left
\* of it; when ssh fails, before rm has run or after, `set -e' ends the script.
Remove ==
    /\ pc = "rm"
    /\ copied' = {}
    /\ \/ removed' = removed \cup copied /\ pc' = "scp" /\ todo' \in {todo, {}}
       \/ removed' \in {removed, removed \cup copied} /\ pc' = "ended" /\ todo' = {}
    /\ UNCHANGED <<sender, copy, mode, host, ok, fail, listed, finished>>

ScpEnds ==
    /\ pc = "scp" /\ todo = {}
    /\ CountOk
    /\ UNCHANGED <<sender, removed, copy, mode, fail, listed, finished>>

Next ==
    \/ \E r \in Recordings : Record(r) \/ Finish(r)
    \/ \E m \in {"look", "copy", "move"} : Start(m)
    \/ Unreachable \/ Look \/ List
    \/ \E r \in Recordings : Rsync(r) \/ RsyncRemove(r) \/ Scp(r) \/ ScpFails(r)
    \/ RsyncEnds \/ RsyncFails \/ Remove \/ ScpEnds

Spec == Init /\ [][Next]_vars

-----------------------------------------------------------------------------
\* Properties.

\* Types; the loop never runs past the last host.
FetchTypeOK ==
    /\ size \in [Recordings -> 0..MaxSize] /\ copy \in [Recordings -> 0..MaxSize]
    /\ listed \in [Recordings -> 0..MaxSize]
    /\ writing \subseteq Recordings /\ removed \subseteq Recordings
    /\ todo \subseteq Recordings /\ copied \subseteq Recordings
    /\ finished \subseteq Recordings
    /\ pc \in {"ended", "probe", "rsync", "scp", "rm"}
    /\ mode \in {"look", "copy", "move"}
    /\ host \in 1..Hosts /\ ok \in 0..Hosts /\ fail \in 0..Hosts

\* What was recorded before a run of the script began survives it: once the
\* file is gone from the Pi the local copy is the whole of it, whatever fails
\* half way and however much an earlier run had copied.
FinishedSurvive == \A r \in finished \cap removed : copy[r] = size[r]

\* "so one offline Pi doesn't abort the whole run" (fetch-recordings.sh:84):
\* a listing (-l) or dry run (-n) that met an unreachable host has come to
\* the last host when it ends.
EveryHostTried == pc = "ended" /\ fail > 0 /\ mode = "look" => host = Hosts

\* "Move: delete each file from the Pi after a verified copy"
\* (fetch-recordings.sh:23): what a step removes has been copied whole.
VerifiedMove == [][\A r \in removed' \ removed : copy[r] = size[r]]_vars
=============================================================================
