---------------------------- MODULE LocalRecords ----------------------------
(***************************************************************************)
(* The tables that answer before the network does: the static records of   *)
(* static_records*.rs, refreshed from *.rr files while a query holds their *)
(* lock, and the hosts database of hosts.rs, reloaded on SIGHUP.           *)
(*                                                                         *)
(* The administrator edits the files at any time, also between two steps   *)
(* of a refresh.  Every edit gives a file a new time stamp: two writes     *)
(* within one time stamp of the file system, of the same length, are not   *)
(* told apart by the code either.  A body is the set of the record values  *)
(* of the file, [name, type, holds]: a type and what the value gives for   *)
(* it, "v4", "v6", "name" or nothing; {} also stands for a file that is    *)
(* too large or no JSON.                                                   *)
(***************************************************************************)
EXTENDS Naturals, FiniteSets

CONSTANTS
    Directories,   \* 1 .. n, in the order of StaticRecords::system
    FileNames,
    Bodies,        \* sets of record values
    MaxEdits,      \* bound: edits of all files
    MaxFaults      \* bound: failing reads of a directory, a stamp or a file

Places == Directories \X FileNames
Absent == [masked |-> FALSE, body |-> {}, modified |-> 0]

VARIABLES
    files,      \* per place: [masked, body, modified]
    records,    \* StaticRecords.records: the names and types it answers
    unread,     \* the files that could not be read when they were loaded (the code
                \* does not keep this)
    stamps,     \* StaticRecords.fingerprint
    due,        \* last_checked is unset or RECHECK_INTERVAL ago
    refresh,    \* the refresh in progress, under the lock: [at, selected, stamps]
    query,      \* the query: "idle", or the name it looks for and where it is
    hosts_file, \* /etc/hosts: [body, modified]
    hosts,      \* Resolver.hosts
    reload,     \* the SIGHUP handling of the main loop: [at, read, failed]
    edits, faults

static == <<records, unread, stamps, due, refresh>>
vars == <<files, static, query, hosts_file, hosts, reload, edits, faults>>

Idle == [at |-> "idle", selected |-> {}, stamps |-> {}]
NoQuery == [at |-> "idle", name |-> "none"]

Init ==
    /\ files = [p \in Places |-> Absent]
    /\ records = {} /\ unread = {} /\ stamps = {} /\ due = TRUE /\ refresh = Idle
    /\ query = NoQuery
    /\ hosts_file = [body |-> {}, modified |-> 0] /\ hosts = hosts_file
    /\ reload = [at |-> "idle", read |-> hosts_file, failed |-> FALSE]
    /\ edits = 0 /\ faults = 0

(***************************************************************************)
(* The files                                                               *)
(***************************************************************************)

Edit(p) ==
    /\ edits < MaxEdits /\ edits' = edits + 1
    /\ \E new \in {Absent} \cup [masked : {FALSE}, body : Bodies, modified : {edits'}]
                          \cup [masked : {TRUE}, body : {{}}, modified : {edits'}] :
          /\ new # files[p]
          /\ files' = [files EXCEPT ![p] = new]
    /\ UNCHANGED <<static, query, hosts_file, hosts, reload, faults>>

EditHosts ==
    /\ edits < MaxEdits /\ edits' = edits + 1
    /\ \E body \in Bodies : hosts_file' = [body |-> body, modified |-> edits']
    /\ UNCHANGED <<files, static, query, hosts, reload, faults>>

\* select_files: of the files with one name the one in the last directory.
select_files ==
    {[place |-> p, masked |-> files[p].masked] :
        p \in {q \in Places : /\ files[q] # Absent
                              /\ \A d \in Directories : d > q[1] => files[<<d, q[2]>>] = Absent}}

fingerprint(selected) ==
    {[place |-> s.place, masked |-> s.masked, modified |-> files[s.place].modified] : s \in selected}

\* parse_record_value: the address must be of the type's family.
parse_record_value(v) ==
    <<v.type, v.holds>> \in {<<"A", "v4">>, <<"AAAA", "v6">>} \cup ({"PTR", "NS", "CNAME", "DNAME"} \X {"name"})

\* add_record_value for every value: those that do not parse are skipped.
Added(body) == {[name |-> v.name, type |-> v.type] : v \in {x \in body : parse_record_value(x)}}

\* load_selected_files: a file that is gone, cannot be read (those in failed)
\* or does not parse adds nothing, and nobody hears of it.
load_selected_files(selected, failed) ==
    UNION {Added(files[s.place].body) : s \in {x \in selected : ~x.masked /\ x.place \notin failed}}

(***************************************************************************)
(* A query: StaticRecords::answer, then Hosts::lookup, then the network    *)
(***************************************************************************)

Ask(n) ==
    /\ query = NoQuery
    /\ query' = [at |-> "static", name |-> n]
    /\ UNCHANGED <<files, static, hosts_file, hosts, reload, edits, faults>>

\* answer once the table is as fresh as it gets: its lock is released.
Answer ==
    /\ query' = IF \E r \in records' : r.name = query.name THEN NoQuery ELSE [query EXCEPT !.at = "hosts"]
    /\ refresh' = Idle

MutantStart ==
    /\ query.at = "static" /\ refresh.at = "idle"
    /\ due' = FALSE /\ UNCHANGED <<files, records, unread, stamps, hosts_file, hosts, reload, edits, faults>>
    /\ Answer

\* refresh_if_due up to select_files, which may fail (read_dir).
StartRefresh ==
    /\ query.at = "static" /\ refresh.at = "idle"
    /\ UNCHANGED <<files, records, unread, stamps, hosts_file, hosts, reload, edits>>
    /\ \/ /\ ~due
          /\ Answer /\ UNCHANGED <<due, faults>>
       \/ /\ due /\ due' = FALSE
          /\ refresh' = [Idle EXCEPT !.at = "stamp", !.selected = select_files]
          /\ UNCHANGED <<query, faults>>
       \/ /\ due /\ due' = FALSE
          /\ faults < MaxFaults /\ faults' = faults + 1
          /\ Answer

\* fingerprint: fails when a selected file has gone meanwhile or a stamp
\* cannot be read.
Stamp ==
    /\ refresh.at = "stamp"
    /\ UNCHANGED <<files, records, unread, stamps, due, hosts_file, hosts, reload, edits>>
    /\ LET seen == fingerprint(refresh.selected)
           gone == \E s \in refresh.selected : files[s.place] = Absent
       IN  \/ /\ gone \/ seen = stamps
             /\ Answer /\ UNCHANGED faults
          \/ /\ ~gone /\ seen # stamps
             /\ refresh' = [refresh EXCEPT !.at = "load", !.stamps = seen]
             /\ UNCHANGED <<query, faults>>
          \/ /\ faults < MaxFaults /\ faults' = faults + 1
             /\ Answer

\* The open or the read of a file may fail: the fingerprint is kept all the
\* same.
Load ==
    /\ refresh.at = "load"
    /\ \/ unread' = {} /\ UNCHANGED faults
       \/ /\ faults < MaxFaults /\ faults' = faults + 1
          /\ \E s \in refresh.selected : ~s.masked /\ unread' = {s.place}
    /\ records' = load_selected_files(refresh.selected, unread')
    /\ stamps' = refresh.stamps
    /\ Answer
    /\ UNCHANGED <<files, due, hosts_file, hosts, reload, edits>>

LookInHosts ==
    /\ query.at = "hosts"
    /\ query' = NoQuery
    /\ UNCHANGED <<files, static, hosts_file, hosts, reload, edits, faults>>

\* RECHECK_INTERVAL passes.
Elapse ==
    /\ ~due /\ refresh.at = "idle" /\ due' = TRUE
    /\ UNCHANGED <<files, records, unread, stamps, refresh, query, hosts_file, hosts, reload, edits, faults>>

(***************************************************************************)
(* SIGHUP: reload_hosts                                                    *)
(***************************************************************************)

Hangup ==
    /\ reload.at = "idle" /\ reload' = [reload EXCEPT !.at = "read", !.failed = FALSE]
    /\ UNCHANGED <<files, static, query, hosts_file, hosts, edits, faults>>

\* Hosts::load; on an error reload_hosts returns and the static records keep
\* what they have.
ReadHosts ==
    /\ reload.at = "read"
    /\ \/ /\ reload' = [reload EXCEPT !.at = "set", !.read = hosts_file]
          /\ UNCHANGED faults
       \/ /\ faults < MaxFaults /\ faults' = faults + 1
          /\ reload' = [reload EXCEPT !.at = "idle", !.failed = TRUE]
    /\ UNCHANGED <<files, static, query, hosts_file, hosts, edits>>

SetHosts ==
    /\ reload.at = "set"
    /\ hosts' = reload.read
    /\ reload' = [reload EXCEPT !.at = "invalidate"]
    /\ UNCHANGED <<files, static, query, hosts_file, edits, faults>>

MutantInvalidate ==
    /\ reload.at = "invalidate" /\ refresh.at = "idle"
    /\ records' = {} /\ unread' = {} /\ due' = TRUE
    /\ reload' = [reload EXCEPT !.at = "idle"]
    /\ UNCHANGED <<files, stamps, refresh, query, hosts_file, hosts, edits, faults>>

\* invalidate_system takes the lock of the static records.
invalidate_system ==
    /\ reload.at = "invalidate" /\ refresh.at = "idle"
    /\ records' = {} /\ unread' = {} /\ stamps' = {} /\ due' = TRUE
    /\ reload' = [reload EXCEPT !.at = "idle"]
    /\ UNCHANGED <<files, refresh, query, hosts_file, hosts, edits, faults>>

Reload == ReadHosts \/ SetHosts \/ invalidate_system
QueryStep == (\E v \in UNION Bodies : Ask(v.name)) \/ StartRefresh \/ Stamp \/ Load \/ LookInHosts

Next ==
    \/ \E p \in Places : Edit(p)
    \/ EditHosts \/ Elapse \/ Hangup \/ Reload \/ QueryStep

\* Clients keep asking, the clock runs, and the main loop handles a SIGHUP it
\* has taken.
Spec == Init /\ [][Next]_vars /\ WF_vars(Reload) /\ WF_vars(Elapse) /\ WF_vars(QueryStep)

(***************************************************************************)
(* Properties                                                              *)
(***************************************************************************)

\* The tables hold names and stamps of files, and only records that parse.
TypeOK ==
    /\ records \subseteq UNION {Added(b) : b \in Bodies}
    /\ unread \subseteq Places
    /\ stamps \subseteq [place : Places, masked : BOOLEAN, modified : 0 .. MaxEdits]
    /\ due \in BOOLEAN
    /\ refresh.at \in {"idle", "stamp", "load"}
    /\ query.at \in {"idle", "static", "hosts"}
    /\ reload.at \in {"idle", "read", "set", "invalidate"}

\* A fingerprint that equals the files' is proof that the records are theirs,
\* but for the files that could not be read when they were loaded:
\* refresh_if_due skips the load on it.  The files are stamped before they
\* are loaded, so an edit in between, or a reload, cannot leave old records
\* behind a current fingerprint.
StampsCoverRecords ==
    (refresh.at = "idle" /\ stamps = fingerprint(select_files))
        => records = load_selected_files(select_files, unread)

\* Refuted by one failing read: the fingerprint is kept, and the records of
\* the file stay away until it is written again or a SIGHUP comes.
StampsProveRecords ==
    (refresh.at = "idle" /\ stamps = fingerprint(select_files))
        => records = load_selected_files(select_files, {})

\* Once the files are left alone, queries see what they hold, whatever was
\* edited in the middle of a refresh and whichever directories or stamps
\* could not be read.  Excepted are files that could not be read when they
\* were loaded.
RecordsConverge ==
    <>[](refresh.at = "idle" /\ ~due => records = load_selected_files(select_files, unread))

\* A SIGHUP makes up for reads that failed before it: once none fail any more,
\* all records are there, unless the queries never let it have the lock.
HangupHeals ==
    <>(reload.at = "invalidate" /\ faults = MaxFaults)
        => \/ <>[](reload.at = "invalidate")
           \/ <>[](refresh.at = "idle" /\ ~due => records = load_selected_files(select_files, {}))

\* A SIGHUP brings in the /etc/hosts of that moment or a later one, unless it
\* cannot be read.
HangupReadsHosts ==
    \A v \in 0 .. MaxEdits :
        (reload.at = "read" /\ hosts_file.modified = v) ~> (reload.failed \/ hosts.modified >= v)
=============================================================================
