------------------------------- MODULE MCLinks -------------------------------
(***************************************************************************)
(* Two instances of LinkRouting in one run.  In world "owned" link a is    *)
(* always networkd's and link b never: links come and go and a D-Bus       *)
(* client sets them.  In world "managed" both links come under networkd's  *)
(* management and leave it again, files may be garbled, and queries select *)
(* their scopes meanwhile.                                                 *)
(***************************************************************************)
EXTENDS Naturals, TLC

CONSTANTS a, b, u, q, dnsA, dnsB, name, plain, special, NoDns, NoName

VARIABLES world, kernel, file, rtnl, watch, events, table, networkd, specs, kpc, snapshot, live,
          kchanged, npc, incoming, unread, todo, nchanged, started, pc, call, changed, calls, qpc,
          scopes, stop, unpublished, lost, abandoned

File(managed, dns, n, opt, relevant) ==
    [managed |-> managed, relevant |-> relevant, dns |-> dns, name |-> n, option |-> opt, refused |-> FALSE]
Refused(f) == [f EXCEPT !.refused = TRUE]
NotManaged == File(FALSE, NoDns, NoName, plain, TRUE)

FixedOwners ==
    a :> {File(TRUE, dnsA, name, plain, TRUE), Refused(File(TRUE, dnsB, NoName, plain, TRUE))}
    @@ b :> {NotManaged}

ChangingOwners ==
    a :> {NotManaged, File(TRUE, dnsA, name, special, TRUE), Refused(File(TRUE, dnsB, NoName, special, FALSE))}
    @@ b :> {NotManaged, File(TRUE, dnsB, NoName, plain, TRUE), [garbled |-> TRUE]}

Owned == INSTANCE LinkRouting WITH
    Links <- {a, b}, Setters <- {u}, Queriers <- {}, DnsLists <- {dnsA, dnsB}, Names <- {name},
    Options <- {plain, special}, DefaultOption <- plain, KernelStates <- {"gone", "up"},
    FileStates <- FixedOwners, MaxEvents <- 2, MaxCalls <- 2

Managed == INSTANCE LinkRouting WITH
    Links <- {a, b}, Setters <- {}, Queriers <- {q}, DnsLists <- {dnsA, dnsB}, Names <- {name},
    Options <- {plain, special}, DefaultOption <- plain, KernelStates <- {"down", "up"},
    FileStates <- ChangingOwners, MaxEvents <- 3, MaxCalls <- 0

vars == <<kernel, file, rtnl, watch, events, table, networkd, specs, kpc, snapshot, live, kchanged,
          npc, incoming, unread, todo, nchanged, started, pc, call, changed, calls, qpc, scopes,
          stop, unpublished, lost, abandoned>>
all == <<world, vars>>

Init ==
    \/ world = "owned" /\ Owned!Init
    \/ world = "managed" /\ Managed!Init
\* Deadlock is checked in the first world.  The second may stop: see SyncsEnd.
Next ==
    \/ world = "owned" /\ Owned!Next /\ UNCHANGED world
    \/ world = "managed" /\ Managed!Next /\ UNCHANGED world
    \/ world = "managed" /\ UNCHANGED all
Spec == Init /\ [][Next]_all

-----------------------------------------------------------------------------
\* finish_routing_change is never forgotten after a change of the table or of
\* the server specs, by any call that comes to its end.  What
\* sync_networkd_links has changed when it returns early, for a domain that a
\* setter refuses, is excepted: it stays unpublished until the next change.
EveryChangePublished ==
    IF world = "owned" THEN Owned!TypeOK /\ Owned!EveryChangePublished
                       ELSE Managed!TypeOK /\ Managed!EveryChangePublished

\* The tables follow their sources.  When the RTNL thread sleeps with nothing
\* signalled and its last link_snapshot was successful, the table has exactly
\* the kernel's links in the kernel's state; and the servers of a link have
\* their own specs, not another list's, whenever no thread is between the two
\* locks, unless an early return of sync_networkd_links left the link half done.
TablesFollowSources == world = "owned" => Owned!KernelUpToDate /\ Owned!SpecsDescribeServers

\* A managed link of the table has what networkd gave it, as long as no new link
\* appears (the world has none), and one that networkd stops managing loses what
\* networkd had set.  Links that an early return of sync_networkd_links has left
\* half done are excepted from both until a later synchronization rewrites them;
\* their server specs are not.
ManagedLinksConfigured ==
    world = "managed" => Managed!ManagedLinksConfigured /\ Managed!UnmanagedLinksReverted

\* The scopes a query goes out on are all eligible and relevant when it does.
ScopesAgree == [][world = "managed" => Managed!AsksEligible]_all
=============================================================================
