---------------------------- MODULE DnsSdCatalog ----------------------------
(***************************************************************************)
(* The catalog of DNS-SD services configured by files: selection and       *)
(* loading of the files (dnssd_config.rs), reloading, renaming after a     *)
(* conflict and the retired catalogs goodbyes are sent from                *)
(* (dnssd_runtime_v2.rs).                                                  *)
(*                                                                         *)
(* A file is what parse_service makes of it: a name and type, its service, *)
(* and the rest, its body; or it is Garbled.  Clocks count down:           *)
(* until_reload to next_reload, left to a retired catalog's expiry.        *)
(* force_reload reads the files before it takes the lock; loaded is what a *)
(* caller has read and not yet applied.  Every other call runs under the   *)
(* lock from start to end and begins with refresh.                         *)
(***************************************************************************)
EXTENDS Naturals

CONSTANTS
    Files,             \* base names of *.dnssd files
    Directories,       \* how many directories are searched, first wins
    Services,          \* instance names and types
    Bodies,            \* ports, priorities, TXT and subtypes
    RELOAD_INTERVAL,
    RETIRED_RETENTION,
    MaxEdits,          \* bound: changes of files
    MaxCalls           \* bound: conflicts and flushes

NoFile == [kind |-> "none"]
Mask == [kind |-> "mask"]
Garbled == [kind |-> "garbled"]
Service(s, b) == [kind |-> "service", service |-> s, body |-> b]
Contents == {Service(s, b) : s \in Services, b \in Bodies} \cup {Garbled}

(* A template by file; the configuration the templates were parsed from    *)
(* has the same domain.                                                    *)
EmptyCatalog == [templates |-> <<>>, configuration |-> <<>>, generation |-> 0]

VARIABLES
    files,         \* files[d][f]: what directory d has under f
    edits,         \* changes of files so far
    calls,         \* conflicts and flushes so far
    catalog,
    until_reload,
    retired,       \* catalogs withdrawn less than RETIRED_RETENTION ago
    loaded         \* what force_reload has read, or None

vars == <<files, edits, calls, catalog, until_reload, retired, loaded>>

None == [kind |-> "none"]

-----------------------------------------------------------------------------
(* selected_files: a file of an earlier directory hides those of the same  *)
(* name in later ones; so does a mask.                                     *)
selected_files(fs) ==
    LET first(f) == {d \in 1..Directories :
                        /\ fs[d][f] # NoFile
                        /\ \A e \in 1..(d - 1) : fs[e][f] = NoFile}
    IN  [f \in {f \in Files : \E d \in first(f) : fs[d][f] # Mask} |->
            fs[CHOOSE d \in first(f) : TRUE][f]]

Loadable(fs) == \A f \in DOMAIN selected_files(fs) : selected_files(fs)[f] # Garbled

(* ServiceCatalog::load; one garbled file fails it.                        *)
load(fs) ==
    LET selected == selected_files(fs)
    IN  [templates |-> [f \in DOMAIN selected |->
                          [service |-> selected[f].service, body |-> selected[f].body,
                           ordinal |-> 1]],
         configuration |-> selected,
         generation |-> 1]

MutantReconciled(c, new) == [new EXCEPT !.generation = c.generation + 1]

(* ServiceCatalog::reconcile for a changed configuration: a service keeps  *)
(* the ordinal that conflicts have given it.                               *)
Reconciled(c, new) ==
    [new EXCEPT
        !.templates = [f \in DOMAIN new.templates |->
            IF f \in DOMAIN c.templates /\ c.templates[f].service = new.templates[f].service
            THEN [new.templates[f] EXCEPT !.ordinal = c.templates[f].ordinal]
            ELSE new.templates[f]],
        !.generation = c.generation + 1]

(* A call replaces the catalog and retires the one before, unless that was *)
(* empty.                                                                  *)
Replace(new) ==
    /\ catalog' = new
    /\ retired' = IF catalog.templates = <<>> THEN retired
                  ELSE retired \cup {[templates |-> catalog.templates, left |-> RETIRED_RETENTION]}

reconcile_catalog(new) ==
    IF catalog.configuration = new.configuration
    THEN UNCHANGED <<catalog, retired>>
    ELSE Replace(Reconciled(catalog, new))

-----------------------------------------------------------------------------
Init ==
    /\ files = [d \in 1..Directories |-> [f \in Files |-> NoFile]]
    /\ edits = 0 /\ calls = 0
    /\ catalog = EmptyCatalog
    /\ until_reload = 0
    /\ retired = {}
    /\ loaded = None

Edit(d, f, c) ==
    /\ edits < MaxEdits
    /\ files[d][f] # c
    /\ edits' = edits + 1
    /\ files' = [files EXCEPT ![d][f] = c]
    /\ UNCHANGED <<calls, catalog, until_reload, retired, loaded>>

(* A second passes.                                                        *)
Tick ==
    /\ until_reload > 0 \/ retired # {}
    /\ until_reload' = IF until_reload = 0 THEN 0 ELSE until_reload - 1
    /\ retired' = {[r EXCEPT !.left = @ - 1] : r \in {r \in retired : r.left > 1}}
    /\ UNCHANGED <<files, edits, calls, catalog, loaded>>

(* refresh, at the start of records_for, goodbye_records_for,              *)
(* instance_owners, rename_conflicting_owner and generation.               *)
refresh ==
    /\ until_reload = 0
    /\ until_reload' = RELOAD_INTERVAL
    /\ IF Loadable(files) THEN reconcile_catalog(load(files))
       ELSE UNCHANGED <<catalog, retired>>
    /\ UNCHANGED <<files, edits, calls, loaded>>

(* rename_conflicting_owner, once refreshed, for an owner that is one of   *)
(* the catalog's instances.                                                *)
rename_conflicting_owner(f) ==
    /\ until_reload > 0
    /\ f \in DOMAIN catalog.templates
    /\ calls < MaxCalls
    /\ calls' = calls + 1
    /\ Replace([catalog EXCEPT !.templates[f].ordinal = @ + 1, !.generation = @ + 1])
    /\ UNCHANGED <<files, edits, until_reload, loaded>>

ForceReloadRead ==
    /\ loaded = None
    /\ Loadable(files)
    /\ loaded' = load(files)
    /\ UNCHANGED <<files, edits, calls, catalog, until_reload, retired>>

force_reload ==
    /\ loaded # None
    /\ reconcile_catalog(loaded)
    /\ until_reload' = RELOAD_INTERVAL
    /\ loaded' = None
    /\ UNCHANGED <<files, edits, calls>>

flush ==
    /\ calls < MaxCalls
    /\ calls' = calls + 1
    /\ Replace(EmptyCatalog)
    /\ until_reload' = 0
    /\ UNCHANGED <<files, edits, loaded>>

Next ==
    \/ \E d \in 1..Directories, f \in Files, c \in Contents \cup {NoFile, Mask} : Edit(d, f, c)
    \/ Tick
    \/ refresh
    \/ \E f \in Files : rename_conflicting_owner(f)
    \/ ForceReloadRead \/ force_reload
    \/ flush

Spec == Init /\ [][Next]_vars

(* Time passes and the responder goes on asking for records.  A caller of  *)
(* force_reload that has read the files goes on to apply them.             *)
Fairness == WF_vars(Tick) /\ WF_vars(refresh) /\ WF_vars(force_reload)

-----------------------------------------------------------------------------
TypeOK ==
    /\ until_reload \in 0..RELOAD_INTERVAL
    /\ DOMAIN catalog.templates = DOMAIN catalog.configuration
    /\ \A r \in retired : r.left \in 1..RETIRED_RETENTION
    /\ edits \in 0..MaxEdits /\ calls \in 0..MaxCalls

(* No reload that finds a service's file again, an older reading of the    *)
(* files by force_reload included, gives a service that was renamed after  *)
(* a conflict its old name back (reconcile).  A service that leaves the    *)
(* catalog, by flush or by a reading that lacks its file, and comes back   *)
(* with a later reload starts under its first name: see RenamesLast.       *)
KeepsRenames ==
    \A f \in DOMAIN catalog.templates \cap DOMAIN catalog'.templates :
        catalog.templates[f].service = catalog'.templates[f].service
            => catalog'.templates[f].ordinal >= catalog.templates[f].ordinal
RenamesSurviveReload == [][KeepsRenames]_vars

(* Refuted: while the catalog in which a service had a name can still be   *)
(* asked for goodbyes, the service has that name or a later one.  A flush  *)
(* drops what conflicts have taught, and so does a force_reload that read  *)
(* the files before the service was added; the next refresh brings the     *)
(* service back under the name it had given up.                            *)
RenamesLast ==
    \A r \in retired : \A f \in DOMAIN r.templates \cap DOMAIN catalog.templates :
        r.templates[f].service = catalog.templates[f].service
            => catalog.templates[f].ordinal >= r.templates[f].ordinal

(* An instance that is served in one state and not in the next can still   *)
(* be withdrawn: goodbye_records_for has it for RETIRED_RETENTION.         *)
RetiresWithdrawn ==
    \A f \in DOMAIN catalog.templates :
        (\A g \in DOMAIN catalog'.templates : catalog'.templates[g] # catalog.templates[f])
            => \E r \in retired' : /\ r.left = RETIRED_RETENTION
                                   /\ f \in DOMAIN r.templates
                                   /\ r.templates[f] = catalog.templates[f]

(* Once the files stop changing and can be loaded, the catalog has them:   *)
(* neither an older reading applied late nor a garbled file in between is  *)
(* the last word.                                                          *)
CatalogCatchesUp ==
    (edits = MaxEdits /\ Loadable(files)) ~> (catalog.configuration = selected_files(files))
=============================================================================
