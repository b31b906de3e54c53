------------------------------- MODULE Startup -------------------------------
(***************************************************************************)
(* Reading the configuration and publishing the two runtime resolv.conf    *)
(* files: Config::load and what main.rs does before the first query.       *)
(* The daemon starts, may fail or be killed between any two writes, and is *)
(* started again over what it left behind, while an administrator edits    *)
(* the files and points /etc/resolv.conf anywhere, its own output          *)
(* included.                                                               *)
(*                                                                         *)
(* A server is [ip, port, name]; its address is the ip and the port.  A    *)
(* text is the sequence of its assignments [key, value], the value being a *)
(* sequence of tokens; the token Bad fails to parse.  A resolv.conf body   *)
(* holds the ips of its nameserver lines and its search domains.           *)
(***************************************************************************)
EXTENDS Naturals, Sequences, SequencesExt, TLC

CONSTANTS
    Texts,          \* bodies of a configuration file
    Directories,    \* number of drop-in directories, the last one strongest
    FileNames,      \* number of drop-in names, in their sorted order
    Credentials,    \* contents [dns, domains] of the credentials directory
    DefaultFallback, \* the addresses built in as fallback servers
    Upstreams,      \* values of the upstream option, <<>> when not given
    ForeignBodies,  \* resolv.conf bodies somebody else writes
    MaxEdits        \* bound on the changes made to the files

VARIABLES
    main,       \* the main configuration file
    drop_ins,   \* drop_ins[d][f]: the file of name f in directory d
    creds,      \* [dns, domains]: the credentials directory
    etc,        \* what /etc/resolv.conf is: [kind, body], see EtcKinds
    run,        \* the runtime directory: [stub, uplink], each a body
    tmp,        \* its temporary files, the same way
    proc,       \* the daemon: [pc, config]
    edited,     \* whether a file changed since the configuration was read
    edits

vars == <<main, drop_ins, creds, etc, run, tmp, proc, edited, edits>>

Absent == <<[key |-> "absent", value |-> <<>>]>>
Bad == [ip |-> "bad", port |-> 0, name |-> ""]
LocalStubs == {"127.0.0.53", "127.0.0.54", "::1"}
NoBody == [kind |-> "none", servers |-> <<>>, search |-> <<>>]
Whole(servers, search) == [kind |-> "whole", servers |-> servers, search |-> search]
Torn == [kind |-> "torn", servers |-> <<>>, search |-> <<>>]

address(spec) == [ip |-> spec.ip, port |-> spec.port]
Add(s, e) == IF Contains(s, e) THEN s ELSE Append(s, e)

\* ------------------------------------------------------- assignments
NoServers == [addresses |-> <<>>, specs |-> <<>>]

\* apply_server_spec_assignment: an empty value clears both views, a token
\* that does not parse ends the assignment and leaves what came before it.
apply_server_spec_assignment(view, value) ==
    LET Step(r, token) ==
            IF ~r.ok \/ token = Bad THEN [r EXCEPT !.ok = FALSE]
            ELSE [r EXCEPT !.view = [addresses |-> Add(@.addresses, address(token)),
                                     specs |-> Add(@.specs, token)]]
    IN  IF value = <<>> THEN [view |-> NoServers, ok |-> TRUE]
        ELSE FoldLeft(Step, [view |-> view, ok |-> TRUE], value)

\* apply_domain_assignment; a domain is [name, route_only].
apply_domain_assignment(domains, value) ==
    LET Step(r, token) ==
            IF ~r.ok \/ token = Bad THEN [r EXCEPT !.ok = FALSE]
            ELSE [r EXCEPT !.view = Add(@, token)]
    IN  IF value = <<>> THEN [view |-> <<>>, ok |-> TRUE]
        ELSE FoldLeft(Step, [view |-> domains, ok |-> TRUE], value)

Default ==
    [dns |-> NoServers, fallback |-> [NoServers EXCEPT !.addresses = DefaultFallback],
     domains |-> <<>>, assigned |-> FALSE, ok |-> TRUE]

\* apply_setting: the three settings that decide which servers and search
\* domains are used; every other one sets a scalar or is ignored.
apply_setting(config, setting) ==
    CASE setting.key \in {"DNS", "FallbackDNS"} ->
            LET list == IF setting.key = "DNS" THEN "dns" ELSE "fallback"
                r == apply_server_spec_assignment(config[list], setting.value)
            IN  [config EXCEPT ![list] = r.view, !.ok = r.ok,
                               !.assigned = @ \/ (list = "dns" /\ r.ok)]
      [] setting.key = "Domains" ->
            LET r == apply_domain_assignment(config.domains, setting.value)
            IN  [config EXCEPT !.domains = r.view, !.ok = r.ok, !.assigned = @ \/ r.ok]
      [] OTHER -> config

\* apply_text_tracking: the first line that fails ends the file.
apply_text_tracking(config, text) ==
    FoldLeft(LAMBDA c, s : IF c.ok THEN apply_setting(c, s) ELSE c, config, text)

apply_optional_file(config, file) ==
    IF file = Absent \/ ~config.ok THEN config ELSE apply_text_tracking(config, file)

\* discover_drop_ins: one file per name, that of the last directory that
\* has it, in the order of the names.
discover_drop_ins ==
    LET Holders(f) == {d \in 1..Directories : drop_ins[d][f] # Absent}
        Strongest(f) == CHOOSE d \in Holders(f) : \A e \in Holders(f) : e <= d
        Named == SetToSortSeq({f \in 1..FileNames : Holders(f) # {}}, <)
    IN  [i \in 1..Len(Named) |-> drop_ins[Strongest(Named[i])][Named[i]]]

\* ------------------------------------------------- external configuration
\* apply_credentials: what one credential assigned before it failed stays.
apply_credentials(config) ==
    [config EXCEPT
        !.dns = IF creds.dns = Absent THEN @
                ELSE apply_server_spec_assignment(@, creds.dns).view,
        !.domains = IF creds.domains = Absent THEN @
                    ELSE apply_domain_assignment(@, creds.domains).view]

is_local_stub(addr) == addr.ip \in LocalStubs

\* Adds the addresses of s that are not the daemon's own stub, once each.
filtered_servers(s) ==
    FoldLeft(LAMBDA out, a : IF is_local_stub(a) THEN out ELSE Add(out, a), <<>>, s)

\* What a reader of /etc/resolv.conf gets.
EtcBody ==
    CASE etc.kind \in {"stub", "hard stub"} -> run.stub
      [] etc.kind \in {"uplink", "hard uplink"} -> run.uplink
      [] etc.kind = "missing" -> NoBody
      [] OTHER -> etc.body

MutantDiscover(body) ==
    IF run.uplink # NoBody THEN [servers |-> <<>>, domains |-> <<>>]
    ELSE [servers |-> filtered_servers([i \in 1..Len(body.servers) |->
                                           [ip |-> body.servers[i], port |-> 53]]),
          domains |-> <<>>]

\* discover_resolv_conf_state: a nameserver line carries no port and no name.
discover_resolv_conf_state(body) ==
    [servers |-> filtered_servers([i \in 1..Len(body.servers) |->
                                      [ip |-> body.servers[i], port |-> 53]]),
     domains |-> apply_domain_assignment(<<>>,
                     [i \in 1..Len(body.search) |->
                         [name |-> body.search[i], route_only |-> FALSE]]).view]

\* Config::load.
load ==
    LET files == FoldLeft(apply_optional_file, Default, <<main>> \o discover_drop_ins)
        found == discover_resolv_conf_state(EtcBody)
    IN  CASE ~files.ok \/ files.assigned -> files
          [] creds.dns # Absent \/ creds.domains # Absent -> apply_credentials(files)
          [] OTHER -> [files EXCEPT !.dns.addresses = found.servers,
                                    !.domains = found.domains]

\* configured_resolver: the upstream option replaces the addresses, drops
\* the fallback addresses, and leaves both lists of specifications.
configured_resolver(upstreams) ==
    LET config == load
        given == [i \in 1..Len(upstreams) |-> address(upstreams[i])]
    IN  IF upstreams = <<>> \/ ~config.ok THEN config
        ELSE IF Contains(upstreams, Bad) THEN [config EXCEPT !.ok = FALSE]
        ELSE [config EXCEPT !.dns.addresses = given, !.fallback.addresses = <<>>]

\* ----------------------------------------------------- views of the servers
\* filtered_server_specs: every address that stays, with each specification
\* that has it, or with none.
filtered_server_specs(view) ==
    LET Of(a) == SelectSeq(view.specs, LAMBDA s : address(s) = a)
        Plain(a) == [ip |-> a.ip, port |-> a.port, name |-> ""]
    IN  FoldLeft(LAMBDA out, a : IF Of(a) = <<>> THEN Append(out, Plain(a))
                                 ELSE FoldLeft(Add, out, Of(a)),
                 <<>>, filtered_servers(view.addresses))

effective_upstreams(config) ==
    LET configured == filtered_servers(config.dns.addresses)
    IN  IF configured = <<>> THEN filtered_servers(config.fallback.addresses)
        ELSE configured

effective_upstream_specs(config) ==
    LET configured == filtered_server_specs(config.dns)
    IN  IF configured = <<>> THEN filtered_server_specs(config.fallback) ELSE configured

\* The two bodies write_runtime_resolv_confs renders.
search_domains(config) ==
    LET kept == SelectSeq(config.domains, LAMBDA d : ~d.route_only /\ d.name # ".")
    IN  [i \in 1..Len(kept) |-> kept[i].name]
StubBody(config) == Whole(<<"127.0.0.53">>, search_domains(config))
UplinkBody(config) ==
    LET servers == effective_upstreams(config)
    IN  Whole([i \in 1..Len(servers) |-> servers[i].ip], search_domains(config))

\* ------------------------------------------------------------- behaviour
\* /etc/resolv.conf does not exist, is a symbolic or a hard link to one of
\* the two runtime files or to the static file, or is somebody else's.
Symbolic == {"stub", "uplink"}
HardLink == [stub |-> "hard stub", uplink |-> "hard uplink"]
StaticBody == Whole(<<"127.0.0.53">>, <<>>)

Init ==
    /\ main \in Texts \union {Absent}
    /\ drop_ins = [d \in 1..Directories |-> [f \in 1..FileNames |-> Absent]]
    /\ creds \in Credentials
    /\ etc = [kind |-> "missing", body |-> NoBody]
    /\ run = [stub |-> NoBody, uplink |-> NoBody]
    /\ tmp = run
    /\ proc = [pc |-> "down", config |-> Default]
    /\ edited = TRUE /\ edits = 0

\* execute: reads everything and fails, or goes on to publish.
Start ==
    /\ proc.pc = "down"
    /\ \E upstreams \in Upstreams :
         LET config == configured_resolver(upstreams)
         IN  /\ config.ok
             /\ proc' = [pc |-> "open stub", config |-> config]
             /\ edited' = (upstreams # <<>>)
    /\ UNCHANGED <<main, drop_ins, creds, etc, run, tmp, edits>>

Next_pc == ("open stub" :> "fill stub") @@ ("fill stub" :> "rename stub")
           @@ ("rename stub" :> "open uplink") @@ ("open uplink" :> "fill uplink")
           @@ ("fill uplink" :> "rename uplink") @@ ("rename uplink" :> "running")
Advance == proc' = [proc EXCEPT !.pc = Next_pc[@]]

Body(f) == IF f = "stub" THEN StubBody(proc.config) ELSE UplinkBody(proc.config)

\* fs::write creates or empties the temporary file, then fills it.
OpenTemporary(f) ==
    /\ proc.pc = "open " \o f /\ Advance
    /\ tmp' = [tmp EXCEPT ![f] = Torn]
    /\ UNCHANGED <<main, drop_ins, creds, etc, run, edited, edits>>

FillTemporary(f) ==
    /\ proc.pc = "fill " \o f /\ Advance
    /\ tmp' = [tmp EXCEPT ![f] = Body(f)]
    /\ UNCHANGED <<main, drop_ins, creds, etc, run, edited, edits>>

\* fs::rename; a hard link keeps the file that was replaced.
Rename(f) ==
    /\ proc.pc = "rename " \o f /\ Advance
    /\ run' = [run EXCEPT ![f] = tmp[f]]
    /\ tmp' = [tmp EXCEPT ![f] = NoBody]
    /\ etc' = IF etc.kind = HardLink[f] THEN [kind |-> "foreign", body |-> run[f]] ELSE etc
    /\ UNCHANGED <<main, drop_ins, creds, edited, edits>>

\* The daemon is stopped or killed, or one of its writes fails.  What a
\* temporary file left behind holds is never read: the next start empties it.
Exit ==
    /\ proc.pc # "down"
    /\ proc' = [pc |-> "down", config |-> Default]
    /\ tmp' = [f \in Symbolic |-> IF tmp[f] = NoBody THEN NoBody ELSE Torn]
    /\ edited' = TRUE
    /\ UNCHANGED <<main, drop_ins, creds, etc, run, edits>>

\* ------------------------------------------------------ the administrator
Edit ==
    /\ edits < MaxEdits /\ edits' = edits + 1 /\ edited' = TRUE
    /\ \/ main' \in Texts \union {Absent} /\ UNCHANGED drop_ins
       \/ /\ \E d \in 1..Directories, f \in 1..FileNames, t \in Texts \union {Absent} :
              drop_ins' = [drop_ins EXCEPT ![d][f] = t]
          /\ UNCHANGED main
    /\ UNCHANGED <<creds, etc, run, tmp, proc>>

Relink ==
    /\ edits < MaxEdits /\ edits' = edits + 1 /\ edited' = TRUE
    /\ \/ \E k \in Symbolic \union {"missing"} : etc' = [kind |-> k, body |-> NoBody]
       \/ etc' = [kind |-> "static", body |-> StaticBody]
       \/ \E b \in ForeignBodies : etc' = [kind |-> "foreign", body |-> b]
       \/ \E f \in Symbolic : /\ run[f] # NoBody
                             /\ etc' = [kind |-> HardLink[f], body |-> NoBody]
    /\ UNCHANGED <<main, drop_ins, creds, run, tmp, proc>>

Next ==
    \/ Start \/ Exit \/ Edit \/ Relink
    \/ \E f \in Symbolic : OpenTemporary(f) \/ FillTemporary(f) \/ Rename(f)

Spec == Init /\ [][Next]_vars

\* detect_resolv_conf_mode: compares the files that the paths lead to.
detect_resolv_conf_mode ==
    CASE EtcBody = NoBody -> "missing"
      [] etc.kind \in {"uplink", "hard uplink"} -> "uplink"
      [] etc.kind \in {"stub", "hard stub"} -> "stub"
      [] OTHER -> etc.kind

\* ------------------------------------------------------------- properties
IsBody(b) == b.kind \in {"none", "torn", "whole"}

\* The files and the process keep their shapes, and a configuration that
\* was read is one that parsed.
TypeOK ==
    /\ main \in Texts \union {Absent}
    /\ \A d \in 1..Directories, f \in 1..FileNames : drop_ins[d][f] \in Texts \union {Absent}
    /\ \A f \in Symbolic : IsBody(run[f]) /\ IsBody(tmp[f])
    /\ proc.pc \in {"down"} \union DOMAIN Next_pc \union {"running"}
    /\ proc.config.ok

\* Whatever the files, the credentials, the option and /etc/resolv.conf say,
\* its own output of an earlier start included, the daemon never takes a fixed
\* address of its stub for an upstream server (filtered_servers).  Listeners
\* given by DNSStubListenerExtra, an option or the environment are not known to
\* is_local_stub and nothing is said of them.
NeverItsOwnUpstream ==
    \A server \in ToSet(effective_upstreams(proc.config)) : ~is_local_stub(server)

\* The addresses the server walk counts on and the specifications that carry
\* names and interfaces describe the same servers, also after the option
\* replaced the addresses only (filtered_server_specs).
ViewsAgree ==
    LET a == effective_upstreams(proc.config)
        s == effective_upstream_specs(proc.config)
    IN  proc.pc # "down" => ToSet(a) = {address(spec) : spec \in ToSet(s)}

\* A client that follows /etc/resolv.conf into the runtime directory never
\* reads a half-written file, wherever the daemon was killed.
PublishedFilesWhole == \A f \in Symbolic : run[f].kind # "torn"

\* While the daemon serves, the mode it reports over D-Bus is what clients
\* really read: the uplink file with the servers in use, or the stub file.
ModeDescribesClients ==
    proc.pc = "running" =>
        /\ detect_resolv_conf_mode = "uplink" => EtcBody = UplinkBody(proc.config)
        /\ detect_resolv_conf_mode = "stub" => EtcBody = StubBody(proc.config)

\* A restart over unchanged files publishes the same servers and domains, also
\* when the daemon reads back its own uplink file.  (What a nameserver line
\* cannot say, a server's port and name, is lost on the way, and two servers
\* on one address become one.)
RestartsAreStable ==
    proc.pc = "running" /\ ~edited =>
        \E config \in {load} :
            /\ config.ok
            /\ StubBody(config) = run.stub
            /\ ToSet(UplinkBody(config).servers) = ToSet(run.uplink.servers)
            /\ search_domains(config) = run.uplink.search
=============================================================================
