------------------------------- MODULE Scaffold -------------------------------
(***************************************************************************)
(* RunProto (src/internal/scaffold/proto.go), behind `make scaffold-proto':*)
(* from a proto path it makes a module of the server.  It adds the proto   *)
(* and the service stub (Kratos CLI), runs `make api', writes the biz and  *)
(* data stubs, and edits six files in place: three Wire provider sets, the *)
(* two server files and the configuration.                                 *)
(*                                                                         *)
(* The steps share nothing but the source tree and none is undone: a run   *)
(* that fails, or is interrupted, leaves what it did.  The only guard      *)
(* against running twice is that the proto must not exist yet.  Between    *)
(* runs a developer edits the stubs, or removes a proto to run again.      *)
(* One run is made at a time; each file is written whole.                  *)
(*                                                                         *)
(* A proto path is its directory, as a sequence of names, and its base     *)
(* name.  Go names are kept as the part of the path they are made from:    *)
(* upperCamel and lowerCamel are taken to be injective on the base names,  *)
(* and no directory name or constructor to end in, or extend, another.     *)
(***************************************************************************)
EXTENDS Integers, Sequences

CONSTANTS
  Protos,     \* proto paths that NormalizeProtoPath accepts: [dir, base]
  NoProto,    \* no proto path
  Singular    \* singularize, on the base names

Bases == {p.base : p \in Protos}

ASSUME ScaffoldAssumption ==
  /\ NoProto \notin Protos
  /\ \A p \in Protos : p.dir \in Seq(STRING)
  /\ Bases \subseteq DOMAIN Singular

VARIABLES
  proto,      \* per path: what api/<path> holds
  generated,  \* the protos `make api' has compiled
  stubs,      \* per layer and base name: the module the stub file was made for
  edited,     \* the stub files with code of a developer in them
  sets,       \* per layer: the constructors in the provider set
  calls,      \* per server: the modules whose registration it calls
  config,     \* configs/config.yaml and its remote_grpc section
  entries,    \* the base names in that section
  run,        \* the run in progress: its options and the step it is at
  succeeded,  \* the modules of the tree whose last run returned no error
  latest      \* history: per base name, the module that was run for last

tree == <<proto, generated, stubs, edited, sets, calls, config, entries>>
vars == <<tree, run, succeeded, latest>>

-----------------------------------------------------------------------------
Layers == {"service", "biz", "data"}
Servers == {"grpc", "http"}

\* The file may be missing, or have no remote_grpc section; the first entry then makes
\* one at the end of the file, at the top level.
Configs == {"absent", "bare", "appended", "section"}

Steps ==
  {"idle", "add", "crud", "gopackage", "server", "api", "bizstub", "datastub",
   "serviceset", "bizset", "dataset", "grpc", "http", "config"}

\* The names a module is known by: New<Base>Service, but New<Singular>Usecase and
\* New<Singular>Repo.
Constructor(layer, p) == IF layer = "service" THEN p.base ELSE Singular[p.base]

Names == Bases \cup {Singular[b] : b \in Bases}

TypeOK ==
  /\ proto \in [Protos -> {"absent", "added", "placeholder", "ready"}]
  /\ generated \subseteq Protos
  /\ stubs \in [Layers -> [Bases -> Protos \cup {NoProto}]]
  /\ edited \subseteq Layers \X Bases
  /\ sets \in [Layers -> Seq(Names)]
  /\ calls \in [Servers -> Seq(Protos)]
  /\ config \in Configs
  /\ entries \in Seq(Bases)
  /\ run \in [step : Steps, proto : Protos \cup {NoProto}, crud : BOOLEAN, skip : BOOLEAN]
  /\ succeeded \subseteq Protos
  /\ latest \in [Bases -> Protos \cup {NoProto}]

\* No module but those of the template.
Init ==
  /\ proto = [p \in Protos |-> "absent"]
  /\ generated = {}
  /\ stubs = [l \in Layers |-> [b \in Bases |-> NoProto]]
  /\ edited = {}
  /\ sets = [l \in Layers |-> <<>>]
  /\ calls = [s \in Servers |-> <<>>]
  /\ config \in {"absent", "bare", "section"}
  /\ entries = <<>>
  /\ run = [step |-> "idle", proto |-> NoProto, crud |-> FALSE, skip |-> FALSE]
  /\ succeeded = {}
  /\ latest = [b \in Bases |-> NoProto]

At(step) == run.step = step
Goto(step) == run' = [run EXCEPT !.step = step]

-----------------------------------------------------------------------------
(* The run.                                                                 *)

\* Fault: the proto is not looked for.
StartAnyway(p, crud, skip) ==
  /\ At("idle")
  /\ run' = [step |-> "add", proto |-> p, crud |-> crud, skip |-> skip]
  /\ succeeded' = succeeded \ {p}
  /\ latest' = [latest EXCEPT ![p.base] = p]
  /\ UNCHANGED tree

\* A path, a root or a directory that is refused, or a proto that exists, ends
\* the run before it has changed anything: a stuttering step.
Start(p, crud, skip) ==
  /\ At("idle")
  /\ proto[p] = "absent"
  /\ run' = [step |-> "add", proto |-> p, crud |-> crud, skip |-> skip]
  /\ succeeded' = succeeded \ {p}
  /\ latest' = [latest EXCEPT ![p.base] = p]
  /\ UNCHANGED tree

\* `kratos proto add'.
AddProto ==
  /\ At("add")
  /\ proto' = [proto EXCEPT ![run.proto] = "added"]
  /\ Goto(IF run.crud THEN "crud" ELSE "gopackage")
  /\ UNCHANGED <<generated, stubs, edited, sets, calls, config, entries, succeeded, latest>>

\* The new text has the go_package "placeholder" until the next step.
RewriteProtoAsCRUD ==
  /\ At("crud")
  /\ proto' = [proto EXCEPT ![run.proto] = "placeholder"]
  /\ Goto("gopackage")
  /\ UNCHANGED <<generated, stubs, edited, sets, calls, config, entries, succeeded, latest>>

RewriteGoPackage ==
  /\ At("gopackage")
  /\ proto' = [proto EXCEPT ![run.proto] = "ready"]
  /\ Goto("server")
  /\ UNCHANGED <<generated, stubs, edited, sets, calls, config, entries, succeeded, latest>>

\* `kratos proto server': a file that exists is left alone, whoever it is for, and a
\* new one may get another name than the run expects, which is not an error.
ServiceStub ==
  /\ At("server")
  /\ \E made \in {run.proto, NoProto} :
       stubs' = [stubs EXCEPT !["service"][run.proto.base] = IF @ = NoProto THEN made ELSE @]
  /\ Goto("api")
  /\ UNCHANGED <<proto, generated, edited, sets, calls, config, entries, succeeded, latest>>

\* `make api' compiles every proto of the tree; then gofmt of the service stub, if
\* there is one.
MakeApi ==
  /\ At("api")
  /\ generated' = {p \in Protos : proto[p] # "absent"}
  /\ Goto("bizstub")
  /\ UNCHANGED <<proto, stubs, edited, sets, calls, config, entries, succeeded, latest>>

\* os.WriteFile: whatever the file held is gone.
WriteStub(layer, here, next) ==
  /\ At(here)
  /\ stubs' = [stubs EXCEPT ![layer][run.proto.base] = run.proto]
  /\ edited' = edited \ {<<layer, run.proto.base>>}
  /\ Goto(next)
  /\ UNCHANGED <<proto, generated, sets, calls, config, entries, succeeded, latest>>

WriteBizStub == WriteStub("biz", "bizstub", "datastub")
WriteDataStub == WriteStub("data", "datastub", "serviceset")

Holds(list, x) == \E i \in DOMAIN list : list[i] = x

\* Fault: a constructor is added without looking for it.
AddConstructor(list, name) == Append(list, name)

\* updateProviderSet: unless the name is there it goes before the last parenthesis.
UpdateProviderSet(list, name) == IF Holds(list, name) THEN list ELSE Append(list, name)

UpdateSet(layer, here, next) ==
  /\ At(here)
  /\ sets' = [sets EXCEPT ![layer] = UpdateProviderSet(@, Constructor(layer, run.proto))]
  /\ Goto(next)
  /\ UNCHANGED <<proto, generated, stubs, edited, calls, config, entries, succeeded, latest>>

\* Fault: --skip-auto-register skips the rest of the run.
UpdateProviderSetsSkips ==
  \/ UpdateSet("service", "serviceset", IF run.skip THEN "config" ELSE "bizset")
  \/ UpdateSet("biz", "bizset", "dataset")
  \/ UpdateSet("data", "dataset", "grpc")

UpdateProviderSets ==
  \/ UpdateSet("service", "serviceset", "bizset")
  \/ UpdateSet("biz", "bizset", "dataset")
  \/ UpdateSet("data", "dataset", IF run.skip THEN "config" ELSE "grpc")

IsSuffix(s, t) ==
  /\ Len(s) <= Len(t)
  /\ SubSeq(t, Len(t) - Len(s) + 1, Len(t)) = s

\* strings.Contains(file, registerCall): the text of p's call, which begins with
\* its dotted directory, also ends the call of a module in a longer directory.
Mentions(list, p) ==
  \E i \in DOMAIN list : list[i].base = p.base /\ IsSuffix(p.dir, list[i].dir)

\* registerServiceInServer: the call goes right after the server's creation, its
\* import with it.
RegisterServiceInServer(server, next) ==
  /\ At(server)
  /\ calls' = [calls EXCEPT ![server] =
                 IF Mentions(@, run.proto) THEN @ ELSE <<run.proto>> \o @]
  /\ Goto(next)
  /\ UNCHANGED <<proto, generated, stubs, edited, sets, config, entries, succeeded, latest>>

\* Fault: the entry is named for the first directory.
InjectPathEntry ==
  /\ At("config")
  /\ entries' = <<run.proto.dir[1]>> \o entries
  /\ Goto("idle")
  /\ succeeded' = succeeded \cup {run.proto}
  /\ UNCHANGED <<proto, generated, stubs, edited, sets, calls, config, latest>>

\* injectConfigEntry, and the return of the result: without the file there is nothing to
\* do, and no error.
InjectConfigEntry ==
  /\ At("config")
  /\ entries' = IF config = "absent" \/ Holds(entries, run.proto.base) THEN entries
                ELSE <<run.proto.base>> \o entries
  /\ config' = IF config = "bare" THEN "appended" ELSE config
  /\ Goto("idle")
  /\ succeeded' = succeeded \cup {run.proto}
  /\ UNCHANGED <<proto, generated, stubs, edited, sets, calls, latest>>

\* Any step may fail (a tool that is missing or refuses its input, a file that
\* cannot be read or written) and any run be interrupted.
Abort ==
  /\ ~At("idle")
  /\ Goto("idle")
  /\ UNCHANGED <<tree, succeeded, latest>>

-----------------------------------------------------------------------------
(* The developer, between runs.                                             *)

\* Code is written for a module that is there: its proto exists.
Edit(layer, b) ==
  /\ At("idle")
  /\ stubs[layer][b] # NoProto
  /\ proto[stubs[layer][b]] # "absent"
  /\ edited' = edited \cup {<<layer, b>>}
  /\ UNCHANGED <<proto, generated, stubs, sets, calls, config, entries, run, succeeded, latest>>

\* To run again after a failure the developer removes the proto, and with it
\* gives up what was written for it.
RemoveProto(p) ==
  /\ At("idle")
  /\ proto[p] # "absent"
  /\ proto' = [proto EXCEPT ![p] = "absent"]
  /\ edited' = {e \in edited : stubs[e[1]][e[2]] # p}
  /\ succeeded' = succeeded \ {p}
  /\ UNCHANGED <<generated, stubs, sets, calls, config, entries, run, latest>>

-----------------------------------------------------------------------------
RunProto ==
  \/ \E p \in Protos, crud, skip \in BOOLEAN : Start(p, crud, skip)
  \/ AddProto \/ RewriteProtoAsCRUD \/ RewriteGoPackage
  \/ ServiceStub \/ MakeApi \/ WriteBizStub \/ WriteDataStub
  \/ UpdateProviderSets
  \/ RegisterServiceInServer("grpc", "http")
  \/ RegisterServiceInServer("http", "config")
  \/ InjectConfigEntry
  \/ Abort

Next ==
  \/ RunProto
  \/ \E p \in Protos : RemoveProto(p)
  \/ \E l \in Layers, b \in Bases : Edit(l, b)

Spec == Init /\ [][Next]_vars

-----------------------------------------------------------------------------
(* What the scaffold promises.                                              *)

\* A module whose last run reported success has, after any earlier failures, reruns and
\* runs for modules of the same name: its proto, final and compiled; its constructors in
\* the three provider sets; its entry, where there is a configuration; and, until another
\* module of its name is run for, its own biz and data stubs.  A service stub is not
\* among this: see StubsAreItsOwn.
SuccessIsComplete ==
  \A p \in succeeded :
    /\ proto[p] = "ready" /\ p \in generated
    /\ \A l \in Layers : Holds(sets[l], Constructor(l, p))
    /\ config # "absent" => Holds(entries, p.base)
    /\ latest[p.base] = p => \A l \in {"biz", "data"} : stubs[l][p.base] = p

Once(list) == \A i, j \in DOMAIN list : list[i] = list[j] => i = j

\* Wire refuses a provider set, Kratos a server and YAML a mapping in which a name
\* comes twice: runs that failed half way and were made again, and modules that
\* share a name, add it once.
EachNameOnce ==
  /\ \A l \in Layers : Once(sets[l])
  /\ \A s \in Servers : Once(calls[s])
  /\ Once(entries)

\* Running the scaffold again for a module that is there destroys none of the code
\* written into it: a stub loses its edits only to a module of another path with the
\* same base name, or when its own proto was removed.
RerunKeepsEdits ==
  [][\A l \in Layers, b \in Bases :
       <<l, b>> \in edited /\ <<l, b>> \notin edited' =>
         stubs'[l][b] # stubs[l][b] \/ proto'[stubs[l][b]] = "absent"]_vars

\* CONTRIBUTING.md:54: the scaffold registers the service in grpc.go and http.go.
\* A run without --skip-auto-register that has come to the configuration has its
\* module's call in both.
ModuleIsRegistered ==
  At("config") /\ ~run.skip => \A s \in Servers : Holds(calls[s], run.proto)

\* CONTRIBUTING.md:53: the scaffold generates the service, biz and data stubs.  A run
\* that has come to the configuration leaves no stub of another module in the place of
\* its own.
StubsAreItsOwn ==
  At("config") => \A l \in Layers : stubs[l][run.proto.base] \in {run.proto, NoProto}

-----------------------------------------------------------------------------
(* The inductive invariant: what a run has done when it comes to a step.    *)

BeforeServer == {"idle", "add", "crud", "gopackage"}
BeforeBizStub == BeforeServer \cup {"server", "api"}
BeforeDataStub == BeforeBizStub \cup {"bizstub"}
BeforeServiceSet == BeforeDataStub \cup {"datastub"}
BeforeBizSet == BeforeServiceSet \cup {"serviceset"}
BeforeDataSet == BeforeBizSet \cup {"bizset"}
BeforeServers == BeforeDataSet \cup {"dataset"}

RunInv ==
  LET p == run.proto IN run.step # "idle" =>
    /\ p \in Protos \ succeeded /\ latest[p.base] = p
    /\ \A e \in edited : stubs[e[1]][e[2]] # p
    /\ run.step \notin BeforeServer => proto[p] = "ready"
    /\ run.step \notin BeforeBizStub => p \in generated
    /\ run.step \notin BeforeDataStub => stubs["biz"][p.base] = p
    /\ run.step \notin BeforeServiceSet => stubs["data"][p.base] = p
    /\ run.step \notin BeforeBizSet => Holds(sets["service"], p.base)
    /\ run.step \notin BeforeDataSet => Holds(sets["biz"], Singular[p.base])
    /\ run.step \notin BeforeServers => Holds(sets["data"], Singular[p.base])

EditInv ==
  \A e \in edited :
    stubs[e[1]][e[2]] \in Protos /\ proto[stubs[e[1]][e[2]]] # "absent"

IInv == TypeOK /\ EachNameOnce /\ SuccessIsComplete /\ RunInv /\ EditInv

=============================================================================
