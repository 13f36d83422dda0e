---------------------------- MODULE ScaffoldProofs ----------------------------
(***************************************************************************)
(* The promises of the scaffold hold for any set of proto paths, however   *)
(* many of them share a base name, a singular or a part of their directory.*)
(***************************************************************************)
EXTENDS Scaffold, TLAPS

-----------------------------------------------------------------------------
(* Lists of names.                                                          *)

\* A name that is not in a list may be added at its end (updateProviderSet).
LEMMA AppendKeepsOnce ==
  ASSUME NEW S, NEW list \in Seq(S), NEW x \in S, Once(list), ~Holds(list, x)
  PROVE  Once(Append(list, x))
  BY DEF Once, Holds

\* ... or at its start (registerServiceInServer, injectConfigEntry).
LEMMA PrependKeepsOnce ==
  ASSUME NEW S, NEW list \in Seq(S), NEW x \in S, Once(list), ~Holds(list, x)
  PROVE  Once(<<x>> \o list) /\ <<x>> \o list \in Seq(S)
<1> DEFINE longer == <<x>> \o list
<1>1. longer \in Seq(S) /\ Len(longer) = Len(list) + 1
  OBVIOUS
<1>2. longer[1] = x /\ \A i \in 2 .. Len(list) + 1 : longer[i] = list[i - 1]
  OBVIOUS
<1>3. \A i, j \in DOMAIN longer : longer[i] = longer[j] => i = j
  <2> SUFFICES ASSUME NEW i \in DOMAIN longer, NEW j \in DOMAIN longer,
                      longer[i] = longer[j]
               PROVE  i = j
    OBVIOUS
  <2>0. i \in 1 .. Len(list) + 1 /\ j \in 1 .. Len(list) + 1
    BY <1>1
  <2>1. CASE i = 1 \/ j = 1
    BY <1>2, <2>0, <2>1 DEF Holds
  <2>2. CASE i # 1 /\ j # 1
    <3>1. list[i - 1] = list[j - 1] /\ i - 1 \in DOMAIN list /\ j - 1 \in DOMAIN list
      BY <1>2, <2>0, <2>2
    <3> QED
      BY <2>0, <3>1 DEF Once
  <2> QED
    BY <2>1, <2>2
<1> QED
  BY <1>1, <1>3 DEF Once

\* updateProviderSet leaves the name in the list, once, with all that was there.
LEMMA UpdateProviderSetIsRight ==
  ASSUME NEW S, NEW list \in Seq(S), NEW x \in S, Once(list)
  PROVE  LET next == UpdateProviderSet(list, x) IN
           /\ next \in Seq(S) /\ Once(next) /\ Holds(next, x)
           /\ \A y \in S : Holds(list, y) => Holds(next, y)
<1> DEFINE next == UpdateProviderSet(list, x)
<1>1. CASE Holds(list, x)
  BY <1>1 DEF UpdateProviderSet
<1>2. CASE ~Holds(list, x)
  <2>1. next = Append(list, x)
    BY <1>2 DEF UpdateProviderSet
  <2>2. Once(next) /\ next \in Seq(S)
    BY <1>2, <2>1, AppendKeepsOnce
  <2>3. Holds(next, x) /\ \A y \in S : Holds(list, y) => Holds(next, y)
    BY <2>1 DEF Holds
  <2> QED
    BY <2>2, <2>3
<1> QED
  BY <1>1, <1>2

\* A registered module's call is found by the text of the call.
LEMMA HeldIsMentioned ==
  ASSUME NEW list \in Seq(Protos), NEW p \in Protos, Holds(list, p)
  PROVE  Mentions(list, p)
<1>1. p.dir \in Seq(STRING)
  BY ScaffoldAssumption
<1>2. IsSuffix(p.dir, p.dir)
  BY <1>1 DEF IsSuffix
<1> QED
  BY <1>2 DEF Holds, Mentions

-----------------------------------------------------------------------------
(* The steps.                                                               *)

\* What is complete stays so while nothing it consists of is taken away.
LEMMA CompleteStaysComplete ==
  ASSUME TypeOK, SuccessIsComplete,
         succeeded' \subseteq succeeded,
         UNCHANGED <<config, entries>>,
         \A p \in succeeded' :
           /\ proto'[p] = proto[p] /\ (p \in generated => p \in generated')
           /\ latest'[p.base] = p =>
                /\ latest[p.base] = p
                /\ \A l \in {"biz", "data"} : stubs'[l][p.base] = stubs[l][p.base],
         \A l \in Layers, n \in Names : Holds(sets[l], n) => Holds(sets'[l], n)
  PROVE  SuccessIsComplete'
<1>1. /\ \A p \in Protos : p.base \in Bases
      /\ \A p \in Protos, l \in Layers : Constructor(l, p) \in Names
  BY DEF Constructor, Names, Bases
<1>2. ASSUME NEW p \in succeeded'
      PROVE  /\ proto'[p] = "ready" /\ p \in generated'
             /\ \A l \in Layers : Holds(sets'[l], Constructor(l, p))
             /\ config' # "absent" => Holds(entries', p.base)
             /\ latest'[p.base] = p => \A l \in {"biz", "data"} : stubs'[l][p.base] = p
  <2>1. p \in succeeded /\ p \in Protos
    BY DEF TypeOK
  <2>2. /\ proto[p] = "ready" /\ p \in generated
        /\ \A l \in Layers : Holds(sets[l], Constructor(l, p))
        /\ config # "absent" => Holds(entries, p.base)
        /\ latest[p.base] = p => \A l \in {"biz", "data"} : stubs[l][p.base] = p
    BY <2>1 DEF SuccessIsComplete
  <2>3. /\ proto'[p] = "ready" /\ p \in generated'
        /\ config' # "absent" => Holds(entries', p.base)
        /\ latest'[p.base] = p => \A l \in {"biz", "data"} : stubs'[l][p.base] = p
    BY <2>1, <2>2
  <2>4. ASSUME NEW l \in Layers
        PROVE  Holds(sets'[l], Constructor(l, p))
    BY <1>1, <2>1, <2>2
  <2> QED
    BY <2>3, <2>4
<1> QED
  BY <1>2 DEF SuccessIsComplete

LEMMA InitEstablishesIInv == Init => IInv
<1> SUFFICES ASSUME Init PROVE IInv
  OBVIOUS
<1>1. TypeOK
  BY DEF Init, TypeOK, Steps, Configs
<1>2. EachNameOnce
  BY DEF Init, EachNameOnce, Once
<1> QED
  BY <1>1, <1>2 DEF Init, IInv, SuccessIsComplete, RunInv, EditInv

LEMMA StartKeepsIInv ==
  ASSUME IInv, NEW p \in Protos, NEW crud \in BOOLEAN, NEW skip \in BOOLEAN,
         Start(p, crud, skip)
  PROVE  IInv'
<1> USE DEF IInv, Start, tree
<1>1. p.base \in Bases /\ latest' = [latest EXCEPT ![p.base] = p]
  BY DEF Bases
<1>2. TypeOK'
  BY <1>1 DEF TypeOK, Steps
<1>3. EachNameOnce' /\ EditInv'
  BY DEF EachNameOnce, EditInv
<1>4. SuccessIsComplete'
  <2>1. \A q \in succeeded' : q # p /\ q.base \in Bases
    BY DEF TypeOK, Bases
  <2>2. \A q \in succeeded' : latest'[q.base] = q => latest[q.base] = q
    BY <1>1, <2>1 DEF TypeOK
  <2> QED
    BY <2>2, CompleteStaysComplete
<1>5. RunInv'
  <2>1. \A e \in edited : stubs[e[1]][e[2]] # p
    BY DEF EditInv
  <2>2. latest'[p.base] = p
    BY <1>1 DEF TypeOK
  <2> QED
    BY <2>1, <2>2 DEF RunInv, BeforeServer, BeforeBizStub, BeforeDataStub,
         BeforeServiceSet, BeforeBizSet, BeforeDataSet, BeforeServers
<1> QED
  BY <1>2, <1>3, <1>4, <1>5

\* The three steps that write the proto of the run.
LEMMA ProtoStepKeepsIInv ==
  ASSUME IInv, AddProto \/ RewriteProtoAsCRUD \/ RewriteGoPackage
  PROVE  IInv'
<1> DEFINE p == run.proto
<1>1. /\ run.step \in {"add", "crud", "gopackage"}
      /\ \E v \in {"added", "placeholder", "ready"} :
           /\ proto' = [proto EXCEPT ![p] = v]
           /\ run.step = "gopackage" => v = "ready"
      /\ \E next \in {"crud", "gopackage", "server"} :
           /\ run' = [run EXCEPT !.step = next]
           /\ run.step # "gopackage" => next # "server"
      /\ UNCHANGED <<generated, stubs, edited, sets, calls, config, entries, succeeded, latest>>
  BY DEF AddProto, RewriteProtoAsCRUD, RewriteGoPackage, At, Goto
<1>2. p \in Protos \ succeeded /\ latest[p.base] = p
  BY <1>1 DEF IInv, RunInv
<1>3. TypeOK'
  <2>1. proto' \in [Protos -> {"absent", "added", "placeholder", "ready"}]
    BY <1>1 DEF IInv, TypeOK
  <2>2. run' \in [step : Steps, proto : Protos \cup {NoProto}, crud : BOOLEAN, skip : BOOLEAN]
    <3>1. PICK next \in Steps : run' = [run EXCEPT !.step = next]
      BY <1>1 DEF Steps
    <3> QED
      BY <3>1 DEF IInv, TypeOK
  <2> QED
    BY <1>1, <2>1, <2>2 DEF IInv, TypeOK
<1>4. EachNameOnce'
  BY <1>1 DEF IInv, EachNameOnce
<1>5. SuccessIsComplete'
  <2>1. \A q \in succeeded' : proto'[q] = proto[q]
    BY <1>1, <1>2 DEF IInv, TypeOK
  <2> QED
    BY <1>1, <2>1, CompleteStaysComplete DEF IInv
<1>6. EditInv'
  <2>1. \A e \in edited : stubs[e[1]][e[2]] # p
    BY <1>1 DEF IInv, RunInv
  <2> QED
    BY <1>1, <1>2, <2>1 DEF IInv, EditInv, TypeOK
<1>7. RunInv'
  <2>1. run'.proto = p /\ run'.step \in {"crud", "gopackage", "server"}
    BY <1>1 DEF IInv, TypeOK
  <2>2. run'.step = "server" => proto'[p] = "ready"
    BY <1>1, <1>2 DEF IInv, TypeOK
  <2>3. \A e \in edited' : stubs'[e[1]][e[2]] # p
    BY <1>1 DEF IInv, RunInv
  <2> QED
    BY <1>1, <1>2, <2>1, <2>2, <2>3
       DEF RunInv, BeforeServer, BeforeBizStub, BeforeDataStub,
           BeforeServiceSet, BeforeBizSet, BeforeDataSet, BeforeServers
<1> QED
  BY <1>3, <1>4, <1>5, <1>6, <1>7 DEF IInv

LEMMA ServiceStubKeepsIInv ==
  ASSUME IInv, ServiceStub
  PROVE  IInv'
<1> DEFINE p == run.proto
<1>1. p \in Protos \ succeeded /\ p.base \in Bases /\ run.step = "server"
  BY DEF IInv, RunInv, ServiceStub, At, Bases
<1>2. TypeOK'
  <2>1. PICK m \in Protos \cup {NoProto} : stubs' = [stubs EXCEPT !["service"][p.base] = m]
    <3>1. PICK made \in {p, NoProto} :
            stubs' = [stubs EXCEPT !["service"][p.base] = IF @ = NoProto THEN made ELSE @]
      BY DEF ServiceStub
    <3> QED
      BY <1>1, <3>1 DEF IInv, TypeOK, Layers
  <2>2. stubs' \in [Layers -> [Bases -> Protos \cup {NoProto}]]
    BY <1>1, <2>1 DEF IInv, TypeOK
  <2>3. run' \in [step : Steps, proto : Protos \cup {NoProto}, crud : BOOLEAN, skip : BOOLEAN]
    BY DEF IInv, TypeOK, ServiceStub, Goto, Steps
  <2> QED
    BY <2>2, <2>3 DEF IInv, TypeOK, ServiceStub
<1>3. \A l \in Layers, b \in Bases :
        stubs[l][b] # NoProto \/ l # "service" => stubs'[l][b] = stubs[l][b]
  BY <1>1 DEF IInv, TypeOK, ServiceStub, Layers
<1>4. EachNameOnce'
  BY DEF IInv, EachNameOnce, ServiceStub
<1>5. SuccessIsComplete'
  <2>1. \A q \in succeeded' : q.base \in Bases
    BY DEF IInv, TypeOK, ServiceStub, Bases
  <2> QED
    BY <1>3, <2>1, CompleteStaysComplete DEF IInv, ServiceStub, Layers
<1>6. \A e \in edited : stubs'[e[1]][e[2]] = stubs[e[1]][e[2]]
  BY <1>3, ScaffoldAssumption DEF IInv, EditInv, TypeOK
<1>7. EditInv'
  BY <1>6 DEF IInv, EditInv, ServiceStub
<1>8. RunInv'
  <2>1. run'.proto = p /\ run'.step = "api"
    BY DEF IInv, TypeOK, ServiceStub, Goto
  <2>2. /\ proto'[p] = "ready" /\ latest'[p.base] = p
        /\ \A e \in edited' : stubs'[e[1]][e[2]] # p
    BY <1>1, <1>6 DEF IInv, RunInv, ServiceStub, BeforeServer
  <2> QED
    BY <1>1, <2>1, <2>2
       DEF ServiceStub, RunInv, BeforeServer, BeforeBizStub, BeforeDataStub,
           BeforeServiceSet, BeforeBizSet, BeforeDataSet, BeforeServers
<1> QED
  BY <1>2, <1>4, <1>5, <1>7, <1>8 DEF IInv

LEMMA MakeApiKeepsIInv ==
  ASSUME IInv, MakeApi
  PROVE  IInv'
<1> USE DEF IInv, MakeApi, At, Goto
<1>1. TypeOK'
  BY DEF TypeOK, Steps
<1>2. EachNameOnce' /\ EditInv'
  BY DEF EachNameOnce, EditInv
<1>3. SuccessIsComplete'
  <2>1. \A q \in succeeded : q \in generated'
    BY DEF TypeOK, SuccessIsComplete
  <2> QED
    BY <2>1, CompleteStaysComplete
<1>4. RunInv'
  <2>1. run'.proto = run.proto /\ run'.step = "bizstub"
    BY DEF TypeOK
  <2>2. run.proto \in generated'
    BY DEF RunInv, BeforeServer
  <2> QED
    BY <2>1, <2>2
       DEF RunInv, BeforeServer, BeforeBizStub, BeforeDataStub,
           BeforeServiceSet, BeforeBizSet, BeforeDataSet, BeforeServers
<1> QED
  BY <1>1, <1>2, <1>3, <1>4

LEMMA WriteStubKeepsIInv ==
  ASSUME IInv, WriteBizStub \/ WriteDataStub
  PROVE  IInv'
<1> DEFINE p == run.proto
<1>1. PICK layer \in {"biz", "data"} :
        /\ stubs' = [stubs EXCEPT ![layer][p.base] = p]
        /\ edited' = edited \ {<<layer, p.base>>}
        /\ \/ layer = "biz" /\ run.step = "bizstub" /\ run' = [run EXCEPT !.step = "datastub"]
           \/ layer = "data" /\ run.step = "datastub" /\ run' = [run EXCEPT !.step = "serviceset"]
        /\ UNCHANGED <<proto, generated, sets, calls, config, entries, succeeded, latest>>
  BY DEF WriteBizStub, WriteDataStub, WriteStub, At, Goto
<1>2. /\ p \in Protos \ succeeded /\ p.base \in Bases /\ layer \in Layers
      /\ latest[p.base] = p
  BY <1>1 DEF IInv, RunInv, Bases, Layers
<1>3. TypeOK'
  <2>1. stubs' \in [Layers -> [Bases -> Protos \cup {NoProto}]]
    BY <1>1, <1>2 DEF IInv, TypeOK
  <2>2. run' \in [step : Steps, proto : Protos \cup {NoProto}, crud : BOOLEAN, skip : BOOLEAN]
    BY <1>1 DEF IInv, TypeOK, Steps
  <2> QED
    BY <1>1, <2>1, <2>2 DEF IInv, TypeOK
<1>4. \A l \in Layers, b \in Bases :
        stubs'[l][b] = IF l = layer /\ b = p.base THEN p ELSE stubs[l][b]
  BY <1>1, <1>2 DEF IInv, TypeOK
<1>5. EachNameOnce'
  BY <1>1 DEF IInv, EachNameOnce
<1>6. SuccessIsComplete'
  <2>1. \A q \in succeeded' : q.base \in Bases /\ q # p
    BY <1>1, <1>2 DEF IInv, TypeOK, Bases
  <2>2. \A q \in succeeded', l \in {"biz", "data"} :
          latest[q.base] = q => stubs'[l][q.base] = stubs[l][q.base]
    BY <1>2, <1>4, <2>1 DEF Layers
  <2> QED
    BY <1>1, <2>2, CompleteStaysComplete DEF IInv
<1>7. \A e \in edited' : stubs'[e[1]][e[2]] = stubs[e[1]][e[2]]
  BY <1>1, <1>4 DEF IInv, TypeOK
<1>8. EditInv'
  BY <1>1, <1>7 DEF IInv, EditInv
<1>9. RunInv'
  <2>1. run'.proto = p /\ run'.step = IF layer = "biz" THEN "datastub" ELSE "serviceset"
    BY <1>1 DEF IInv, TypeOK
  <2>2. stubs'[layer][p.base] = p
    BY <1>2, <1>4
  <2>3. \A l \in Layers : stubs[l][p.base] = p => stubs'[l][p.base] = p
    BY <1>2, <1>4
  <2>4. \A e \in edited' : stubs'[e[1]][e[2]] # p
    BY <1>1, <1>7 DEF IInv, RunInv
  <2>5. /\ proto[p] = "ready" /\ p \in generated
        /\ layer = "data" => stubs["biz"][p.base] = p
    BY <1>1 DEF IInv, RunInv, BeforeServer, BeforeBizStub, BeforeDataStub
  <2> QED
    BY <1>1, <1>2, <2>1, <2>2, <2>3, <2>4, <2>5
       DEF RunInv, BeforeServer, BeforeBizStub, BeforeDataStub,
           BeforeServiceSet, BeforeBizSet, BeforeDataSet, BeforeServers, Layers
<1> QED
  BY <1>3, <1>5, <1>6, <1>8, <1>9 DEF IInv

LEMMA UpdateProviderSetsKeepsIInv ==
  ASSUME IInv, UpdateProviderSets
  PROVE  IInv'
<1> DEFINE p == run.proto
<1>1. PICK layer \in Layers, next \in {"bizset", "dataset", "config", "grpc"} :
        /\ sets' = [sets EXCEPT ![layer] = UpdateProviderSet(@, Constructor(layer, p))]
        /\ run' = [run EXCEPT !.step = next]
        /\ \/ layer = "service" /\ run.step = "serviceset" /\ next = "bizset"
           \/ layer = "biz" /\ run.step = "bizset" /\ next = "dataset"
           \/ layer = "data" /\ run.step = "dataset" /\ next \in {"config", "grpc"}
        /\ UNCHANGED <<proto, generated, stubs, edited, calls, config, entries, succeeded, latest>>
  BY DEF UpdateProviderSets, UpdateSet, At, Goto, Layers
<1>2. p \in Protos \ succeeded /\ latest[p.base] = p
  BY <1>1 DEF IInv, RunInv
<1>3. Constructor(layer, p) \in Names
  BY <1>2 DEF Constructor, Names, Bases
<1> DEFINE grown == UpdateProviderSet(sets[layer], Constructor(layer, p))
<1>4. /\ grown \in Seq(Names) /\ Once(grown) /\ Holds(grown, Constructor(layer, p))
      /\ \A n \in Names : Holds(sets[layer], n) => Holds(grown, n)
  <2>1. sets[layer] \in Seq(Names) /\ Once(sets[layer])
    BY DEF IInv, TypeOK, EachNameOnce
  <2> QED
    BY <1>3, <2>1, UpdateProviderSetIsRight
<1>5. \A l \in Layers : sets'[l] = IF l = layer THEN grown ELSE sets[l]
  BY <1>1 DEF IInv, TypeOK
<1>6. TypeOK'
  <2>1. sets' \in [Layers -> Seq(Names)]
    BY <1>1, <1>4 DEF IInv, TypeOK
  <2>2. run' \in [step : Steps, proto : Protos \cup {NoProto}, crud : BOOLEAN, skip : BOOLEAN]
    BY <1>1 DEF IInv, TypeOK, Steps
  <2> QED
    BY <1>1, <2>1, <2>2 DEF IInv, TypeOK
<1>7. EachNameOnce'
  BY <1>1, <1>4, <1>5 DEF IInv, EachNameOnce
<1>8. \A l \in Layers, n \in Names : Holds(sets[l], n) => Holds(sets'[l], n)
  BY <1>4, <1>5
<1>9. SuccessIsComplete'
  BY <1>1, <1>8, CompleteStaysComplete DEF IInv
<1>10. EditInv'
  BY <1>1 DEF IInv, EditInv
<1>11. RunInv'
  <2>1. run'.proto = p /\ run'.step = next
    BY <1>1 DEF IInv, TypeOK
  <2>2. Holds(sets'[layer], Constructor(layer, p))
    BY <1>4, <1>5
  <2>3. /\ proto[p] = "ready" /\ p \in generated
        /\ stubs["biz"][p.base] = p /\ stubs["data"][p.base] = p
        /\ \A e \in edited : stubs[e[1]][e[2]] # p
        /\ layer # "service" => Holds(sets["service"], p.base)
        /\ layer = "data" => Holds(sets["biz"], Singular[p.base])
    BY <1>1 DEF IInv, RunInv, BeforeServer, BeforeBizStub, BeforeDataStub,
         BeforeServiceSet, BeforeBizSet, BeforeDataSet, Layers
  <2>4. p.base \in Names /\ Singular[p.base] \in Names
    BY <1>2 DEF Names, Bases
  <2>5. /\ layer = "service" => Holds(sets'["service"], p.base)
        /\ layer # "service" => Holds(sets'["service"], p.base)
        /\ layer = "biz" => Holds(sets'["biz"], Singular[p.base])
        /\ layer = "data" => Holds(sets'["biz"], Singular[p.base])
        /\ layer = "data" => Holds(sets'["data"], Singular[p.base])
    BY <1>8, <2>2, <2>3, <2>4 DEF Constructor, Layers
  <2> QED
    BY <1>1, <1>2, <2>1, <2>3, <2>5
       DEF RunInv, BeforeServer, BeforeBizStub, BeforeDataStub,
           BeforeServiceSet, BeforeBizSet, BeforeDataSet, BeforeServers, Layers
<1> QED
  BY <1>6, <1>7, <1>9, <1>10, <1>11 DEF IInv

LEMMA RegisterKeepsIInv ==
  ASSUME IInv,
         RegisterServiceInServer("grpc", "http") \/ RegisterServiceInServer("http", "config")
  PROVE  IInv'
<1> DEFINE p == run.proto
<1>1. PICK server \in Servers, next \in {"http", "config"} :
        /\ calls' = [calls EXCEPT ![server] = IF Mentions(@, p) THEN @ ELSE <<p>> \o @]
        /\ run.step = server /\ run' = [run EXCEPT !.step = next]
        /\ UNCHANGED <<proto, generated, stubs, edited, sets, config, entries, succeeded, latest>>
  BY DEF RegisterServiceInServer, At, Goto, Servers
<1>2. p \in Protos \ succeeded
  BY <1>1 DEF IInv, RunInv, Servers
<1> DEFINE grown == IF Mentions(calls[server], p) THEN calls[server] ELSE <<p>> \o calls[server]
<1>3. grown \in Seq(Protos) /\ Once(grown)
  <2>1. calls[server] \in Seq(Protos) /\ Once(calls[server])
    BY DEF IInv, TypeOK, EachNameOnce
  <2>2. CASE Mentions(calls[server], p)
    BY <2>1, <2>2
  <2>3. CASE ~Mentions(calls[server], p)
    BY <1>2, <2>1, <2>3, HeldIsMentioned, PrependKeepsOnce
  <2> QED
    BY <2>2, <2>3
<1>4. calls' = [calls EXCEPT ![server] = grown]
  BY <1>1
<1>5. TypeOK'
  <2>1. calls' \in [Servers -> Seq(Protos)]
    BY <1>3, <1>4 DEF IInv, TypeOK
  <2>2. run' \in [step : Steps, proto : Protos \cup {NoProto}, crud : BOOLEAN, skip : BOOLEAN]
    BY <1>1 DEF IInv, TypeOK, Steps
  <2> QED
    BY <1>1, <2>1, <2>2 DEF IInv, TypeOK
<1>6. EachNameOnce'
  <2>1. \A s \in Servers : calls'[s] = IF s = server THEN grown ELSE calls[s]
    BY <1>4 DEF IInv, TypeOK
  <2> QED
    BY <1>1, <1>3, <2>1 DEF IInv, EachNameOnce
<1>7. SuccessIsComplete'
  BY <1>1, CompleteStaysComplete DEF IInv
<1>8. EditInv'
  BY <1>1 DEF IInv, EditInv
<1>9. RunInv'
  <2>1. run'.proto = p /\ run'.step = next
    BY <1>1 DEF IInv, TypeOK
  <2> QED
    BY <1>1, <2>1
       DEF IInv, RunInv, BeforeServer, BeforeBizStub, BeforeDataStub,
           BeforeServiceSet, BeforeBizSet, BeforeDataSet, BeforeServers, Servers
<1> QED
  BY <1>5, <1>6, <1>7, <1>8, <1>9 DEF IInv

LEMMA InjectConfigEntryKeepsIInv ==
  ASSUME IInv, InjectConfigEntry
  PROVE  IInv'
<1> DEFINE p == run.proto
           grown == IF config = "absent" \/ Holds(entries, p.base) THEN entries
                    ELSE <<p.base>> \o entries
<1>1. /\ p \in Protos \ succeeded /\ p.base \in Bases
      /\ proto[p] = "ready" /\ p \in generated
      /\ \A l \in Layers : Holds(sets[l], Constructor(l, p))
      /\ \A l \in {"biz", "data"} : stubs[l][p.base] = p
  <2>1. run.step = "config"
    BY DEF InjectConfigEntry, At
  <2> QED
    BY <2>1 DEF IInv, RunInv, BeforeServer, BeforeBizStub, BeforeDataStub,
       BeforeServiceSet, BeforeBizSet, BeforeDataSet, BeforeServers, Bases, Layers,
       Constructor
<1>2. /\ entries' = grown /\ succeeded' = succeeded \cup {p}
      /\ run' = [run EXCEPT !.step = "idle"]
      /\ config' = IF config = "bare" THEN "appended" ELSE config
      /\ UNCHANGED <<proto, generated, stubs, edited, sets, calls, latest>>
  BY DEF InjectConfigEntry, Goto
<1>3. grown \in Seq(Bases) /\ Once(grown)
  BY <1>1, PrependKeepsOnce DEF IInv, TypeOK, EachNameOnce
<1>4. /\ config # "absent" => Holds(grown, p.base)
      /\ \A b \in Bases : Holds(entries, b) => Holds(grown, b)
  <2>1. CASE config = "absent" \/ Holds(entries, p.base)
    BY <2>1
  <2>2. CASE config # "absent" /\ ~Holds(entries, p.base)
    <3>0. entries \in Seq(Bases)
      BY DEF IInv, TypeOK
    <3>1. /\ grown = <<p.base>> \o entries
          /\ 1 \in DOMAIN grown /\ grown[1] = p.base
          /\ \A i \in DOMAIN entries : i + 1 \in DOMAIN grown /\ grown[i + 1] = entries[i]
      BY <1>1, <2>2, <3>0
    <3> QED
      BY <3>1 DEF Holds
  <2> QED
    BY <2>1, <2>2
<1>5. TypeOK'
  <2>1. config' \in Configs
    BY <1>2 DEF IInv, TypeOK, Configs
  <2> QED
    BY <1>1, <1>2, <1>3, <2>1 DEF IInv, TypeOK, Steps
<1>6. EachNameOnce'
  BY <1>2, <1>3 DEF IInv, EachNameOnce
<1>7. SuccessIsComplete'
  <2>1. \A q \in succeeded : q.base \in Bases
    BY DEF IInv, TypeOK, Bases
  <2>2. config' # "absent" => config # "absent"
    BY <1>2
  <2> QED
    BY <1>1, <1>2, <1>4, <2>1, <2>2 DEF IInv, SuccessIsComplete
<1>8. EditInv'
  BY <1>2 DEF IInv, EditInv
<1>9. RunInv'
  BY <1>2 DEF IInv, TypeOK, RunInv
<1> QED
  BY <1>5, <1>6, <1>7, <1>8, <1>9 DEF IInv

\* The steps that leave the modules of the tree as they are.
LEMMA IdleStepKeepsIInv ==
  ASSUME IInv,
         \/ Abort
         \/ \E p \in Protos : RemoveProto(p)
         \/ \E l \in Layers, b \in Bases : Edit(l, b)
  PROVE  IInv'
<1>1. CASE Abort
  <2>1. run' = [run EXCEPT !.step = "idle"] /\ UNCHANGED <<tree, succeeded, latest>>
    BY <1>1 DEF Abort, Goto
  <2>2. run'.step = "idle" /\ TypeOK'
    BY <2>1 DEF IInv, TypeOK, tree, Steps
  <2> QED
    BY <2>1, <2>2 DEF IInv, EachNameOnce, SuccessIsComplete, EditInv, RunInv, tree
<1>2. ASSUME NEW p \in Protos, RemoveProto(p)
      PROVE  IInv'
  <2>1. TypeOK'
    BY <1>2 DEF IInv, TypeOK, RemoveProto
  <2>2. EachNameOnce'
    BY <1>2 DEF IInv, EachNameOnce, RemoveProto
  <2>3. \A q \in Protos : q # p => proto'[q] = proto[q]
    BY <1>2 DEF IInv, TypeOK, RemoveProto
  <2>4. SuccessIsComplete'
    <3>1. \A q \in succeeded' : q # p /\ q \in Protos
      BY <1>2 DEF RemoveProto, IInv, TypeOK
    <3> QED
      BY <1>2, <2>3, <3>1, CompleteStaysComplete DEF IInv, RemoveProto
  <2>5. EditInv'
    BY <1>2, <2>3 DEF IInv, EditInv, RemoveProto
  <2>6. RunInv'
    BY <1>2 DEF RunInv, RemoveProto, At
  <2> QED
    BY <2>1, <2>2, <2>4, <2>5, <2>6 DEF IInv
<1>3. ASSUME NEW l \in Layers, NEW b \in Bases, Edit(l, b)
      PROVE  IInv'
  <2>1. TypeOK'
    BY <1>3 DEF IInv, TypeOK, Edit
  <2>2. EachNameOnce' /\ SuccessIsComplete' /\ RunInv'
    BY <1>3 DEF IInv, EachNameOnce, SuccessIsComplete, RunInv, Edit, At
  <2>3. EditInv'
    BY <1>3 DEF IInv, EditInv, TypeOK, Edit
  <2> QED
    BY <2>1, <2>2, <2>3 DEF IInv
<1> QED
  BY <1>1, <1>2, <1>3

THEOREM IInvAlways == Spec => []IInv
<1>1. ASSUME IInv, [Next]_vars
      PROVE  IInv'
  <2>1. CASE UNCHANGED vars
    BY <1>1, <2>1
       DEF vars, tree, IInv, TypeOK, EachNameOnce, SuccessIsComplete, RunInv, EditInv
  <2>2. CASE Next
    BY <1>1, <2>2, StartKeepsIInv, ProtoStepKeepsIInv, ServiceStubKeepsIInv,
       MakeApiKeepsIInv, WriteStubKeepsIInv, UpdateProviderSetsKeepsIInv,
       RegisterKeepsIInv, InjectConfigEntryKeepsIInv, IdleStepKeepsIInv
       DEF Next, RunProto
  <2> QED
    BY <1>1, <2>1, <2>2
<1> QED
  BY <1>1, InitEstablishesIInv, PTL DEF Spec

-----------------------------------------------------------------------------
\* Every variable keeps its type.
THEOREM TypesAreRight == Spec => []TypeOK
<1>1. IInv => TypeOK
  BY DEF IInv
<1> QED
  BY <1>1, IInvAlways, PTL

\* A module RunProto (proto.go:60-187) reported success for has its compiled proto, its
\* constructors, its entry and, while it is the last of its name, its biz and data stubs,
\* whatever failed before or came between, for any set of proto paths.
THEOREM SuccessIsCompleteAlways == Spec => []SuccessIsComplete
<1>1. IInv => SuccessIsComplete
  BY DEF IInv
<1> QED
  BY <1>1, IInvAlways, PTL

\* The edits in place (proto.go:308-332, 450-491, 541-582) add a name once.
THEOREM EachNameOnceAlways == Spec => []EachNameOnce
<1>1. IInv => EachNameOnce
  BY DEF IInv
<1> QED
  BY <1>1, IInvAlways, PTL

\* The test for the proto (proto.go:86-91) protects the code written into a module
\* from another run for it.
THEOREM RerunKeepsEditsAlways == Spec => RerunKeepsEdits
<1>1. ASSUME IInv, [Next]_vars
      PROVE  [\A l \in Layers, b \in Bases :
                <<l, b>> \in edited /\ <<l, b>> \notin edited' =>
                  stubs'[l][b] # stubs[l][b] \/ proto'[stubs[l][b]] = "absent"]_vars
  <2> SUFFICES ASSUME NEW l \in Layers, NEW b \in Bases, Next,
                      <<l, b>> \in edited, <<l, b>> \notin edited'
               PROVE  stubs'[l][b] # stubs[l][b] \/ proto'[stubs[l][b]] = "absent"
    BY <1>1
  <2>1. CASE WriteBizStub \/ WriteDataStub
    <3>1. PICK layer \in {"biz", "data"} :
            /\ stubs' = [stubs EXCEPT ![layer][run.proto.base] = run.proto]
            /\ edited' = edited \ {<<layer, run.proto.base>>}
            /\ run.step \in {"bizstub", "datastub"}
      BY <2>1 DEF WriteBizStub, WriteDataStub, WriteStub, At
    <3>2. l = layer /\ b = run.proto.base
      BY <3>1
    <3>3. stubs'[l][b] = run.proto
      BY <1>1, <3>1, <3>2 DEF IInv, TypeOK
    <3>4. stubs[l][b] # run.proto
      BY <1>1, <3>1 DEF IInv, RunInv
    <3> QED
      BY <3>3, <3>4
  <2>2. ASSUME NEW p \in Protos, RemoveProto(p)
        PROVE  proto'[stubs[l][b]] = "absent"
    <3>1. stubs[l][b] = p
      BY <2>2 DEF RemoveProto
    <3> QED
      BY <1>1, <2>2, <3>1 DEF IInv, TypeOK, RemoveProto
  <2>3. CASE ~(WriteBizStub \/ WriteDataStub) /\ ~(\E p \in Protos : RemoveProto(p))
    <3>1. edited \subseteq edited'
      BY <2>3 DEF Next, RunProto, Start, AddProto, RewriteProtoAsCRUD, RewriteGoPackage,
         ServiceStub, MakeApi, UpdateProviderSets, UpdateSet, RegisterServiceInServer,
         InjectConfigEntry, Abort, Edit, tree
    <3> QED
      BY <3>1
  <2> QED
    BY <2>1, <2>2, <2>3
<1> QED
  BY <1>1, IInvAlways, PTL DEF Spec, RerunKeepsEdits

=============================================================================
