----------------------------- MODULE NodeConfigs ------------------------------
(***************************************************************************)
(* What a new node is made from: its type, its Thread version and the      *)
(* executables that are configured decide which program is run and which   *)
(* commands the node gets first; and the networks that are written to a    *)
(* file with "save" and made again from it with "load".                    *)
(***************************************************************************)
EXTENDS Naturals, Integers, Sequences, FiniteSets, FiniteSetsExt

CONSTANTS
    MaxId, MaxCmds,    \* bounds: node ids, commands
    Types, Versions,   \* node types; Thread versions in commands, 0 if there is none
    Ranges,            \* radio ranges
    Ops,               \* the commands: "exe", "path", "load", "del"; "ver": add with a version
    Envs               \* the directory in OTNS_NODES_DIR, "" if there is none

NodeConfigsAssumption == MaxId \in Nat \ {0} /\ MaxCmds \in Nat /\ Versions \subseteq {0, 11, 12, 13, 14} /\ 0 \in Versions

VARIABLES
    ExeConfig,         \* ftd, mtd, br, matter, rcp: names of executables; Version: 0 if none was set
    SearchPaths,
    NewRange,          \* NewNodeConfig.RadioRange
    nodes,             \* [ids -> node configurations]
    file,              \* the saved network, and what it was saved from
    loaded,            \* history: what the last "load" has done
    count

vars == <<ExeConfig, SearchPaths, NewRange, nodes, file, loaded, count>>

versionLatestTag == 14
defaultRadioRange == 220
\* A name of an executable is a base name and the versions added to it.
DefaultExecutableConfig ==
    [ftd |-> <<"ftd">>, mtd |-> <<"mtd">>, br |-> <<"br">>, matter |-> <<"matter">>, rcp |-> <<"rcp">>, Version |-> 0]

\* What is built in the directories: several versions of the FTD, MTD and Matter node, one of the others.
Built(dir) ==
    IF dir = "ot-versions" THEN {<<b>> : b \in {"ftd", "mtd", "br", "matter", "rcp"}} \cup ({"ftd", "mtd", "matter"} \X {11, 12, 13})
    ELSE IF dir = "mine" THEN {<<"ftd">>, <<"my-ftd">>} ELSE {}

\* The flags that UpdateNodeConfigFromType sets.
IsMtd(type) == type \in {"med", "mtd", "sed", "ssed"}
IsBorderRouter(type) == type \in {"br", "otbr"}
IsRcp(type) == type \in {"otbr", "rcp"}
IsKnown(type) == IsMtd(type) \/ IsBorderRouter(type) \/ IsRcp(type) \/ type \in {"router", "reed", "ftd", "matter", "fed", "wifi", "ext"}

\* defaultSearchPaths: those of the environment, the current directory, the repository's.
defaultSearchPaths(env) == SelectSeq(<<env>>, LAMBDA d : d # "") \o <<".", "ot-versions">>

TypeOK ==
    /\ \A id \in DOMAIN nodes : id \in 1..MaxId /\ nodes[id].type \in Types /\ nodes[id].range \in Ranges
    /\ ExeConfig.Version \in Versions /\ \A i \in DOMAIN file.list : file.list[i].id \in 1..MaxId

NoFile == [range |-> 0, list |-> <<>>, of |-> <<>>]
NotLoaded == [fresh |-> TRUE, same |-> TRUE]

Init ==
    /\ ExeConfig = DefaultExecutableConfig /\ \E env \in Envs : SearchPaths = defaultSearchPaths(env)
    /\ NewRange \in Ranges /\ nodes = <<>> /\ file = NoFile /\ loaded = NotLoaded /\ count = 0

\* FindExecutable: the first search path that has it, else it is left to the operating system.
FindExecutable(name) ==
    LET hits == SelectSeq(SearchPaths, LAMBDA d : name \in Built(d)) IN
    [dir |-> IF hits = <<>> THEN "$PATH" ELSE Head(hits), name |-> name]

FindExecutableBasedOnConfig(type, version) ==
    LET base == IF IsRcp(type) THEN ExeConfig.rcp ELSE IF IsBorderRouter(type) THEN ExeConfig.br
                ELSE IF IsMtd(type) THEN ExeConfig.mtd ELSE ExeConfig.ftd IN
    IF type = "matter" THEN FindExecutable(ExeConfig.matter)
    ELSE FindExecutable(IF version # 0 /\ version # versionLatestTag THEN Append(base, version) ELSE base)

\* The sections of the init script, in order.  The unit of the "csl period" depends on the version.
BuildScript(type) ==
    IF type = "ext" THEN <<"ext", "all">>
    ELSE IF IsBorderRouter(type) THEN IF IsRcp(type) THEN <<"otbr", "ftd", "all">> ELSE <<"ftd", "br", "all">>
    ELSE IF IsMtd(type) THEN <<"mtd", "all">>
    ELSE IF IsRcp(type) THEN <<"rcp", "ftd", "all">> ELSE <<"ftd", "all">>

CslScript(type, version) ==
    IF type # "ssed" THEN <<>> ELSE IF version # 0 /\ version <= 13 THEN <<"csl legacy">> ELSE <<"csl">>

\* NodeConfigFinalize: first the executable, then the version that is implied, then the script.
\* by is a history: the executables that were configured.
NodeConfigFinalize(type, version, pos, range) ==
    LET v == IF ExeConfig.Version # 0 /\ version = 0 THEN ExeConfig.Version ELSE version IN
    [type |-> type, version |-> v, exe |-> FindExecutableBasedOnConfig(type, version), pos |-> pos, range |-> range, by |-> ExeConfig,
     script |-> IF type = "wifi" THEN <<"wifi", "ccathreshold">> ELSE BuildScript(type) \o CslScript(type, v)]

genNodeId == Min({id \in 1..(MaxId + 1) : id \notin DOMAIN nodes})

\* AddNode, as far as it matters here: the id is free and the executable is there.
Starts(ns, id, cfg) == id \notin DOMAIN ns /\ IsKnown(cfg.type) /\ cfg.exe.dir # "$PATH"
With(ns, id, cfg) == [i \in DOMAIN ns \cup {id} |-> IF i = id THEN cfg ELSE ns[i]]

Command == count < MaxCmds /\ count' = count + 1

\* "add <type> [<version>] [rr <range>] [id <id>]".
executeAddNode(type, version, range, id) ==
    LET cfg == NodeConfigFinalize(type, version, id, range) IN
    /\ Command /\ id <= MaxId
    /\ nodes' = IF Starts(nodes, id, cfg) THEN With(nodes, id, cfg) ELSE nodes
    /\ UNCHANGED <<ExeConfig, SearchPaths, NewRange, file, loaded>>

executeDelNode(id) ==
    /\ Command /\ "del" \in Ops /\ id \in DOMAIN nodes /\ nodes' = [i \in DOMAIN nodes \ {id} |-> nodes[i]]
    /\ UNCHANGED <<ExeConfig, SearchPaths, NewRange, file, loaded>>

SetVersion(v) ==
    LET D == DefaultExecutableConfig
        Named(base) == IF v = versionLatestTag THEN base ELSE Append(base, v)
    IN [ExeConfig EXCEPT !.ftd = Named(D.ftd), !.mtd = Named(D.mtd), !.matter = Named(D.matter), !.br = D.br, !.rcp = D.rcp, !.Version = v]

\* "exe <version>", "exe default" and "exe ftd <path>".
executeExe ==
    /\ Command /\ UNCHANGED <<SearchPaths, NewRange, nodes, file, loaded>>
    /\ \/ "exe" \in Ops /\ \E v \in Versions \ {0} : ExeConfig' = SetVersion(v)
       \/ "exe" \in Ops /\ ExeConfig' = DefaultExecutableConfig
       \/ "path" \in Ops /\ ExeConfig' = [ExeConfig EXCEPT !.ftd = <<"my-ftd">>]
-----------------------------------------------------------------------------
\* ExportNetwork and ExportNodes: a radio range is written if it is not the default.
ExportNetwork == IF NewRange # defaultRadioRange THEN NewRange ELSE 0

\* Mutant: it is compared with the default only.
ExportRangeDefault(range) == IF range # defaultRadioRange THEN range ELSE 0

ExportRange(range) == IF range # (IF ExportNetwork # 0 THEN ExportNetwork ELSE defaultRadioRange) THEN range ELSE 0
ExportNode(id) == [id |-> id, type |-> nodes[id].type, pos |-> nodes[id].pos, range |-> ExportRange(nodes[id].range), version |-> nodes[id].version]
InOrder(S) == [i \in 1..Cardinality(S) |-> CHOOSE x \in S : Cardinality({y \in S : y < x}) = i - 1]

executeSave ==
    LET ids == InOrder(DOMAIN nodes) IN
    /\ Command /\ "load" \in Ops
    /\ file' = [range |-> ExportNetwork, list |-> [i \in DOMAIN ids |-> ExportNode(ids[i])], of |-> nodes]
    /\ UNCHANGED <<ExeConfig, SearchPaths, NewRange, nodes, loaded>>

MinNodeId == Min({file.list[i].id : i \in DOMAIN file.list})
MaxNodeId == IF nodes = <<>> THEN 0 ELSE Max(DOMAIN nodes)

IdOffset == MaxNodeId + 1 - MinNodeId

\* ImportNodes: one after the other; one that cannot be added is left out.
ImportConfig(entry) ==
    NodeConfigFinalize(entry.type, entry.version, entry.pos,
        IF entry.range # 0 THEN entry.range ELSE IF file.range # 0 THEN file.range ELSE defaultRadioRange)
ImportNodes(offset) ==
    LET f[k \in 0..Len(file.list)] ==
          IF k = 0 THEN nodes
          ELSE LET id == file.list[k].id + offset
                   cfg == ImportConfig(file.list[k])
               IN IF Starts(f[k - 1], id, cfg) THEN With(f[k - 1], id, cfg) ELSE f[k - 1]
    IN f[Len(file.list)]

Is(a, b) == a.type = b.type /\ a.version = b.version /\ a.pos = b.pos /\ a.range = b.range /\ a.exe = b.exe
executeLoad(add) ==
    LET offset == IF add THEN IdOffset ELSE 0
        new == ImportNodes(offset)
        ids == {file.list[i].id + offset : i \in DOMAIN file.list}
    IN
    /\ Command /\ "load" \in Ops /\ file.list # <<>> /\ \A id \in ids : id <= MaxId
    /\ nodes' = new
    /\ loaded' = [fresh |-> add => \A id \in ids : id > MaxNodeId,
                  same |-> ((add \/ nodes = <<>>) /\ \A id \in DOMAIN file.of : file.of[id].by = ExeConfig) =>
                             \A id \in DOMAIN file.of : id + offset \in DOMAIN new /\ Is(new[id + offset], file.of[id])]
    /\ UNCHANGED <<ExeConfig, SearchPaths, NewRange, file>>

Next ==
    \/ \E type \in Types, v \in (IF "ver" \in Ops THEN Versions ELSE {0}), r \in Ranges, id \in {1, 2, genNodeId} : executeAddNode(type, v, r, id)
    \/ \E id \in 1..MaxId : executeDelNode(id)
    \/ executeExe \/ executeSave \/ \E add \in BOOLEAN : executeLoad(add)

Spec == Init /\ [][Next]_vars
-----------------------------------------------------------------------------
\* The version that an executable was built for.
Runs(exe) == IF Len(exe.name) = 1 THEN versionLatestTag ELSE exe.name[Len(exe.name)]

\* A node of a type that is built for several versions runs the version it says it has.
VersionIsRun ==
    \A id \in DOMAIN nodes : LET c == nodes[id] IN
      ~IsBorderRouter(c.type) /\ ~IsRcp(c.type) /\ c.exe.name[1] # "my-ftd" /\ c.version # 0 => Runs(c.exe) = c.version

\* The unit of the "csl period" that a synchronized sleepy end device gets is the one of its executable.
ScriptFits ==
    \A id \in DOMAIN nodes : LET c == nodes[id] IN
      c.type = "ssed" => (c.script[Len(c.script)] = "csl legacy") = (Runs(c.exe) <= 13)

\* A network that was saved and is loaded, with the same executables configured as when its nodes were
\* added, is the same again.
LoadRestores == loaded.same

\* "load add" gives all nodes of the file ids above those in use, also beside the network they were
\* saved from.
LoadAddsAbove == loaded.fresh

\* Each search path from the environment exists.
SearchPathsExist == \A i \in DOMAIN SearchPaths : SearchPaths[i] \in {".", "ot-versions", "mine"}
=============================================================================
