------------------------------ MODULE WebTypes ------------------------------
(***************************************************************************)
(* The messages from the bridge to the web application as JSON types:      *)
(* what the bridge puts into a message (the json tags of bridge/model),    *)
(* what the type guards demand of it (webapp/src/types) and which fields   *)
(* the pages read (webapp/src/components and adapters). Three lists that   *)
(* nothing but agreement keeps together: a message that fails its guard is *)
(* logged and dropped, and a field that no guard demands is read anyway.   *)
(*                                                                         *)
(* A value is abstracted to its type; an array to the set of the types of  *)
(* its elements.                                                           *)
(***************************************************************************)
EXTENDS Integers, Sequences

Str == [type |-> "string"]
Num == [type |-> "number"]
Bool == [type |-> "boolean"]
Undefined == [type |-> "undefined"]
Object(fields) == [type |-> "object", fields |-> fields]
Array(elements) == [type |-> "array", elements |-> elements]
Strings(names) == [f \in names |-> Str]
With(f, g) == [n \in DOMAIN f \cup DOMAIN g |-> IF n \in DOMAIN f THEN f[n] ELSE g[n]]

\* v.f, v === null excluded, and typeof v.
Get(v, f) == IF v.type = "object" /\ f \in DOMAIN v.fields THEN v.fields[f] ELSE Undefined
typeof(v) == IF v.type = "array" THEN "object" ELSE v.type
Are(v, names, t) == \A f \in names : typeof(Get(v, f)) = t
Elements(v, f) == IF Get(v, f).type = "array" THEN Get(v, f).elements ELSE {}

----------------------------------------------------------------------------
(* What the bridge sends.                                                  *)

WireTaskKey == Object(Strings({"pid", "startTime"}))

\* The keys in a task view are not the ones made for the websocket: they hold numbers.
WireNumericKey == Object([pid |-> Num, startTime |-> Num])

WireError == Object(Strings({"message"}))

WireProctreeNode ==
    Object(With([parent |-> WireTaskKey, realParent |-> WireTaskKey,
                 groupLeader |-> WireTaskKey, self |-> WireTaskKey],
                [name |-> Str, isKthread |-> Bool]))

WireSchedEvent ==
    Object([prev |-> WireTaskKey, next |-> WireTaskKey, commPrev |-> Str, commNext |-> Str,
            timestamp |-> Str, cpu |-> Num, prevIsKthread |-> Bool, nextIsKthread |-> Bool])

WireVMEntry ==
    Object(With(Strings({"rawValue", "pa", "kernelVA", "userVAStart", "userVAEnd", "size"}),
                [index |-> Num, leaf |-> Bool, present |-> Bool, bad |-> Bool, none |-> Bool]))

WireCreds == Object(Strings({"uid", "gid", "suid", "sgid", "euid", "egid"}))

WireSched ==
    Object(Strings({"prio", "staticPrio", "normalPrio", "vruntime", "sumExecRuntime"}))

WireMemory ==
    Object(Strings({"mmapBase", "taskSize", "totalVm", "lockedVm", "dataVm", "execVm",
                    "stackVm", "startCode", "endCode", "startData", "endData", "startBrk",
                    "brk", "startStack", "argStart", "argEnd", "envStart", "envEnd"}))

WireTaskview ==
    Object(With(Strings({"pid", "tgid", "startTime", "comm", "state", "exitState",
                         "exitCode", "exitSignal", "stackCanary"}),
                [parent |-> WireNumericKey, realParent |-> WireNumericKey,
                 realCreds |-> WireCreds, sched |-> WireSched, memory |-> WireMemory]))

\* The payload of a message; of a list, whether it has elements.
Payload(type, nonempty) ==
    LET list(e) == Array(IF nonempty THEN {e} ELSE {})
    IN  CASE type = "Error" -> WireError
          [] type = "ProctreeDump" ->
                Object([nodes |-> list(WireProctreeNode), timeFormatted |-> Str])
          [] type = "SchedhookCap" -> Object([events |-> list(WireSchedEvent)])
          [] type = "VMEDump" -> Object([entries |-> list(WireVMEntry)])
          [] type = "TaskviewData" -> WireTaskview

\* WSMessage: the type is the number of the WSMsgType.
Envelope(type, nonempty) == Object([type |-> Num, payload |-> Payload(type, nonempty)])

----------------------------------------------------------------------------
(* The type guards.                                                        *)

isWSMessage(v) ==
    typeof(v) = "object" /\ typeof(Get(v, "type")) = "number" /\ Get(v, "payload") # Undefined

isWebsocketTaskKey(v) == typeof(v) = "object" /\ Are(v, {"pid", "startTime"}, "string")

isWebsocketError(v) == typeof(v) = "object" /\ Are(v, {"message"}, "string")

isProctreeNode(v) ==
    /\ typeof(v) = "object"
    /\ \A f \in {"parent", "realParent", "groupLeader", "self"} : isWebsocketTaskKey(Get(v, f))
    /\ Are(v, {"isKthread"}, "boolean") /\ Are(v, {"name"}, "string")

isProctreeNodeArray(v) == v.type = "array" /\ \A e \in v.elements : isProctreeNode(e)

isWebsocketProctreeDump(v) ==
    /\ typeof(v) = "object" /\ isProctreeNodeArray(Get(v, "nodes"))
    /\ Are(v, {"timeFormatted"}, "string")

isSchedEvent(v) ==
    /\ typeof(v) = "object"
    /\ isWebsocketTaskKey(Get(v, "prev")) /\ isWebsocketTaskKey(Get(v, "next"))
    /\ Are(v, {"commPrev", "commNext", "timestamp"}, "string")
    /\ Are(v, {"cpu"}, "number") /\ Are(v, {"prevIsKthread", "nextIsKthread"}, "boolean")

isSchedCap(v) ==
    /\ typeof(v) = "object" /\ Get(v, "events").type = "array"
    /\ \A e \in Elements(v, "events") : isSchedEvent(e)

\* The index is not demanded.
isWebsocketVMEntry(v) ==
    /\ typeof(v) = "object"
    /\ Are(v, {"rawValue", "pa", "kernelVA", "userVAStart", "userVAEnd", "size"}, "string")
    /\ Are(v, {"leaf", "present", "bad", "none"}, "boolean")

isWebsocketVMEDump(v) ==
    /\ typeof(v) = "object" /\ Get(v, "entries").type = "array"
    /\ \A e \in Elements(v, "entries") : isWebsocketVMEntry(e)

isWebsocketSchedData(v) ==
    /\ typeof(v) = "object"
    /\ Are(v, {"prio", "staticPrio", "normalPrio", "vruntime", "sumExecRuntime"}, "string")

isWebsocketCredData(v) ==
    /\ typeof(v) = "object"
    /\ Are(v, {"uid", "gid", "suid", "sgid", "euid", "egid"}, "string")

isWebsocketMemoryData(v) ==
    /\ typeof(v) = "object"
    /\ Are(v, {"mmapBase", "taskSize", "totalVm", "lockedVm", "dataVm", "execVm", "stackVm",
               "startCode", "endCode", "startData", "endData", "startBrk", "brk",
               "startStack", "argStart", "argEnd", "envStart", "envEnd"}, "string")

\* Mutant of isWebsocketTaskviewData: the parents are demanded to be task keys.
TaskviewDataWithKeys(v) ==
    /\ typeof(v) = "object"
    /\ Are(v, {"pid", "tgid", "startTime", "comm", "state", "exitState", "exitCode",
               "exitSignal", "stackCanary"}, "string")
    /\ isWebsocketTaskKey(Get(v, "parent")) /\ isWebsocketTaskKey(Get(v, "realParent"))
    /\ isWebsocketCredData(Get(v, "realCreds"))
    /\ isWebsocketSchedData(Get(v, "sched"))
    /\ isWebsocketMemoryData(Get(v, "memory"))

\* Of the parents nothing is demanded but to be objects.
isWebsocketTaskviewData(v) ==
    /\ typeof(v) = "object"
    /\ Are(v, {"pid", "tgid", "startTime", "comm", "state", "exitState", "exitCode",
               "exitSignal", "stackCanary"}, "string")
    /\ Are(v, {"parent", "realParent"}, "object")
    /\ isWebsocketCredData(Get(v, "realCreds"))
    /\ isWebsocketSchedData(Get(v, "sched"))
    /\ isWebsocketMemoryData(Get(v, "memory"))

\* The guard of the handler that is subscribed to the messages of a type.
Accepts(type, v) ==
    CASE type = "Error" -> isWebsocketError(v)
      [] type = "ProctreeDump" -> isWebsocketProctreeDump(v)
      [] type = "SchedhookCap" -> isSchedCap(v)
      [] type = "VMEDump" -> isWebsocketVMEDump(v)
      [] type = "TaskviewData" -> isWebsocketTaskviewData(v)

----------------------------------------------------------------------------
(* What the pages read of a payload or of an element of its list. A field  *)
(* is given by the names that lead to it.                                  *)

Under(f, names) == {<<f, n>> : n \in names}
Direct(names) == {<<n>> : n \in names}

TaskStructReads ==
    Direct({"pid", "tgid", "startTime", "comm", "state", "exitState", "exitCode",
            "exitSignal", "stackCanary"})
    \cup Under("parent", {"pid", "startTime"}) \cup Under("realParent", {"pid", "startTime"})

MMStructReads ==
    Direct({"pid", "startTime"}) \cup
    Under("memory", {"mmapBase", "taskSize", "totalVm", "lockedVm", "dataVm", "execVm",
                     "stackVm", "startCode", "endCode", "startData", "endData", "startBrk",
                     "brk", "startStack", "argStart", "argEnd", "envStart", "envEnd"})

CredsReads == Under("realCreds", {"uid", "gid", "suid", "sgid", "euid", "egid"})

SchedReads ==
    Under("sched", {"prio", "staticPrio", "normalPrio", "vruntime", "sumExecRuntime"})

\* View.tsx puts the four together.
ViewReads == TaskStructReads \cup MMStructReads \cup CredsReads \cup SchedReads

\* By toVMEntry(), for Entries and Entry.
EntryReads ==
    Direct({"index", "rawValue", "pa", "kernelVA", "userVAStart", "userVAEnd", "size",
            "leaf", "present", "bad", "none"})

\* By toSchedEvents(), for the items and the tooltips of the timeline.
EventReads ==
    Direct({"cpu", "timestamp", "commNext", "nextIsKthread"})
    \cup Under("next", {"pid", "startTime"})

\* By toTreeNodes(), for the nodes of the tree.
NodeReads ==
    Direct({"name", "isKthread"}) \cup
    UNION {Under(k, {"pid", "startTime"}) : k \in {"realParent", "groupLeader", "self"}}

\* Whether reading a field gives something that can be shown.
Shows(v, read) ==
    LET value == IF Len(read) = 1 THEN Get(v, read[1]) ELSE Get(Get(v, read[1]), read[2])
    IN  typeof(value) \in {"string", "number", "boolean"}

ReadsArrive(type, v) ==
    CASE type = "Error" -> Shows(v, <<"message">>)
      [] type = "ProctreeDump" ->
            /\ Shows(v, <<"timeFormatted">>)
            /\ \A e \in Elements(v, "nodes"), r \in NodeReads : Shows(e, r)
      [] type = "SchedhookCap" ->
            \A e \in Elements(v, "events"), r \in EventReads : Shows(e, r)
      [] type = "VMEDump" ->
            \A e \in Elements(v, "entries"), r \in EntryReads : Shows(e, r)
      [] type = "TaskviewData" -> \A r \in ViewReads : Shows(v, r)
=============================================================================
