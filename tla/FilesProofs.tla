----------------------------- MODULE FilesProofs -----------------------------
(***************************************************************************)
(* Proofs about files that others read and write meanwhile, each for every *)
(* value of the constants: the directory of an installed skill             *)
(* (SkillFiles), the workspace files behind the cached system prompt       *)
(* (PromptCache), and the credential file with the configuration           *)
(* (Credentials).                                                          *)
(***************************************************************************)
EXTENDS SkillFiles, PromptCache, Credentials, TLAPS

(***************************************************************************)
(* Skills                                                                  *)
(***************************************************************************)

Begun(i) == op[i].step # "idle"
Registered == Tools \cup {"registry"}

Steps == {"idle", "clearing", "lookup", "download", "fetching", "opening", "writing",
          "copying", "marking"} \cup Outcomes

OpType == [kind : Kinds \cup {"none"}, step : Steps, meta : {"unknown", "clean", "malicious"},
           left : SUBSET Archive, next : {"none", "lookup", "removed", "failed", "blocked"},
           tries : Nat]

Types ==
  /\ present \in BOOLEAN
  /\ skillFiles \in [DOMAIN skillFiles -> Ops] /\ DOMAIN skillFiles \subseteq Archive \cup {"origin"}
  /\ lock \subseteq Ops
  /\ op \in [Ops -> OpType]
  /\ tool \in [Ops -> Installers \cup {NoTool}]
  /\ met \in [Ops -> SUBSET Ops]

\* Which kind of operation is at which step, and what it has left there.
Path(r) ==
  /\ r.kind = "none" <=> r.step = "idle"
  /\ r.step = "clearing" =>
       \/ r.next = "lookup" /\ r.kind = "force" /\ r.meta = "unknown" /\ r.left = Archive
       \/ r.next = "removed" /\ r.kind = "remove" /\ r.meta = "unknown"
       \/ r.next \in {"failed", "blocked"} /\ r.kind \in Registered
  /\ r.step = "lookup" => r.kind \in Registered /\ r.meta = "unknown" /\ r.left = Archive
  /\ r.step = "download" => r.kind \in Registered /\ r.left = Archive
  /\ r.step = "fetching" => r.kind = "github" /\ r.meta = "unknown" /\ r.left = Archive
  /\ r.step = "opening" => /\ r.kind \in Registered \cup {"github", "copy"} /\ r.left = Archive
                           /\ r.kind \notin Registered => r.meta = "unknown"
  /\ r.step = "writing" => /\ r.kind \in Registered \cup {"github"}
                           /\ r.kind = "github" => r.meta = "unknown" /\ r.left \subseteq {"skill"}
  /\ r.step = "copying" => r.kind = "copy" /\ r.meta = "unknown"
  /\ r.step = "marking" => r.kind \in Tools /\ r.meta # "malicious" /\ r.left = {}
  /\ r.step \in {"installed", "claimed", "removed", "exists", "missing"} => r.meta # "malicious"
  /\ r.step = "idle" => r.meta = "unknown"

LEMMA TypesInit == ASSUME SkInit PROVE Types /\ \A i \in Ops : Path(op[i])
  BY DEF SkInit, Types, OpType, Path, Steps, Outcomes, Kinds, Tools, Archive,
    Registered

\* A field that is set to a value of its type leaves the operations typed.
LEMMA FieldTyped ==
  ASSUME NEW o \in [Ops -> OpType], NEW i \in Ops
  PROVE  /\ \A v \in Steps : [o EXCEPT ![i].step = v] \in [Ops -> OpType]
         /\ \A v \in {"unknown", "clean", "malicious"} :
              [o EXCEPT ![i].meta = v] \in [Ops -> OpType]
         /\ \A v \in SUBSET Archive : [o EXCEPT ![i].left = v] \in [Ops -> OpType]
         /\ \A v \in {"none", "lookup", "removed", "failed", "blocked"} :
              [o EXCEPT ![i].next = v] \in [Ops -> OpType]
  BY DEF OpType

\* The steps of an operation that has begun.
Own(i) ==
  \/ \E f \in DOMAIN skillFiles : ClearFile(i, f)
  \/ \E meta \in {"unknown", "clean", "malicious"} : GetSkillMeta(i, meta)
  \/ \E f \in Archive : Write(i, f) \/ CopyFile(i, f)
  \/ Cleared(i) \/ NotFound(i) \/ DownloadToFile(i) \/ DownloadFails(i) \/ Fetch(i)
  \/ FetchFails(i) \/ Open(i) \/ CopyBuiltin(i) \/ WriteFails(i) \/ CopyFails(i)
  \/ Moderate(i) \/ Report(i) \/ WriteOrigin(i) \/ ProcessEnds(i)

\* They leave the other operations alone, keep to the path, and give the lock back at
\* the end.
Keeps(i) ==
  /\ i \in UnderWay /\ met' = met /\ tool' = tool
  /\ op' \in [Ops -> OpType] /\ Path(op'[i])
  /\ \A j \in Ops \ {i} : op'[j] = op[j]
  /\ op'[i].kind = op[i].kind /\ op'[i].step \notin {"idle", "exists", "missing"}
  /\ lock' = IF op'[i].step \in Outcomes THEN lock \ {i} ELSE lock

\* What the two ways to go on make of the operation.
LEMMA GoMade ==
  ASSUME op \in [Ops -> OpType], NEW i \in Ops, NEW s \in Steps, Go(i, s)
  PROVE  /\ op' \in [Ops -> OpType] /\ \A j \in Ops \ {i} : op'[j] = op[j]
         /\ op'[i].kind = op[i].kind /\ op'[i].step = s /\ op'[i].meta = op[i].meta
         /\ IF s \in Outcomes THEN op'[i].left = {} /\ op'[i].next = "none" /\ lock' = lock \ {i}
            ELSE op'[i].left = op[i].left /\ op'[i].next = op[i].next /\ lock' = lock
<1>1. CASE s \in Outcomes
  <2> DEFINE over == [kind |-> op[i].kind, step |-> s, meta |-> op[i].meta, left |-> {},
                      next |-> "none", tries |-> 0]
  <2>1. op' = [op EXCEPT ![i] = over] /\ lock' = lock \ {i}
    BY <1>1 DEF Go
  <2>2. op[i] \in OpType
    OBVIOUS
  <2>3. over \in OpType
    BY <2>2 DEF OpType
  <2> QED
    BY <1>1, <2>1, <2>3
<1>2. CASE s \notin Outcomes
  <2>1. op' = [op EXCEPT ![i].step = s] /\ lock' = lock
    BY <1>2 DEF Go
  <2>2. op' \in [Ops -> OpType]
    BY <2>1, FieldTyped
  <2> QED
    BY <1>2, <2>1, <2>2 DEF OpType
<1> QED
  BY <1>1, <1>2

LEMMA ClearMade ==
  ASSUME op \in [Ops -> OpType], NEW i \in Ops, NEW s \in {"failed", "blocked"}, ClearThen(i, s)
  PROVE  /\ op' \in [Ops -> OpType] /\ \A j \in Ops \ {i} : op'[j] = op[j]
         /\ op'[i].kind = op[i].kind /\ op'[i].step = "clearing" /\ op'[i].meta = op[i].meta
         /\ op'[i].left = op[i].left /\ op'[i].next = s /\ lock' = lock
<1> DEFINE half == [op EXCEPT ![i].step = "clearing"]
<1>1. half \in [Ops -> OpType]
  BY FieldTyped DEF Steps
<1>2. op' = [half EXCEPT ![i].next = s] /\ lock' = lock
  BY DEF ClearThen
<1>3. half[i] = [op[i] EXCEPT !.step = "clearing"] /\ \A j \in Ops \ {i} : half[j] = op[j]
  OBVIOUS
<1> HIDE DEF half
<1>4. op' \in [Ops -> OpType]
  BY <1>1, <1>2, FieldTyped
<1> QED
  BY <1>1, <1>2, <1>3, <1>4 DEF OpType

LEMMA OwnKeeps == ASSUME Types, NEW i \in Ops, Path(op[i]), Own(i) PROVE Keeps(i)
<1> USE DEF Types, OpType, Keeps, UnderWay, Outcomes, Steps, Path, Registered, Tools
<1>1. ASSUME NEW f \in DOMAIN skillFiles, ClearFile(i, f) PROVE Keeps(i)
  BY <1>1 DEF ClearFile
<1>2. ASSUME NEW meta \in {"unknown", "clean", "malicious"}, GetSkillMeta(i, meta)
      PROVE  Keeps(i)
  <2>1. op' \in [Ops -> OpType] /\ \A j \in Ops \ {i} : op'[j] = op[j]
    <3> DEFINE half == [op EXCEPT ![i].step = "download"]
    <3>1. half \in [Ops -> OpType] /\ \A j \in Ops \ {i} : half[j] = op[j]
      BY <1>2 DEF GetSkillMeta, Archive
    <3>2. op' = [half EXCEPT ![i].meta = meta]
      BY <1>2 DEF GetSkillMeta
    <3> HIDE DEF half, OpType
    <3>3. op' \in [Ops -> OpType]
      BY <3>1, <3>2, FieldTyped
    <3> QED
      BY <3>1, <3>2, <3>3
  <2>2. /\ op'[i].step = "download" /\ op'[i].meta = meta /\ op'[i].kind = op[i].kind
        /\ op'[i].left = op[i].left
    BY <1>2 DEF GetSkillMeta
  <2> QED
    BY <1>2, <2>1, <2>2 DEF GetSkillMeta, Archive
<1>3. ASSUME NEW f \in Archive, Write(i, f) PROVE Keeps(i)
  BY <1>3 DEF Write, PutFile
<1>4. ASSUME NEW f \in Archive, CopyFile(i, f) PROVE Keeps(i)
  BY <1>4 DEF CopyFile, PutFile
<1>5. CASE Cleared(i)
  BY <1>5 DEF Cleared, Go
<1>6. CASE NotFound(i)
  BY <1>6, GoMade DEF NotFound
<1>7. CASE DownloadToFile(i)
  BY <1>7, GoMade DEF DownloadToFile
<1>8. CASE DownloadFails(i)
  BY <1>8, ClearMade DEF DownloadFails
<1>9. CASE Fetch(i)
  BY <1>9, GoMade DEF Fetch
<1>10. CASE FetchFails(i)
  <2>1. CASE Go(i, "failed")
    BY <1>10, <2>1, GoMade DEF FetchFails
  <2>2. CASE op' = [op EXCEPT ![i].tries = op[i].tries + 1] /\ lock' = lock
    BY <1>10, <2>2 DEF FetchFails
  <2> QED
    BY <1>10, <2>1, <2>2 DEF FetchFails
<1>11. CASE Open(i)
  <2>1. op' \in [Ops -> OpType] /\ \A j \in Ops \ {i} : op'[j] = op[j]
    <3> DEFINE half == [op EXCEPT ![i].step = "writing"]
    <3>1. half \in [Ops -> OpType] /\ \A j \in Ops \ {i} : half[j] = op[j]
      BY <1>11 DEF Open, Archive
    <3>2. op' = [half EXCEPT ![i].left = IF op[i].kind = "github" THEN {"skill"} ELSE op[i].left]
      BY <1>11 DEF Open
    <3>3. (IF op[i].kind = "github" THEN {"skill"} ELSE op[i].left) \in SUBSET Archive
      BY DEF Archive
    <3> HIDE DEF half, OpType
    <3>4. op' \in [Ops -> OpType]
      BY <3>1, <3>2, <3>3, FieldTyped
    <3> QED
      BY <3>1, <3>2, <3>4
  <2>2. /\ op'[i].step = "writing" /\ op'[i].meta = op[i].meta /\ op'[i].kind = op[i].kind
        /\ op[i].kind = "github" => op'[i].left = {"skill"}
    BY <1>11 DEF Open
  <2> QED
    BY <1>11, <2>1, <2>2 DEF Open, Archive
<1>12. CASE CopyBuiltin(i)
  BY <1>12, GoMade DEF CopyBuiltin
<1>13. CASE WriteFails(i)
  BY <1>13, GoMade, ClearMade DEF WriteFails
<1>14. CASE CopyFails(i)
  BY <1>14, GoMade DEF CopyFails
<1>15. CASE Moderate(i)
  BY <1>15, GoMade, ClearMade DEF Moderate
<1>16. CASE Report(i)
  BY <1>16, GoMade, ClearMade DEF Report
<1>17. CASE WriteOrigin(i)
  BY <1>17, GoMade DEF WriteOrigin
<1>18. CASE ProcessEnds(i)
  BY <1>18, GoMade DEF ProcessEnds
<1> QED
  BY <1>1, <1>2, <1>3, <1>4, <1>5, <1>6, <1>7, <1>8, <1>9, <1>10, <1>11, <1>12, <1>13, <1>14,
    <1>15, <1>16, <1>17, <1>18 DEF Own

Before == {"lookup", "download", "fetching", "opening"}

\* What an own step does to the files: nothing, one less while clearing, one of i more.
\* Before it writes, i has come from there, from its beginning or from a directory cleared.
Touches(i) ==
  /\ \/ skillFiles' = skillFiles
     \/ /\ op[i].step = "clearing" /\ op' = op /\ present' = present
        /\ \E f \in DOMAIN skillFiles : skillFiles' = [g \in DOMAIN skillFiles \ {f} |-> skillFiles[g]]
     \/ /\ op[i].step \in {"writing", "copying", "marking"} /\ present'
        /\ op'[i].step \in {"writing", "copying", "installed"}
        /\ op[i].step = "copying" => op'[i].step = "copying"
        /\ \E f \in Archive \cup {"origin"} :
             skillFiles' = [g \in DOMAIN skillFiles \cup {f} |-> IF g = f THEN i ELSE skillFiles[g]]
  /\ present' \in BOOLEAN
  /\ ~present' /\ present => DOMAIN skillFiles = {} /\ skillFiles' = skillFiles
  /\ op'[i].step \in Before => op[i].step \in Before \/ DOMAIN skillFiles = {}
  /\ op'[i].meta # op[i].meta => op[i].step \in Before
  /\ op'[i].step \in {"failed", "blocked"} =>
       op[i].step \in Before \/ DOMAIN skillFiles = {} \/ op[i].meta # "malicious"
  /\ op'[i].step \notin {"clearing"} /\ op[i].step = "clearing" /\ op'[i].step # "crashed" =>
       DOMAIN skillFiles = {} /\ skillFiles' = skillFiles

LEMMA OwnTouches == ASSUME Types, NEW i \in Ops, Path(op[i]), Own(i) PROVE Touches(i)
<1> USE DEF Types, OpType, Touches, Outcomes, Path, Before, Registered, Tools
<1>1. ASSUME NEW f \in DOMAIN skillFiles, ClearFile(i, f) PROVE Touches(i)
  BY <1>1 DEF ClearFile
<1>2. ASSUME NEW meta \in {"unknown", "clean", "malicious"}, GetSkillMeta(i, meta)
      PROVE  Touches(i)
  BY <1>2 DEF GetSkillMeta
<1>3. ASSUME NEW f \in Archive, Write(i, f) PROVE Touches(i)
  BY <1>3 DEF Write, PutFile
<1>4. ASSUME NEW f \in Archive, CopyFile(i, f) PROVE Touches(i)
  BY <1>4 DEF CopyFile, PutFile
<1>5. CASE Cleared(i)
  BY <1>5 DEF Cleared, Go
<1>6. CASE NotFound(i)
  BY <1>6 DEF NotFound, Go
<1>7. CASE DownloadToFile(i)
  BY <1>7 DEF DownloadToFile, Go
<1>8. CASE DownloadFails(i)
  BY <1>8 DEF DownloadFails, ClearThen
<1>9. CASE Fetch(i)
  BY <1>9 DEF Fetch, Go
<1>10. CASE FetchFails(i)
  BY <1>10 DEF FetchFails, Go
<1>11. CASE Open(i)
  BY <1>11 DEF Open
<1>12. CASE CopyBuiltin(i)
  BY <1>12 DEF CopyBuiltin, Go
<1>13. CASE WriteFails(i)
  BY <1>13 DEF WriteFails, Go, ClearThen
<1>14. CASE CopyFails(i)
  BY <1>14 DEF CopyFails, Go
<1>15. CASE Moderate(i)
  BY <1>15 DEF Moderate, Go, ClearThen
<1>16. CASE Report(i)
  BY <1>16 DEF Report, Go, ClearThen
<1>17. CASE WriteOrigin(i)
  BY <1>17 DEF WriteOrigin, Go
<1>18. CASE ProcessEnds(i)
  BY <1>18 DEF ProcessEnds, Go, UnderWay
<1> QED
  BY <1>1, <1>2, <1>3, <1>4, <1>5, <1>6, <1>7, <1>8, <1>9, <1>10, <1>11, <1>12, <1>13, <1>14,
    <1>15, <1>16, <1>17, <1>18 DEF Own

\* An operation begins: it ends at once, clears, or finds no directory unless it copies.
Starts(i, kind, t) ==
  /\ op' \in [Ops -> OpType] /\ Path(op'[i])
  /\ \A j \in Ops \ {i} : op'[j] = op[j]
  /\ op[i].step = "idle" /\ \A j \in Ops : j < i => Begun(j)
  /\ op'[i].kind = kind /\ op'[i].meta = "unknown"
  /\ op'[i].step \in {"clearing", "missing", "exists", "lookup", "fetching", "opening"}
  /\ op'[i].step \in Before /\ kind # "copy" => ~present /\ op'[i].step # "opening"
  /\ present' = present /\ skillFiles' = skillFiles
  /\ t \in Caller(kind) /\ tool' = [tool EXCEPT ![i] = t]
  /\ kind \in Tools => \A j \in lock : tool[j] # t
  /\ lock' = IF kind \in Tools /\ op'[i].step \notin Outcomes THEN lock \cup {i} ELSE lock
  /\ met' = [j \in Ops |-> IF j = i THEN UnderWay
                           ELSE IF j \in UnderWay THEN met[j] \cup {i} ELSE met[j]]

LEMMA BeginStarts ==
  ASSUME Types, NEW i \in Ops, NEW kind \in Kinds, NEW t \in Caller(kind), Path(op[i]),
         Begin(i, kind, t)
  PROVE  Starts(i, kind, t)
<1> DEFINE c == Checked(i, kind)
<1>1. /\ c.step \in {"clearing", "missing", "exists", "lookup", "fetching", "opening"}
      /\ c.next \in {"none", "lookup", "removed"}
      /\ c.step = "clearing" =>
           \/ kind = "force" /\ c.next = "lookup"
           \/ kind = "remove" /\ c.next = "removed"
      /\ c.step = "lookup" => kind \in Registered /\ ~present
      /\ c.step = "fetching" => kind = "github" /\ ~present
      /\ c.step = "opening" => kind = "copy"
  <2>1. CASE kind = "force"
    <3>1. c = [step |-> "clearing", next |-> "lookup"]
      BY <2>1 DEF Checked
    <3> QED
      BY <2>1, <3>1
  <2>2. CASE kind = "copy"
    <3>1. c = [step |-> "opening", next |-> "none"]
      BY <2>2 DEF Checked
    <3> QED
      BY <2>2, <3>1
  <2>3. CASE kind = "remove"
    <3>1. c = [step |-> IF present THEN "clearing" ELSE "missing", next |-> "removed"]
      BY <2>3 DEF Checked
    <3> QED
      BY <2>3, <3>1
  <2>4. CASE kind \notin {"force", "copy", "remove"}
    <3>1. c = [step |-> IF present THEN "exists"
                        ELSE IF kind = "github" THEN "fetching" ELSE "lookup",
               next |-> "none"]
      BY <2>4 DEF Checked
    <3> QED
      BY <2>4, <3>1 DEF Kinds, Registered, Tools
  <2> QED
    BY <2>1, <2>2, <2>3, <2>4
<1>2. op' = [op EXCEPT ![i] = [kind |-> kind, step |-> c.step, meta |-> "unknown",
                              left |-> Archive, next |-> c.next, tries |-> 0]]
  BY DEF Begin
<1> HIDE DEF c
<1>3. op' \in [Ops -> OpType]
  BY <1>1, <1>2 DEF Types, OpType, Steps, Outcomes
<1>4. Path(op'[i])
  BY <1>1, <1>2, <1>3 DEF Path, Types, Registered, Kinds, Tools
<1> QED
  BY <1>1, <1>2, <1>3, <1>4 DEF Starts, Begin, Begun, Before, Types, Outcomes

-----------------------------------------------------------------------------
(* The order of the operations.  An operation meets those that were under   *)
(* way when it began, and all that begin before it ends.                    *)

Ordered ==
  /\ Types /\ \A i \in Ops : Path(op[i])
  /\ \A i \in Ops : tool[i] \in Installers <=> op[i].kind \in Tools
  /\ \A i \in UnderWay : op[i].kind \in Tools => i \in lock
  /\ \A i, j \in UnderWay : i # j => j \in met[i]
  /\ \A i \in Ops : \A j \in met[i] : Begun(i) /\ Begun(j)
  /\ \A i, j \in Ops : j < i /\ Begun(i) => Begun(j)
  /\ \A i, j \in Ops : j < i /\ Begun(i) /\ j \in UnderWay => j \in met[i]

LEMMA FilesTyped ==
  ASSUME Types, NEW i \in Ops, Touches(i)
  PROVE  skillFiles' \in [DOMAIN skillFiles' -> Ops] /\ DOMAIN skillFiles' \subseteq Archive \cup {"origin"}
<1> USE DEF Types
<1>1. CASE skillFiles' = skillFiles
  BY <1>1
<1>2. ASSUME NEW f \in DOMAIN skillFiles, skillFiles' = [g \in DOMAIN skillFiles \ {f} |-> skillFiles[g]]
      PROVE  /\ skillFiles' \in [DOMAIN skillFiles' -> Ops]
             /\ DOMAIN skillFiles' \subseteq Archive \cup {"origin"}
  BY <1>2
<1>3. ASSUME NEW f \in Archive \cup {"origin"},
             skillFiles' = [g \in DOMAIN skillFiles \cup {f} |-> IF g = f THEN i ELSE skillFiles[g]]
      PROVE  /\ skillFiles' \in [DOMAIN skillFiles' -> Ops]
             /\ DOMAIN skillFiles' \subseteq Archive \cup {"origin"}
  BY <1>3
<1> QED
  BY <1>1, <1>2, <1>3 DEF Touches

LEMMA OrderedStep ==
  ASSUME Ordered /\ ToolsTakeTurns, [SkNext]_skVars
  PROVE  Ordered' /\ ToolsTakeTurns'
<1> USE DEF Ordered, ToolsTakeTurns, Begun, UnderWay
<1>1. ASSUME NEW i \in Ops, NEW kind \in Kinds, NEW t \in Caller(kind), Begin(i, kind, t)
      PROVE  Ordered' /\ ToolsTakeTurns'
  <2>1. Starts(i, kind, t)
    BY <1>1, BeginStarts
  <2>2. Types'
    <3>1. lock' \subseteq Ops
      BY <2>1 DEF Starts, Types
    <3>2. met' \in [Ops -> SUBSET Ops]
      BY <2>1 DEF Starts, Types
    <3>3. tool' \in [Ops -> Installers \cup {NoTool}]
      BY <2>1 DEF Starts, Types, Caller
    <3> QED
      BY <2>1, <3>1, <3>2, <3>3 DEF Starts, Types
  <2>3. \A j \in Ops : Path(op'[j])
    BY <2>1 DEF Starts
  <2>4. UnderWay' \subseteq UnderWay \cup {i} /\ UnderWay \subseteq UnderWay'
    BY <2>1 DEF Starts, Outcomes
  <2> USE DEF Starts
  <2>5. \A j \in UnderWay' : op'[j].kind \in Tools => j \in lock'
    BY <2>1, <2>4
  <2>6. \A j, k \in UnderWay' : j # k => k \in met'[j]
    BY <2>1, <2>4
  <2>7. \A j \in Ops : \A k \in met'[j] : Begun(j)' /\ Begun(k)'
    BY <2>1, <2>2 DEF Types, Outcomes
  <2>8. \A j, k \in Ops : k < j /\ Begun(j)' => Begun(k)'
    BY <2>1, SkillsAssumption DEF SkillsAssumption
  <2>9. \A j, k \in Ops : k < j /\ Begun(j)' /\ k \in UnderWay' => k \in met'[j]
    BY <2>1, <2>4, SkillsAssumption DEF SkillsAssumption
  <2>10. \A j \in Ops : tool'[j] \in Installers <=> op'[j].kind \in Tools
    BY <2>1, SkillsAssumption DEF Caller, Types, SkillsAssumption
  <2>11. ToolsTakeTurns'
    <3> SUFFICES ASSUME NEW j \in Ops, tool'[j] \in Installers, NEW k \in met'[j]
                 PROVE  tool'[k] # tool'[j]
      OBVIOUS
    <3>1. CASE j # i /\ k # i
      BY <2>1, <3>1 DEF Types
    <3>2. i \notin UnderWay /\ i \notin met[i]
      BY <2>1
    <3>3. CASE j = i
      <4>1. k \in UnderWay /\ k # i /\ tool'[k] = tool[k] /\ tool'[i] = t /\ t \in Installers
        BY <2>1, <3>2, <3>3 DEF Types
      <4>2. kind \in Tools
        BY <4>1, SkillsAssumption DEF Caller, SkillsAssumption
      <4> QED
        BY <2>1, <3>3, <4>1, <4>2 DEF Types
    <3>4. CASE j # i /\ k = i
      <4>1. j \in UnderWay /\ tool'[j] = tool[j] /\ tool[j] \in Installers /\ tool'[i] = t
        BY <2>1, <3>4 DEF Types
      <4> QED
        BY <2>1, <3>4, <4>1, SkillsAssumption DEF Types, Caller, SkillsAssumption
    <3> QED
      BY <3>1, <3>3, <3>4
  <2> QED
    BY <2>2, <2>3, <2>5, <2>6, <2>7, <2>8, <2>9, <2>10, <2>11
<1>2. ASSUME NEW i \in Ops, Own(i) PROVE Ordered' /\ ToolsTakeTurns'
  <2>1. Keeps(i) /\ Touches(i)
    BY <1>2, OwnKeeps, OwnTouches
  <2> USE DEF Keeps
  <2>2. Types'
    <3>1. skillFiles' \in [DOMAIN skillFiles' -> Ops] /\ DOMAIN skillFiles' \subseteq Archive \cup {"origin"}
      BY <2>1, FilesTyped
    <3>2. lock' \subseteq Ops
      BY <2>1 DEF Types
    <3> QED
      BY <2>1, <3>1, <3>2 DEF Types, Touches
  <2>3. UnderWay' \subseteq UnderWay /\ \A j \in Ops : Begun(j)' <=> Begun(j)
    BY <2>1 DEF Outcomes
  <2>4. \A j \in Ops : Path(op'[j])
    BY <2>1
  <2>5. \A j \in UnderWay' : op'[j].kind \in Tools => j \in lock'
    BY <2>1, <2>3
  <2>6. /\ \A j, k \in UnderWay' : j # k => k \in met'[j]
        /\ \A j \in Ops : \A k \in met'[j] : Begun(j)' /\ Begun(k)'
        /\ \A j, k \in Ops : k < j /\ Begun(j)' => Begun(k)'
        /\ \A j, k \in Ops : k < j /\ Begun(j)' /\ k \in UnderWay' => k \in met'[j]
    BY <2>1, <2>3 DEF Types
  <2>7. ToolsTakeTurns' /\ \A j \in Ops : tool'[j] \in Installers <=> op'[j].kind \in Tools
    BY <2>1 DEF Types
  <2> QED
    BY <2>2, <2>4, <2>5, <2>6, <2>7
<1>3. CASE UNCHANGED skVars
  BY <1>3 DEF skVars, Types
<1> QED
  BY <1>1, <1>2, <1>3 DEF SkNext, Own

-----------------------------------------------------------------------------
(* Whose files lie in the directory.  An operation that has passed the check *)
(* or the clearing finds there, beside its own and copied ones, only files   *)
(* of operations it has met.                                                 *)

Copied(f) == op[skillFiles[f]].kind = "copy"

Sorted ==
  /\ DOMAIN skillFiles # {} => present
  /\ \A f \in DOMAIN skillFiles :
       /\ Begun(skillFiles[f]) /\ op[skillFiles[f]].step \notin Before
       /\ op[skillFiles[f]].meta = "malicious" => op[skillFiles[f]].step \notin {"failed", "blocked"}
  /\ \A i \in UnderWay : op[i].step # "clearing" /\ op[i].kind # "copy" =>
       \A f \in DOMAIN skillFiles : skillFiles[f] = i \/ skillFiles[f] \in met[i] \/ Copied(f)

LEMMA SortedBegin ==
  ASSUME Ordered, Sorted, MixedIfMet, NEW i \in Ops, NEW kind \in Kinds, NEW t \in Caller(kind),
         Begin(i, kind, t)
  PROVE  Sorted' /\ MixedIfMet'
<1>1. Starts(i, kind, t)
  BY BeginStarts DEF Ordered
<1> USE DEF Starts, Sorted, Begun, Copied, Ordered, Types
<1>2. \A f \in DOMAIN skillFiles : skillFiles[f] \in Ops \ {i} /\ op'[skillFiles[f]] = op[skillFiles[f]]
  BY <1>1
<1>3. \A j \in Ops : met[j] \subseteq met'[j] \/ j = i
  BY <1>1
<1>4. met[i] = {}
  BY <1>1
<1>5. \A f \in DOMAIN skillFiles :
        /\ op'[skillFiles[f]].step # "idle" /\ op'[skillFiles[f]].step \notin Before
        /\ op'[skillFiles[f]].meta = "malicious" => op'[skillFiles[f]].step \notin {"failed", "blocked"}
  BY <1>1, <1>2
<1>6. ASSUME NEW j \in UnderWay', op'[j].step # "clearing", op'[j].kind # "copy",
             NEW f \in DOMAIN skillFiles
      PROVE  skillFiles[f] = j \/ skillFiles[f] \in met'[j] \/ op'[skillFiles[f]].kind = "copy"
  <2>1. CASE j = i
    BY <1>1, <1>6, <2>1 DEF UnderWay, Outcomes, Before
  <2>2. CASE j # i
    BY <1>1, <1>2, <1>3, <1>6, <2>2 DEF UnderWay
  <2> QED
    BY <2>1, <2>2
<1>7. Sorted'
  BY <1>1, <1>5, <1>6
<1>8. MixedIfMet'
  BY <1>1, <1>2, <1>3, <1>4 DEF MixedIfMet
<1> QED
  BY <1>7, <1>8

LEMMA SortedOwn ==
  ASSUME Ordered, Sorted, MixedIfMet, NEW i \in Ops, Own(i)
  PROVE  Sorted' /\ MixedIfMet'
<1>1. Keeps(i) /\ Touches(i)
  BY OwnKeeps, OwnTouches DEF Ordered
<1> USE DEF Keeps, Begun, Copied, Ordered, Types
<1>2. \A j \in Ops : /\ op'[j].kind = op[j].kind /\ (Begun(j) => Begun(j)')
                     /\ j \in UnderWay' => j \in UnderWay
  BY <1>1 DEF UnderWay, Outcomes
<1>3. CASE skillFiles' = skillFiles
  <2>1. \A f \in DOMAIN skillFiles :
        /\ op'[skillFiles[f]].step # "idle" /\ op'[skillFiles[f]].step \notin Before
        /\ op'[skillFiles[f]].meta = "malicious" => op'[skillFiles[f]].step \notin {"failed", "blocked"}
    <3> TAKE f \in DOMAIN skillFiles
    <3>1. /\ skillFiles[f] \in Ops /\ Begun(skillFiles[f]) /\ op[skillFiles[f]].step \notin Before
          /\ op[skillFiles[f]].meta = "malicious" => op[skillFiles[f]].step \notin {"failed", "blocked"}
      BY DEF Sorted
    <3>2. CASE skillFiles[f] = i
      BY <1>1, <1>2, <3>1, <3>2 DEF Touches
    <3>3. CASE skillFiles[f] # i
      BY <1>1, <1>2, <3>1, <3>3
    <3> QED
      BY <3>2, <3>3
  <2>2. ASSUME NEW j \in UnderWay', op'[j].step # "clearing", op'[j].kind # "copy",
               NEW f \in DOMAIN skillFiles
        PROVE  skillFiles[f] = j \/ skillFiles[f] \in met'[j] \/ op'[skillFiles[f]].kind = "copy"
    BY <1>1, <1>2, <2>2 DEF Sorted, Touches, UnderWay, Outcomes
  <2>3. DOMAIN skillFiles # {} => present'
    BY <1>1 DEF Sorted, Touches
  <2>4. Sorted'
    BY <1>3, <2>1, <2>2, <2>3 DEF Sorted
  <2>5. MixedIfMet'
    BY <1>1, <1>2, <1>3 DEF MixedIfMet
  <2> QED
    BY <2>4, <2>5
<1>4. ASSUME NEW f \in DOMAIN skillFiles, op' = op, present' = present,
             skillFiles' = [g \in DOMAIN skillFiles \ {f} |-> skillFiles[g]]
      PROVE  Sorted' /\ MixedIfMet'
  BY <1>1, <1>4 DEF Sorted, MixedIfMet, UnderWay
<1>5. ASSUME op[i].step \in {"writing", "copying", "marking"}, present',
             op'[i].step \in {"writing", "copying", "installed"},
             op[i].step = "copying" => op'[i].step = "copying",
             NEW f \in Archive \cup {"origin"},
             skillFiles' = [g \in DOMAIN skillFiles \cup {f} |-> IF g = f THEN i ELSE skillFiles[g]]
      PROVE  Sorted' /\ MixedIfMet'
  <2>1. \A g \in DOMAIN skillFiles' : skillFiles'[g] = i \/ (g \in DOMAIN skillFiles /\ skillFiles'[g] = skillFiles[g])
    <3> TAKE g \in DOMAIN skillFiles'
    <3>1. g \in DOMAIN skillFiles \cup {f} /\ skillFiles'[g] = IF g = f THEN i ELSE skillFiles[g]
      BY <1>5
    <3> QED
      BY <3>1
  <2>2. i \in UnderWay /\ op[i].step # "clearing"
    BY <1>1, <1>5
  <2>3. \A g \in DOMAIN skillFiles :
          skillFiles[g] = i \/ skillFiles[g] \in met[i] \/ op[skillFiles[g]].kind = "copy"
          \/ op[i].kind = "copy"
    BY <2>2 DEF Sorted
  <2>4. \A g \in DOMAIN skillFiles' :
        /\ op'[skillFiles'[g]].step # "idle" /\ op'[skillFiles'[g]].step \notin Before
        /\ op'[skillFiles'[g]].meta = "malicious" => op'[skillFiles'[g]].step \notin {"failed", "blocked"}
    <3> TAKE g \in DOMAIN skillFiles'
    <3>1. CASE skillFiles'[g] = i
      BY <1>1, <1>2, <1>5, <2>2, <3>1 DEF Before
    <3>2. CASE skillFiles'[g] # i
      <4>1. g \in DOMAIN skillFiles /\ skillFiles'[g] = skillFiles[g] /\ skillFiles[g] \in Ops \ {i}
        BY <2>1, <3>2
      <4> QED
        BY <1>1, <1>2, <4>1 DEF Sorted
    <3> QED
      BY <3>1, <3>2
  <2>5. ASSUME NEW j \in UnderWay', op'[j].step # "clearing", op'[j].kind # "copy",
               NEW g \in DOMAIN skillFiles'
        PROVE  skillFiles'[g] = j \/ skillFiles'[g] \in met'[j] \/ op'[skillFiles'[g]].kind = "copy"
    <3>0. j \in Ops
      BY <2>5 DEF UnderWay
    <3>1. j \in UnderWay /\ op[j].kind # "copy"
      BY <1>2, <2>5, <3>0
    <3>2. CASE j = i
      BY <1>1, <1>2, <2>1, <2>3, <2>5, <3>1, <3>2
    <3>3. CASE j # i
      BY <1>1, <1>2, <2>1, <2>2, <2>5, <3>1, <3>3 DEF Sorted, UnderWay
    <3> QED
      BY <3>2, <3>3
  <2>6. Sorted'
    BY <1>5, <2>4, <2>5 DEF Sorted
  <2>7. MixedIfMet'
    BY <1>1, <1>2, <2>1, <2>3 DEF MixedIfMet
  <2> QED
    BY <2>6, <2>7
<1> QED
  BY <1>1, <1>3, <1>4, <1>5 DEF Touches

-----------------------------------------------------------------------------
(* What an operation that meets no other one has in the directory, at every *)
(* step and when it is over, until a later one begins.                      *)

Given(i) == IF op[i].kind = "github" THEN {"skill"} ELSE Archive
Mine(i) == \A f \in DOMAIN skillFiles : skillFiles[f] = i

Leaves(i) ==
  /\ op[i].step \in Before /\ op[i].kind # "copy" => ~present
  /\ op[i].step = "writing" => Mine(i) /\ DOMAIN skillFiles = Given(i) \ op[i].left
  /\ op[i].step = "marking" => Mine(i) /\ DOMAIN skillFiles = Archive
  /\ op[i].step = "copying" => \A f \in Archive \ op[i].left : f \in DOMAIN skillFiles /\ skillFiles[f] = i
  /\ op[i].step = "installed" =>
       /\ \A f \in Given(i) : f \in DOMAIN skillFiles /\ skillFiles[f] = i
       /\ op[i].kind # "copy" => Mine(i)
  /\ op[i].step \in {"failed", "blocked"} =>
       \/ ~present
       \/ op[i].kind = "github" /\ DOMAIN skillFiles = {}

Whole == \A i \in Ops : Alone(i) => Leaves(i)

LEMMA LeavesOwn ==
  ASSUME Ordered, Sorted, NEW i \in Ops, Leaves(i), Own(i)
  PROVE  Leaves(i)'
<1> Types /\ Path(op[i]) /\ (~present => DOMAIN skillFiles = {})
  BY DEF Ordered, Sorted
<1> Keeps(i)
  BY OwnKeeps DEF Ordered
<1> USE DEF Types, OpType, Leaves, Path, Keeps, Before, Given, Mine, Registered, Tools
<1>1. ASSUME NEW f \in DOMAIN skillFiles, ClearFile(i, f) PROVE Leaves(i)'
  BY <1>1 DEF ClearFile
<1>2. ASSUME NEW meta \in {"unknown", "clean", "malicious"}, GetSkillMeta(i, meta)
      PROVE  Leaves(i)'
  BY <1>2 DEF GetSkillMeta
<1>3. ASSUME NEW f \in Archive, Write(i, f) PROVE Leaves(i)'
  <2>1. /\ op'[i].step = "writing" /\ op'[i].left = op[i].left \ {f} /\ f \in op[i].left
        /\ Mine(i) /\ DOMAIN skillFiles = Given(i) \ op[i].left /\ op[i].left \subseteq Given(i)
    BY <1>3 DEF Write, PutFile
  <2>2. skillFiles' = [g \in DOMAIN skillFiles \cup {f} |-> IF g = f THEN i ELSE skillFiles[g]]
    BY <1>3 DEF Write, PutFile
  <2>3. Mine(i)'
    BY <2>1, <2>2
  <2>4. DOMAIN skillFiles' = Given(i) \ op'[i].left
    BY <2>1, <2>2
  <2> QED
    BY <2>1, <2>3, <2>4
<1>4. ASSUME NEW f \in Archive, CopyFile(i, f) PROVE Leaves(i)'
  BY <1>4 DEF CopyFile, PutFile
<1>5. CASE Cleared(i)
  BY <1>5 DEF Cleared, Go
<1>6. CASE NotFound(i)
  BY <1>6 DEF NotFound, Go
<1>7. CASE DownloadToFile(i)
  BY <1>7 DEF DownloadToFile, Go
<1>8. CASE DownloadFails(i)
  BY <1>8 DEF DownloadFails, ClearThen
<1>9. CASE Fetch(i)
  BY <1>9 DEF Fetch, Go
<1>10. CASE FetchFails(i)
  BY <1>10 DEF FetchFails, Go
<1>11. CASE Open(i)
  <2>1. /\ op'[i].step = "writing" /\ op'[i].kind = op[i].kind /\ skillFiles' = skillFiles
        /\ op'[i].left = IF op[i].kind = "github" THEN {"skill"} ELSE op[i].left
        /\ op[i].left = Archive /\ ~present
    BY <1>11 DEF Open
  <2> QED
    BY <2>1
<1>12. CASE CopyBuiltin(i)
  <2>1. op'[i].step = "copying" /\ op'[i].left = op[i].left /\ op[i].left = Archive
    BY <1>12 DEF CopyBuiltin, Go, Outcomes
  <2> QED
    BY <2>1
<1>13. CASE WriteFails(i)
  <2>1. CASE op[i].kind = "github"
    <3>1. op'[i].step = "failed" /\ op'[i].kind = "github" /\ skillFiles' = skillFiles
      BY <1>13, <2>1 DEF WriteFails, Go, Outcomes
    <3>2. /\ op[i].step = "writing" /\ op[i].left # {} /\ op[i].left \subseteq {"skill"}
          /\ DOMAIN skillFiles = {"skill"} \ op[i].left
      BY <1>13, <2>1 DEF WriteFails
    <3>3. DOMAIN skillFiles = {}
      BY <3>2
    <3> QED
      BY <3>1, <3>3
  <2>2. CASE op[i].kind # "github"
    <3>1. op'[i].step = "clearing"
      BY <1>13, <2>2 DEF WriteFails, ClearThen
    <3> QED
      BY <3>1
  <2> QED
    BY <2>1, <2>2
<1>14. CASE CopyFails(i)
  BY <1>14 DEF CopyFails, Go
<1>15. CASE Moderate(i)
  BY <1>15 DEF Moderate, Go, ClearThen
<1>16. CASE Report(i)
  BY <1>16 DEF Report, Go, ClearThen
<1>17. CASE WriteOrigin(i)
  BY <1>17 DEF WriteOrigin, Go
<1>18. CASE ProcessEnds(i)
  BY <1>18 DEF ProcessEnds, Go
<1> QED
  BY <1>1, <1>2, <1>3, <1>4, <1>5, <1>6, <1>7, <1>8, <1>9, <1>10, <1>11, <1>12, <1>13, <1>14,
    <1>15, <1>16, <1>17, <1>18 DEF Own

\* The steps of another operation: if i is still alone after one, that operation has only
\* looked, and found the directory there or not.
LEMMA WholeStep ==
  ASSUME Ordered, Sorted, Whole, [SkNext]_skVars
  PROVE  Whole'
<1> SUFFICES ASSUME NEW i \in Ops, Alone(i)' PROVE Leaves(i)'
  BY DEF Whole
<1> USE DEF Ordered, Types, Alone
<1>1. ASSUME NEW j \in Ops, NEW kind \in Kinds, NEW t \in Caller(kind), Begin(j, kind, t)
      PROVE  Leaves(i)'
  <2>1. Starts(j, kind, t)
    BY <1>1, BeginStarts
  <2>2. CASE i = j
    BY <2>1, <2>2 DEF Starts, Leaves
  <2>3. CASE i # j
    <3>1. Alone(i)
      BY <2>1, <2>3 DEF Starts
    <3>2. Leaves(i)
      BY <3>1 DEF Whole
    <3> QED
      BY <2>1, <2>3, <3>2 DEF Starts, Leaves, Mine, Given
  <2> QED
    BY <2>2, <2>3
<1>2. ASSUME NEW j \in Ops, Own(j) PROVE Leaves(i)'
  <2>1. Keeps(j) /\ Touches(j)
    BY <1>2, OwnKeeps, OwnTouches
  <2>2. CASE i = j
    <3>1. Alone(i)
      BY <2>1, <2>2, SkillsAssumption DEF Keeps, SkillsAssumption
    <3> QED
      BY <1>2, <2>2, <3>1, LeavesOwn DEF Whole
  <2>3. CASE i # j
    <3>1. ~Begun(i)
      <4>1. j < i
        BY <2>1, <2>3, SkillsAssumption DEF Keeps, SkillsAssumption
      <4> QED
        BY <2>1, <4>1 DEF Keeps
    <3> QED
      BY <2>1, <2>3, <3>1 DEF Keeps, Leaves, Begun, Before
  <2> QED
    BY <2>2, <2>3
<1>3. CASE UNCHANGED skVars
  <2>1. op' = op /\ met' = met /\ skillFiles' = skillFiles /\ present' = present
    BY <1>3 DEF skVars
  <2>2. Alone(i)
    BY <2>1
  <2>3. Leaves(i)
    BY <2>2 DEF Whole
  <2> QED
    BY <2>1, <2>3 DEF Leaves, Mine, Given
<1> QED
  BY <1>1, <1>2, <1>3 DEF SkNext, Own

-----------------------------------------------------------------------------
(* What the operations leave in the directory                              *)

Inv == Ordered /\ ToolsTakeTurns /\ Sorted /\ MixedIfMet /\ Whole

LEMMA InvInit == ASSUME SkInit PROVE Inv
<1>1. Types /\ \A i \in Ops : Path(op[i])
  BY TypesInit
<1>2. UnderWay = {} /\ DOMAIN skillFiles = {} /\ \A i \in Ops : op[i].step = "idle" /\ met[i] = {}
  BY DEF SkInit, UnderWay
<1>3. Ordered
  BY <1>1, <1>2, SkillsAssumption DEF Ordered, Begun, Path, Tools, SkInit, SkillsAssumption
<1>4. ToolsTakeTurns /\ Sorted /\ MixedIfMet
  BY <1>2 DEF ToolsTakeTurns, Sorted, MixedIfMet
<1>5. Whole
  BY <1>2 DEF Whole, Leaves, Before
<1> QED
  BY <1>3, <1>4, <1>5 DEF Inv

LEMMA InvStep == ASSUME Inv, [SkNext]_skVars PROVE Inv'
<1>1. Ordered' /\ ToolsTakeTurns'
  BY OrderedStep DEF Inv
<1>2. Whole'
  BY WholeStep DEF Inv
<1>3. Sorted' /\ MixedIfMet'
  <2>1. ASSUME NEW i \in Ops, NEW kind \in Kinds, NEW t \in Caller(kind), Begin(i, kind, t)
        PROVE  Sorted' /\ MixedIfMet'
    BY <2>1, SortedBegin DEF Inv
  <2>2. ASSUME NEW i \in Ops, Own(i) PROVE Sorted' /\ MixedIfMet'
    BY <2>2, SortedOwn DEF Inv
  <2>3. CASE UNCHANGED skVars
    BY <2>3 DEF skVars, Inv, Sorted, MixedIfMet, UnderWay, Begun, Copied
  <2> QED
    BY <2>1, <2>2, <2>3 DEF SkNext, Own
<1> QED
  BY <1>1, <1>2, <1>3 DEF Inv

LEMMA InvSound == ASSUME Inv PROVE SkillsSound
<1> USE DEF Inv
<1>1. ASSUME NEW i \in Ops, Alone(i) PROVE Leaves(i)
  BY <1>1 DEF Whole
<1>2. SuccessIsWhole
  <2> SUFFICES ASSUME NEW i \in Ops, op[i].step = "installed", Alone(i)
               PROVE  /\ \A f \in Given(i) : f \in DOMAIN skillFiles /\ skillFiles[f] = i
                      /\ op[i].kind # "copy" => \A f \in DOMAIN skillFiles : skillFiles[f] = i
                      /\ NamesItself(i) => ListedFrom = "workspace"
    BY DEF SuccessIsWhole, Given
  <2>1. /\ \A f \in Given(i) : f \in DOMAIN skillFiles /\ skillFiles[f] = i
        /\ op[i].kind # "copy" => Mine(i)
    BY <1>1 DEF Leaves
  <2>2. "skill" \in Given(i)
    BY DEF Given, Archive
  <2> QED
    BY <2>1, <2>2 DEF Mine, ListedFrom
<1>3. FailureLeavesNothing
  BY <1>1 DEF FailureLeavesNothing, Leaves
<1>4. FlaggedIsRemoved
  <2> SUFFICES ASSUME NEW f \in DOMAIN skillFiles, op[skillFiles[f]].meta = "malicious"
               PROVE  op[skillFiles[f]].step \in {"writing", "clearing", "crashed"}
    BY DEF FlaggedIsRemoved
  <2> DEFINE r == op[skillFiles[f]]
  <2>1. skillFiles[f] \in Ops /\ r.step \in Steps /\ Path(r)
    BY DEF Ordered, Types, OpType
  <2>2. r.step \notin Before /\ r.step \notin {"idle", "failed", "blocked"}
    BY DEF Sorted, Begun
  <2> QED
    BY <2>1, <2>2 DEF Path, Steps, Outcomes, Before
<1>5. ListedIsLoaded
  BY DEF ListedIsLoaded, ListedFrom, LoadedFrom
<1> QED
  BY <1>2, <1>3, <1>4, <1>5 DEF SkillsSound

\* What the operations on a skill leave in its directory, whatever their number, the files
\* of the archives and the times a download is tried: an install that met no other one is
\* whole or leaves nothing, files of two lie together only if they met or one copied over
\* the other's, what is flagged is removed, and the calls of one agent's tool take turns.
THEOREM SkillsSoundHolds == SkSpec => []SkillsSound
<1>1. SkInit => Inv
  BY InvInit
<1>2. Inv /\ [SkNext]_skVars => Inv'
  BY InvStep
<1>3. Inv => SkillsSound
  BY InvSound
<1> QED
  BY <1>1, <1>2, <1>3, PTL DEF SkSpec

(***************************************************************************)
(* The system prompt                                                       *)
(***************************************************************************)

\* The disk is what the last write of each file made it.
DiskIsLog ==
  /\ \A i \in DOMAIN log : log[i].now \in {0, i}
  /\ \A f \in Files :
       /\ mtime[f] <= clock
       /\ \/ content[f] = 0 /\ \A k \in DOMAIN log : log[k].file # f
          \/ \E i \in DOMAIN log :
               /\ log[i].file = f /\ log[i].now = content[f] /\ log[i].at = mtime[f]
               /\ \A k \in (i + 1)..Len(log) : log[k].file # f

\* A writer is alone.
LockHolds ==
  /\ \A c, d \in Writers : c = d
  /\ Writers # {} => Readers = {}
  /\ \A c \in Callers : promptPc[c] \in {"checking", "rechecking"} => cache.valid
  /\ \A c \in Callers : start[c] <= Len(log)

\* The text of f was read from the disk when the log had at least n writes, and nothing was
\* written later before the time of the baseline.
ReadFrom(l, n, f, entry) ==
  /\ entry.when[f] \in n..Len(l) /\ WasAt(l, f, entry.text[f], entry.when[f])
  /\ \A k \in (entry.when[f] + 1)..Len(l) : l[k].on >= entry.at

CacheReadFrom == cache.valid =>
  /\ cache.at <= clock
  /\ \A f \in Files : ReadFrom(log, 0, f, cache)

BuiltReadFrom ==
  /\ \A c \in Callers : promptPc[c] \in {"statting", "reading"} => built[c].at <= clock
  /\ \A c \in Callers : promptPc[c] = "reading" =>
       \A f \in Files \ todo[c] : ReadFrom(log, start[c], f, built[c])

CheckedIsCurrent ==
  \A c \in Callers : promptPc[c] \in {"checking", "rechecking"} =>
    \A f \in Compared \ todo[c] : CurrentFrom(log, start[c], f, cache)

ServedIsCurrent ==
  \A c \in Callers : promptPc[c] = "served" =>
    \A f \in Compared : CurrentFrom(log, start[c], f, built[c])

PromptInv ==
  DiskIsLog /\ LockHolds /\ CacheReadFrom /\ BuiltReadFrom /\ CheckedIsCurrent /\ ServedIsCurrent

-----------------------------------------------------------------------------
Written == [file : Files, now : Nat, at : Nat, on : Nat]
PromptSteps == {"idle", "checking", "locking", "rechecking", "statting", "reading", "served"}

LEMMA OneMoreWrite ==
  ASSUME NEW l \in Seq(Written), NEW x \in Written
  PROVE  /\ Append(l, x) \in Seq(Written)
         /\ Len(l) \in Nat /\ Len(Append(l, x)) = Len(l) + 1
         /\ DOMAIN l = 1..Len(l) /\ DOMAIN Append(l, x) = 1..(Len(l) + 1)
         /\ \A i \in 1..Len(l) : l[i] \in Written /\ Append(l, x)[i] = l[i]
         /\ Append(l, x)[Len(l) + 1] = x
  OBVIOUS

LEMMA WasAtGrows ==
  ASSUME NEW l \in Seq(Written), NEW x \in Written, NEW f, NEW v, NEW m \in 0..Len(l),
         WasAt(l, f, v, m)
  PROVE  WasAt(Append(l, x), f, v, m)
  BY OneMoreWrite DEF WasAt

LEMMA ReadFromGrows ==
  ASSUME NEW l \in Seq(Written), NEW x \in Written, NEW n \in Nat, NEW f, NEW entry,
         entry.at \in Nat, ReadFrom(l, n, f, entry), x.on >= entry.at
  PROVE  ReadFrom(Append(l, x), n, f, entry)
<1> DEFINE m == entry.when[f]
<1>1. /\ m \in n..Len(l) /\ WasAt(l, f, entry.text[f], m)
      /\ \A k \in (m + 1)..Len(l) : l[k].on >= entry.at
  BY DEF ReadFrom
<1> HIDE DEF m
<1>2. m \in n..Len(Append(l, x)) /\ WasAt(Append(l, x), f, entry.text[f], m)
  BY <1>1, WasAtGrows, OneMoreWrite
<1>3. ASSUME NEW k \in (m + 1)..Len(Append(l, x)) PROVE Append(l, x)[k].on >= entry.at
  <2>1. CASE k \in 1..Len(l)
    BY <2>1, <1>1, <1>3, OneMoreWrite
  <2>2. CASE k = Len(l) + 1
    BY <2>2, OneMoreWrite
  <2> QED
    BY <2>1, <2>2, <1>1, OneMoreWrite
<1> QED
  BY <1>2, <1>3 DEF ReadFrom, m

LEMMA CurrentGrows ==
  ASSUME NEW l \in Seq(Written), NEW x \in Written, NEW n \in Nat, NEW f, NEW entry,
         CurrentFrom(l, n, f, entry)
  PROVE  CurrentFrom(Append(l, x), n, f, entry)
<1>1. PICK m \in n..Len(l) : WasAt(l, f, entry.text[f], m) \/ Missed(l, f, entry, m)
  BY DEF CurrentFrom
<1>2. m \in n..Len(Append(l, x)) /\ m \in 0..Len(l)
  BY OneMoreWrite
<1>3. WasAt(l, f, entry.text[f], m) => WasAt(Append(l, x), f, entry.text[f], m)
  BY <1>2, WasAtGrows
<1>4. Missed(l, f, entry, m) => Missed(Append(l, x), f, entry, m)
  <2>1. \A i \in 1..m : Append(l, x)[i] = l[i]
    BY <1>2, OneMoreWrite
  <2>2. \A i \in 1..m : \A k \in (i + 1)..m : Append(l, x)[k] = l[k]
    BY <1>2, OneMoreWrite
  <2> QED
    BY <2>1, <2>2 DEF Missed
<1> QED
  BY <1>1, <1>2, <1>3, <1>4 DEF CurrentFrom

-----------------------------------------------------------------------------
(* Types                                                                   *)

LEMMA PromptTypesInit == PcInit => PcTypeOK
  BY DEF PcInit, PcTypeOK, Nothing, Entry

LEMMA PutShape ==
  ASSUME PcTypeOK, NEW f \in Files,
         \/ \E now \in 0..MaxWrites : Edit(f, now)
         \/ \E at \in 1..clock : WriteFile(f, at)
  PROVE  \E now, at \in Nat : at <= clock /\ Put(f, now, at)
<1>1. clock \in Nat /\ Len(log) + 1 \in Nat
  BY DEF PcTypeOK
<1>2. ASSUME NEW now \in 0..MaxWrites, Edit(f, now)
      PROVE  \E n, at \in Nat : at <= clock /\ Put(f, n, at)
  <2>1. Put(f, now, clock) /\ now \in Nat
    BY <1>2, <1>1 DEF Edit, Put
  <2> QED
    BY <2>1, <1>1
<1>3. ASSUME NEW at \in 1..clock, WriteFile(f, at)
      PROVE  \E n, t \in Nat : t <= clock /\ Put(f, n, t)
  <2>1. Put(f, Len(log) + 1, at) /\ at \in Nat /\ at <= clock
    BY <1>3, <1>1 DEF WriteFile
  <2> QED
    BY <2>1, <1>1
<1> QED
  BY <1>2, <1>3

LEMMA PromptTypesStep == ASSUME PcTypeOK, [PcNext]_pcVars PROVE PcTypeOK'
<1> USE DEF PcTypeOK
<1>1. Nothing \in Entry /\ Compared \subseteq Files
  BY DEF Nothing, Entry, Compared, Files
<1>2. CASE Tick
  BY <1>2 DEF Tick
<1>3. ASSUME NEW f \in Files, NEW now \in Nat, NEW at \in Nat, Put(f, now, at) PROVE PcTypeOK'
  <2>1. [file |-> f, now |-> now, at |-> at, on |-> clock] \in Written
    BY DEF Written
  <2>2. log' \in Seq(Written)
    BY <1>3, <2>1, OneMoreWrite DEF Put, Written
  <2> QED
    BY <1>3, <2>2 DEF Put, Written
<1>4. ASSUME NEW c \in Callers,
             Ask(c) \/ ServeCached(c) \/ Lock(c) \/ StartReading(c) \/ Return(c)
      PROVE  PcTypeOK'
  <2>1. CASE Ask(c)
    BY <2>1, <1>1 DEF Ask
  <2>2. CASE ServeCached(c)
    BY <2>2 DEF ServeCached
  <2>3. CASE Lock(c)
    BY <2>3, <1>1 DEF Lock
  <2>4. CASE StartReading(c)
    BY <2>4 DEF StartReading
  <2>5. CASE Return(c)
    BY <2>5, <1>1 DEF Return
  <2> QED
    BY <1>4, <2>1, <2>2, <2>3, <2>4, <2>5
<1>5. ASSUME NEW c \in Callers, Publish(c) PROVE PcTypeOK'
  <2>1. cache' \in Entry
    BY <1>5 DEF Publish, Baseline, Entry
  <2> QED
    BY <1>5, <2>1 DEF Publish
<1>6. ASSUME NEW c \in Callers, NEW f \in Files, Check(c, f) PROVE PcTypeOK'
  <2>1. CASE ~ChangedSince(f)
    BY <1>6, <2>1 DEF Check
  <2>2. CASE ChangedSince(f) /\ promptPc[c] = "checking"
    BY <1>6, <2>2 DEF Check
  <2>3. CASE ChangedSince(f) /\ promptPc[c] # "checking"
    BY <1>1, <1>6, <2>3 DEF Check
  <2> QED
    BY <2>1, <2>2, <2>3
<1>7. ASSUME NEW c \in Callers, NEW f \in Files, Stat(c, f) PROVE PcTypeOK'
  <2>1. built'[c] \in Entry /\ built' = [built EXCEPT ![c] = built'[c]]
    BY <1>7 DEF Stat, Entry
  <2>2. built' \in [Callers -> Entry]
    BY <2>1
  <2> QED
    BY <1>7, <2>2 DEF Stat
<1>8. ASSUME NEW c \in Callers, NEW f \in Files, Read(c, f) PROVE PcTypeOK'
  <2>1. built'[c] \in Entry /\ built' = [built EXCEPT ![c] = built'[c]]
    <3>1. WithText(built[c], f) \in Entry
      <4>1. built[c] \in Entry /\ content[f] \in Nat /\ Len(log) \in Nat
        OBVIOUS
      <4> QED
        BY <4>1 DEF WithText, Entry
    <3> QED
      BY <1>8, <3>1 DEF Read
  <2>2. built' \in [Callers -> Entry]
    BY <2>1
  <2> QED
    BY <1>8, <2>2 DEF Read
<1>9. CASE UNCHANGED pcVars
  BY <1>9 DEF pcVars
<1> HIDE DEF PcTypeOK
<1>10. ASSUME NEW f \in Files,
              \/ \E now \in 0..MaxWrites : Edit(f, now)
              \/ \E at \in 1..clock : WriteFile(f, at)
       PROVE  PcTypeOK'
  BY <1>3, <1>10, PutShape
<1> QED
  BY <1>2, <1>4, <1>5, <1>6, <1>7, <1>8, <1>9, <1>10 DEF PcNext

\* The variables of the prompt cache keep their types.
THEOREM PromptTypeCorrect == PcSpec => []PcTypeOK
  BY PromptTypesInit, PromptTypesStep, PTL DEF PcSpec

-----------------------------------------------------------------------------
(* The inductive invariant                                                 *)

LEMMA PromptInit == PcInit => PromptInv
  BY DEF PcInit, PromptInv, DiskIsLog, LockHolds, CacheReadFrom, BuiltReadFrom,
    CheckedIsCurrent, ServedIsCurrent, Nothing, Writers, Readers

LEMMA PromptTick == ASSUME PcTypeOK, PromptInv, Tick PROVE PromptInv'
<1> USE DEF Tick, PcTypeOK
<1>1. DiskIsLog'
  <2>1. \A f \in Files : mtime[f] \in Nat /\ mtime[f] <= clock
    BY DEF PromptInv, DiskIsLog
  <2>2. \A f \in Files : mtime'[f] <= clock'
    BY <2>1
  <2>3. UNCHANGED <<log, content, mtime>>
    OBVIOUS
  <2> HIDE DEF Tick, PcTypeOK
  <2> QED
    BY <2>2, <2>3 DEF PromptInv, DiskIsLog
<1>2. LockHolds'
  BY DEF PromptInv, LockHolds, Writers, Readers
<1>3. CacheReadFrom'
  BY DEF PromptInv, CacheReadFrom, Entry
<1>4. BuiltReadFrom'
  BY DEF PromptInv, BuiltReadFrom, Entry
<1>5. CheckedIsCurrent'
  BY DEF PromptInv, CheckedIsCurrent
<1>6. ServedIsCurrent'
  BY DEF PromptInv, ServedIsCurrent
<1> QED
  BY <1>1, <1>2, <1>3, <1>4, <1>5, <1>6 DEF PromptInv

LEMMA PromptWrite ==
  ASSUME PcTypeOK, PromptInv, NEW f \in Files, NEW now \in Nat, NEW at \in Nat, at <= clock,
         Put(f, now, at)
  PROVE  PromptInv'
<1> DEFINE x == [file |-> f, now |-> now, at |-> at, on |-> clock]
<1>1. x \in Written /\ log \in Seq(Written) /\ log' = Append(log, x)
  BY DEF Put, PcTypeOK, Written
<1>2. x.file = f /\ x.now = now /\ x.at = at /\ x.on = clock /\ now \in {0, Len(log) + 1}
  BY DEF Put
<1>3. /\ UNCHANGED <<clock, cache, promptPc, todo, built, start>>
      /\ content' = [content EXCEPT ![f] = now] /\ mtime' = [mtime EXCEPT ![f] = at]
  BY DEF Put
<1> HIDE DEF x
<1>4. /\ Len(log) \in Nat /\ Len(log') = Len(log) + 1
      /\ DOMAIN log = 1..Len(log) /\ DOMAIN log' = 1..(Len(log) + 1)
      /\ \A i \in 1..Len(log) : log[i] \in Written /\ log'[i] = log[i]
      /\ log'[Len(log) + 1] = x
  BY <1>1, OneMoreWrite
<1>5. DiskIsLog'
  <2>1. \A i \in DOMAIN log' : log'[i].now \in {0, i}
    BY <1>2, <1>4 DEF PromptInv, DiskIsLog
  <2>2. ASSUME NEW g \in Files
        PROVE  /\ mtime'[g] <= clock'
               /\ \/ content'[g] = 0 /\ \A k \in DOMAIN log' : log'[k].file # g
                  \/ \E i \in DOMAIN log' :
                       /\ log'[i].file = g /\ log'[i].now = content'[g]
                       /\ log'[i].at = mtime'[g]
                       /\ \A k \in (i + 1)..Len(log') : log'[k].file # g
    <3>1. CASE g = f
      <4>1. content'[g] = now /\ mtime'[g] = at /\ clock' = clock
        BY <3>1, <1>3 DEF PcTypeOK
      <4>2. clock \in Nat /\ \A k \in (Len(log) + 2)..Len(log') : log'[k].file # g
        BY <1>4 DEF PcTypeOK
      <4>3. Len(log) + 1 \in DOMAIN log' /\ (Len(log) + 1) + 1 = Len(log) + 2
        BY <1>4
      <4> QED
        BY <4>1, <4>2, <4>3, <3>1, <1>2, <1>4
    <3>2. CASE g # f
      <4>1. content'[g] = content[g] /\ mtime'[g] = mtime[g] /\ mtime[g] <= clock
        BY <3>2, <1>3 DEF PcTypeOK, PromptInv, DiskIsLog
      <4>2. CASE content[g] = 0 /\ \A k \in DOMAIN log : log[k].file # g
        BY <4>1, <4>2, <3>2, <1>2, <1>3, <1>4
      <4>3. ASSUME NEW i \in DOMAIN log, log[i].file = g, log[i].now = content[g],
                   log[i].at = mtime[g], \A k \in (i + 1)..Len(log) : log[k].file # g
            PROVE  \E j \in DOMAIN log' :
                     /\ log'[j].file = g /\ log'[j].now = content'[g]
                     /\ log'[j].at = mtime'[g]
                     /\ \A k \in (j + 1)..Len(log') : log'[k].file # g
        <5>1. i \in DOMAIN log' /\ log'[i] = log[i]
          BY <1>4
        <5>2. \A k \in (i + 1)..Len(log') : log'[k].file # g
          BY <4>3, <3>2, <1>2, <1>4
        <5> QED
          BY <5>1, <5>2, <4>1, <4>3
      <4> QED
        BY <4>1, <4>2, <4>3, <1>3 DEF PromptInv, DiskIsLog
    <3> QED
      BY <3>1, <3>2
  <2> QED
    BY <2>1, <2>2 DEF DiskIsLog
<1>6. LockHolds'
  BY <1>3, <1>4 DEF PromptInv, LockHolds, Writers, Readers, PcTypeOK
<1>7. CacheReadFrom'
  <2>1. ASSUME cache.valid, NEW g \in Files
        PROVE  ReadFrom(log', 0, g, cache)
    <3>1. cache.at \in Nat /\ cache.at <= clock /\ ReadFrom(log, 0, g, cache)
      BY <2>1 DEF PromptInv, CacheReadFrom, PcTypeOK, Entry
    <3>2. clock \in Nat /\ x.on >= cache.at
      BY <3>1, <1>2 DEF PcTypeOK
    <3> QED
      BY <3>1, <3>2, <1>1, ReadFromGrows
  <2> QED
    BY <2>1, <1>3 DEF CacheReadFrom, PromptInv
<1>8. BuiltReadFrom'
  <2>1. ASSUME NEW c \in Callers, promptPc[c] = "reading", NEW g \in Files \ todo[c]
        PROVE  ReadFrom(log', start[c], g, built[c])
    <3>1. built[c] \in Entry /\ start[c] \in Nat /\ clock \in Nat
      BY DEF PcTypeOK
    <3>2. /\ built[c].at \in Nat /\ built[c].at <= clock
          /\ ReadFrom(log, start[c], g, built[c])
      BY <2>1, <3>1 DEF PromptInv, BuiltReadFrom, Entry
    <3>3. x.on >= built[c].at
      BY <3>1, <3>2, <1>2
    <3> QED
      BY <3>1, <3>2, <3>3, <1>1, ReadFromGrows
  <2> QED
    BY <2>1, <1>3 DEF BuiltReadFrom, PromptInv
<1>9. CheckedIsCurrent'
  <2>1. ASSUME NEW c \in Callers, promptPc[c] \in {"checking", "rechecking"},
               NEW g \in Compared \ todo[c]
        PROVE  CurrentFrom(log', start[c], g, cache)
    <3>1. start[c] \in Nat /\ CurrentFrom(log, start[c], g, cache)
      BY <2>1 DEF PcTypeOK, PromptInv, CheckedIsCurrent
    <3> QED
      BY <3>1, <1>1, CurrentGrows
  <2> QED
    BY <2>1, <1>3 DEF CheckedIsCurrent
<1>10. ServedIsCurrent'
  <2>1. ASSUME NEW c \in Callers, promptPc[c] = "served", NEW g \in Compared
        PROVE  CurrentFrom(log', start[c], g, built[c])
    <3>1. start[c] \in Nat /\ CurrentFrom(log, start[c], g, built[c])
      BY <2>1 DEF PcTypeOK, PromptInv, ServedIsCurrent
    <3> QED
      BY <3>1, <1>1, CurrentGrows
  <2> QED
    BY <2>1, <1>3 DEF ServedIsCurrent
<1> QED
  BY <1>5, <1>6, <1>7, <1>8, <1>9, <1>10 DEF PromptInv

\* What the disk holds was there at this moment of the log.
LEMMA DiskIsNow ==
  ASSUME PcTypeOK, DiskIsLog, NEW f \in Files
  PROVE  WasAt(log, f, content[f], Len(log))
<1>1. Len(log) \in Nat /\ DOMAIN log = 1..Len(log)
  BY DEF PcTypeOK
<1> QED
  BY <1>1 DEF DiskIsLog, WasAt

\* A file that does not show a change since the cache was made is as the cache has it, or
\* its last write cannot be seen.
LEMMA UnchangedIsCurrent ==
  ASSUME PcTypeOK, DiskIsLog, CacheReadFrom, cache.valid, NEW f \in Compared,
         ~ChangedSince(f), NEW n \in Nat, n <= Len(log)
  PROVE  CurrentFrom(log, n, f, cache)
<1> DEFINE m == cache.when[f]
           last == Len(log)
<1>1. /\ last \in Nat /\ DOMAIN log = 1..last /\ f \in Files /\ last \in n..Len(log)
      /\ cache.at \in Nat /\ cache.existed \subseteq Tracked
      /\ \A i \in DOMAIN log : log[i].at \in Nat /\ log[i].on \in Nat
  <2>1. last \in Nat /\ DOMAIN log = 1..last /\ \A i \in DOMAIN log : log[i] \in Written
    <3>1. log \in Seq(Written)
      BY DEF PcTypeOK, Written
    <3> QED
      BY <3>1
  <2>2. f \in Files
    BY DEF Compared, Files
  <2>3. cache.at \in Nat /\ cache.existed \subseteq Tracked
    BY DEF PcTypeOK, Entry
  <2> QED
    BY <2>1, <2>2, <2>3 DEF Written
<1>2. /\ m \in 0..last /\ WasAt(log, f, cache.text[f], m)
      /\ \A k \in (m + 1)..last : log[k].on >= cache.at
  BY <1>1 DEF CacheReadFrom, ReadFrom
<1> HIDE DEF m
<1>3. CASE \A k \in (m + 1)..last : log[k].file # f
  <2>1. WasAt(log, f, cache.text[f], last)
    BY <1>1, <1>2, <1>3 DEF WasAt
  <2> QED
    BY <2>1, <1>1 DEF CurrentFrom
<1>4. ASSUME NEW k \in (m + 1)..last, log[k].file = f PROVE CurrentFrom(log, n, f, cache)
  <2>1. PICK i \in DOMAIN log :
          /\ log[i].file = f /\ log[i].now = content[f] /\ log[i].at = mtime[f]
          /\ \A j \in (i + 1)..Len(log) : log[j].file # f
    <3>1. k \in DOMAIN log
      BY <1>1, <1>2, <1>4
    <3> QED
      BY <1>1, <1>4, <3>1 DEF DiskIsLog
  <2>2. i \in (m + 1)..last /\ i \in 1..last /\ i > m /\ log[i].on >= cache.at
    BY <2>1, <1>1, <1>2, <1>4
  <2>3. Invisible(log[i], cache)
    <3>1. CASE Exists(f)
      <4>1. ~(mtime[f] > cache.at)
        BY <3>1 DEF ChangedSince
      <4>2. log[i].at = cache.at \/ (log[i].at < cache.at /\ log[i].at < log[i].on)
        BY <4>1, <2>1, <2>2, <1>1
      <4> QED
        BY <4>2 DEF Invisible
    <3>2. CASE ~Exists(f)
      <4>1. log[i].now = 0
        BY <3>2, <2>1 DEF Exists
      <4>2. f \notin cache.existed
        BY <3>2, <1>1 DEF ChangedSince
      <4> QED
        BY <4>1, <4>2, <2>1 DEF Invisible
    <3> QED
      BY <3>1, <3>2
  <2>4. Missed(log, f, cache, last)
    BY <2>1, <2>2, <2>3 DEF Missed, m
  <2> QED
    BY <2>4, <1>1 DEF CurrentFrom
<1> QED
  BY <1>3, <1>4

\* What the steps of a call leave alone.
CallOnly(c) ==
  /\ UNCHANGED <<clock, log, content, mtime>>
  /\ \A d \in Callers \ {c} : /\ promptPc'[d] = promptPc[d] /\ todo'[d] = todo[d]
                              /\ built'[d] = built[d] /\ start'[d] = start[d]

LEMMA CallersApart ==
  ASSUME PcTypeOK, NEW c \in Callers,
         \/ Ask(c) \/ ServeCached(c) \/ Lock(c) \/ StartReading(c) \/ Publish(c) \/ Return(c)
         \/ \E f \in Files : Check(c, f) \/ Stat(c, f) \/ Read(c, f)
  PROVE  CallOnly(c) /\ DiskIsLog' = DiskIsLog
<1>1. CallOnly(c)
  <2> USE DEF PcTypeOK, CallOnly
  <2>1. CASE Ask(c)
    BY <2>1 DEF Ask
  <2>2. CASE ServeCached(c)
    BY <2>2 DEF ServeCached
  <2>3. CASE Lock(c)
    BY <2>3 DEF Lock
  <2>4. CASE StartReading(c)
    BY <2>4 DEF StartReading
  <2>5. CASE Return(c)
    BY <2>5 DEF Return
  <2>6. CASE Publish(c)
    BY <2>6 DEF Publish
  <2>7. ASSUME NEW f \in Files, Check(c, f) PROVE CallOnly(c)
    BY <2>7 DEF Check
  <2>8. ASSUME NEW f \in Files, Stat(c, f) PROVE CallOnly(c)
    BY <2>8 DEF Stat
  <2>9. ASSUME NEW f \in Files, Read(c, f) PROVE CallOnly(c)
    BY <2>9 DEF Read
  <2> QED
    BY <2>1, <2>2, <2>3, <2>4, <2>5, <2>6, <2>7, <2>8, <2>9
<1> QED
  BY <1>1 DEF CallOnly, DiskIsLog

\* The invariant of each caller, but for the cache.
CallerSound(c) ==
  /\ promptPc[c] \in {"checking", "rechecking"} => cache.valid
  /\ start[c] <= Len(log)
  /\ promptPc[c] \in {"statting", "reading"} => built[c].at <= clock
  /\ promptPc[c] = "reading" =>
       \A f \in Files \ todo[c] : ReadFrom(log, start[c], f, built[c])
  /\ promptPc[c] \in {"checking", "rechecking"} =>
       \A f \in Compared \ todo[c] : CurrentFrom(log, start[c], f, cache)
  /\ promptPc[c] = "served" => \A f \in Compared : CurrentFrom(log, start[c], f, built[c])

OneWriter == (\A c, d \in Writers : c = d) /\ (Writers # {} => Readers = {})

LEMMA PromptParts ==
  PromptInv <=> DiskIsLog /\ OneWriter /\ CacheReadFrom /\ \A c \in Callers : CallerSound(c)
  BY DEF PromptInv, LockHolds, BuiltReadFrom, CheckedIsCurrent, ServedIsCurrent, CallerSound,
    OneWriter

\* Where the cache stays and no caller comes to write beside another one, it is enough
\* to look at c.
LEMMA OneCaller ==
  ASSUME PcTypeOK, PromptInv, NEW c \in Callers, CallOnly(c), DiskIsLog' = DiskIsLog, cache' = cache,
         CallerSound(c)',
         \/ promptPc'[c] \notin {"checking", "rechecking", "statting", "reading"}
         \/ promptPc'[c] = promptPc[c]
         \/ promptPc[c] \in {"rechecking", "statting", "reading"}
              /\ promptPc'[c] \in {"rechecking", "statting", "reading"}
         \/ promptPc'[c] = "checking" /\ Writers = {}
         \/ Writers = {} /\ Readers = {}
  PROVE  PromptInv'
<1>1. \A d \in Callers : CallerSound(d)'
  BY DEF PromptInv, LockHolds, BuiltReadFrom, CheckedIsCurrent, ServedIsCurrent, CallerSound,
    CallOnly
<1>2. OneWriter'
  BY PromptParts DEF OneWriter, Writers, Readers, CallOnly
<1>3. CacheReadFrom'
  BY PromptParts DEF CacheReadFrom, CallOnly
<1>4. DiskIsLog'
  BY PromptParts
<1> QED
  BY <1>1, <1>2, <1>3, <1>4 DEF PromptInv, LockHolds, BuiltReadFrom, CheckedIsCurrent,
    ServedIsCurrent, CallerSound, OneWriter

LEMMA PromptAsk == ASSUME PcTypeOK, PromptInv, NEW c \in Callers, Ask(c), CallOnly(c),
                          DiskIsLog' = DiskIsLog
                   PROVE  PromptInv'
<1>1. /\ cache' = cache /\ Writers = {} /\ todo'[c] = Compared /\ start'[c] = Len(log)
      /\ promptPc'[c] = IF cache.valid THEN "checking" ELSE "locking"
  BY DEF Ask, PcTypeOK
<1>2. CallerSound(c)'
  <2>1. Len(log) \in Nat /\ log' = log
    BY DEF PcTypeOK, CallOnly
  <2> QED
    BY <1>1, <2>1 DEF CallerSound
<1> QED
  BY <1>1, <1>2, OneCaller

LEMMA PromptCheck ==
  ASSUME PcTypeOK, PromptInv, NEW c \in Callers, NEW f \in Files, Check(c, f), CallOnly(c),
         DiskIsLog' = DiskIsLog
  PROVE  PromptInv'
<1>1. cache' = cache /\ start' = start /\ log' = log /\ clock' = clock /\ clock \in Nat
  BY DEF Check, CallOnly, PcTypeOK
<1>2. CallerSound(c) /\ promptPc[c] \in {"checking", "rechecking"} /\ cache.valid
  BY PromptParts DEF Check, CallerSound
<1>3. CASE ChangedSince(f) /\ promptPc[c] = "checking"
  <2>1. promptPc'[c] = "locking"
    BY <1>3 DEF Check, PcTypeOK
  <2>2. CallerSound(c)'
    BY <2>1, <1>1, <1>2 DEF CallerSound
  <2> QED
    BY <2>1, <2>2, <1>1, OneCaller
<1>4. CASE ChangedSince(f) /\ promptPc[c] = "rechecking"
  <2>1. promptPc'[c] = "statting" /\ built'[c].at = 0
    BY <1>4 DEF Check, PcTypeOK, Nothing
  <2>2. CallerSound(c)'
    BY <2>1, <1>1, <1>2 DEF CallerSound
  <2> QED
    BY <2>1, <2>2, <1>1, <1>4, OneCaller
<1>5. CASE ~ChangedSince(f)
  <2>1. promptPc' = promptPc /\ built' = built /\ todo'[c] = todo[c] \ {f}
    BY <1>5, <1>2 DEF Check, PcTypeOK
  <2>2. f \in Compared => CurrentFrom(log, start[c], f, cache)
    BY <1>5, <1>2, PromptParts, UnchangedIsCurrent DEF CallerSound, PcTypeOK
  <2>3. CallerSound(c)'
    BY <2>1, <2>2, <1>1, <1>2 DEF CallerSound
  <2> QED
    BY <2>1, <2>3, <1>1, OneCaller
<1> QED
  BY <1>2, <1>3, <1>4, <1>5

LEMMA PromptServeCached ==
  ASSUME PcTypeOK, PromptInv, NEW c \in Callers, ServeCached(c), CallOnly(c),
         DiskIsLog' = DiskIsLog
  PROVE  PromptInv'
<1>1. /\ cache' = cache /\ start' = start /\ log' = log /\ todo[c] = {}
      /\ promptPc'[c] = "served" /\ built'[c] = cache
      /\ promptPc[c] \in {"checking", "rechecking"}
  BY DEF ServeCached, CallOnly, PcTypeOK
<1>2. CallerSound(c)'
  BY <1>1, PromptParts DEF CallerSound
<1> QED
  BY <1>1, <1>2, OneCaller

LEMMA PromptLock == ASSUME PcTypeOK, PromptInv, NEW c \in Callers, Lock(c), CallOnly(c),
                           DiskIsLog' = DiskIsLog
                    PROVE  PromptInv'
<1>1. /\ cache' = cache /\ start' = start /\ log' = log /\ clock' = clock /\ clock \in Nat
      /\ Writers = {} /\ Readers = {} /\ todo'[c] = Compared /\ built'[c].at = 0
      /\ promptPc'[c] = IF cache.valid THEN "rechecking" ELSE "statting"
  BY DEF Lock, CallOnly, PcTypeOK, Nothing
<1>2. CallerSound(c)'
  BY <1>1, PromptParts DEF CallerSound
<1> QED
  BY <1>1, <1>2, OneCaller

LEMMA PromptStat ==
  ASSUME PcTypeOK, PromptInv, NEW c \in Callers, NEW f \in Files, Stat(c, f), CallOnly(c),
         DiskIsLog' = DiskIsLog
  PROVE  PromptInv'
<1>1. /\ cache' = cache /\ start' = start /\ log' = log /\ clock' = clock
      /\ promptPc' = promptPc /\ promptPc[c] = "statting"
  BY DEF Stat, CallOnly, PcTypeOK
<1>2. built'[c].at \in {built[c].at, mtime[f]}
  BY DEF Stat, PcTypeOK
<1>3. mtime[f] <= clock /\ CallerSound(c)
  BY PromptParts DEF DiskIsLog
<1>4. CallerSound(c)'
  BY <1>1, <1>2, <1>3 DEF CallerSound
<1> QED
  BY <1>1, <1>4, OneCaller

LEMMA PromptStartReading ==
  ASSUME PcTypeOK, PromptInv, NEW c \in Callers, StartReading(c), CallOnly(c),
         DiskIsLog' = DiskIsLog
  PROVE  PromptInv'
<1>1. /\ cache' = cache /\ start' = start /\ log' = log /\ clock' = clock /\ built' = built
      /\ promptPc'[c] = "reading" /\ promptPc[c] = "statting" /\ todo'[c] = Files
  BY DEF StartReading, CallOnly, PcTypeOK
<1>2. CallerSound(c)'
  BY <1>1, PromptParts DEF CallerSound
<1> QED
  BY <1>1, <1>2, OneCaller

LEMMA PromptRead ==
  ASSUME PcTypeOK, PromptInv, NEW c \in Callers, NEW f \in Files, Read(c, f), CallOnly(c),
         DiskIsLog' = DiskIsLog
  PROVE  PromptInv'
<1>1. /\ cache' = cache /\ start' = start /\ log' = log /\ clock' = clock
      /\ promptPc' = promptPc /\ promptPc[c] = "reading" /\ todo'[c] = todo[c] \ {f}
  BY DEF Read, CallOnly, PcTypeOK
<1>2. built'[c] = WithText(built[c], f)
  BY DEF Read, PcTypeOK
<1>3. /\ built[c].text \in [Files -> Nat] /\ built[c].when \in [Files -> Nat]
      /\ start[c] \in Nat /\ Len(log) \in Nat
  <2>1. built[c] \in Entry /\ start[c] \in Nat /\ Len(log) \in Nat
    BY DEF PcTypeOK
  <2>2. built[c].text \in [Files -> Nat] /\ built[c].when \in [Files -> Nat]
    BY <2>1 DEF Entry
  <2> QED
    BY <2>1, <2>2
<1>4. CallerSound(c)
  BY PromptParts
<1>5. /\ built'[c].at = built[c].at
      /\ built'[c].text = [built[c].text EXCEPT ![f] = content[f]]
      /\ built'[c].when = [built[c].when EXCEPT ![f] = Len(log)]
  BY <1>2 DEF WithText
<1>6. ASSUME NEW g \in Files \ todo'[c]
      PROVE  ReadFrom(log, start[c], g, built'[c])
  <2>1. CASE g = f
    <3>1. built'[c].text[g] = content[f] /\ built'[c].when[g] = Len(log)
      BY <1>3, <1>5, <2>1
    <3>2. WasAt(log, f, content[f], Len(log)) /\ start[c] <= Len(log)
      BY <1>4, DiskIsNow, PromptParts DEF CallerSound
    <3> QED
      BY <1>3, <2>1, <3>1, <3>2 DEF ReadFrom
  <2>2. CASE g # f
    <3>1. built'[c].text[g] = built[c].text[g] /\ built'[c].when[g] = built[c].when[g]
      BY <1>3, <1>5, <2>2
    <3>2. ReadFrom(log, start[c], g, built[c])
      BY <1>1, <1>4, <2>2 DEF CallerSound
    <3> QED
      BY <1>5, <3>1, <3>2 DEF ReadFrom
  <2> QED
    BY <2>1, <2>2
<1>7. CallerSound(c)'
  BY <1>1, <1>4, <1>5, <1>6 DEF CallerSound
<1> QED
  BY <1>1, <1>7, OneCaller

LEMMA PromptReturn ==
  ASSUME PcTypeOK, PromptInv, NEW c \in Callers, Return(c), CallOnly(c), DiskIsLog' = DiskIsLog
  PROVE  PromptInv'
<1>1. cache' = cache /\ start'[c] = 0 /\ log' = log /\ promptPc'[c] = "idle"
  BY DEF Return, CallOnly, PcTypeOK
<1>2. Len(log) \in Nat
  BY DEF PcTypeOK
<1>3. CallerSound(c)'
  BY <1>1, <1>2, PromptParts DEF CallerSound
<1> QED
  BY <1>1, <1>3, OneCaller

\* Whoever publishes has the lock to itself, so that no other caller looks at the cache.
LEMMA PromptPublish ==
  ASSUME PcTypeOK, PromptInv, NEW c \in Callers, Publish(c), CallOnly(c), DiskIsLog' = DiskIsLog
  PROVE  PromptInv'
<1>1. /\ start' = start /\ log' = log /\ clock' = clock /\ todo[c] = {}
      /\ promptPc'[c] = "served" /\ promptPc[c] = "reading" /\ built'[c] = cache'
      /\ cache'.text = built[c].text /\ cache'.when = built[c].when
      /\ cache'.at = built[c].at /\ cache'.valid
  BY DEF Publish, CallOnly, PcTypeOK, Baseline
<1>2. CallerSound(c) /\ start[c] \in Nat /\ Len(log) \in Nat
  BY PromptParts DEF PcTypeOK
<1>3. c \in Writers /\ \A d \in Callers \ {c} :
        promptPc[d] \notin {"checking", "rechecking", "statting", "reading"}
  BY <1>1, PromptParts DEF OneWriter, Writers, Readers
<1>4. CallerSound(c)'
  <2>1. ASSUME NEW f \in Compared PROVE CurrentFrom(log, start[c], f, cache')
    <3>1. ReadFrom(log, start[c], f, built[c])
      BY <1>1, <1>2 DEF CallerSound, Compared, Files
    <3> QED
      BY <3>1, <1>1 DEF ReadFrom, CurrentFrom
  <2> QED
    BY <2>1, <1>1, <1>2 DEF CallerSound
<1>5. \A d \in Callers : CallerSound(d)'
  <2>1. ASSUME NEW d \in Callers \ {c} PROVE CallerSound(d)'
    <3>1. /\ promptPc'[d] = promptPc[d] /\ built'[d] = built[d] /\ todo'[d] = todo[d]
          /\ promptPc[d] \notin {"checking", "rechecking", "statting", "reading"}
      BY <1>3, <2>1 DEF CallOnly
    <3> QED
      BY <3>1, <1>1, PromptParts DEF CallerSound
  <2> QED
    BY <2>1, <1>4
<1>6. OneWriter'
  BY <1>1, <1>3 DEF OneWriter, Writers, Readers, CallOnly
<1>7. CacheReadFrom'
  <2>1. ASSUME NEW f \in Files PROVE ReadFrom(log, 0, f, cache')
    <3>1. ReadFrom(log, start[c], f, built[c])
      BY <1>1, <1>2 DEF CallerSound
    <3> QED
      BY <3>1, <1>1, <1>2 DEF ReadFrom
  <2> QED
    BY <2>1, <1>1, <1>2 DEF CacheReadFrom, CallerSound
<1>8. DiskIsLog'
  BY PromptParts
<1> QED
  BY <1>5, <1>6, <1>7, <1>8 DEF PromptInv, LockHolds, BuiltReadFrom, CheckedIsCurrent,
    ServedIsCurrent, CallerSound, OneWriter

LEMMA PromptStep == ASSUME PcTypeOK, PromptInv, [PcNext]_pcVars PROVE PromptInv'
<1>1. CASE Tick
  BY <1>1, PromptTick
<1>2. ASSUME NEW f \in Files,
             \/ \E now \in 0..MaxWrites : Edit(f, now)
             \/ \E at \in 1..clock : WriteFile(f, at)
      PROVE  PromptInv'
  BY <1>2, PutShape, PromptWrite
<1>3. ASSUME NEW c \in Callers, NEW f \in Files, Check(c, f) \/ Stat(c, f) \/ Read(c, f)
      PROVE  PromptInv'
  <2>1. CallOnly(c) /\ DiskIsLog' = DiskIsLog
    BY <1>3, CallersApart
  <2> QED
    BY <2>1, <1>3, PromptCheck, PromptStat, PromptRead
<1>4. ASSUME NEW c \in Callers,
             Ask(c) \/ ServeCached(c) \/ Lock(c) \/ StartReading(c) \/ Publish(c) \/ Return(c)
      PROVE  PromptInv'
  <2>1. CallOnly(c) /\ DiskIsLog' = DiskIsLog
    BY <1>4, CallersApart
  <2> QED
    BY <2>1, <1>4, PromptAsk, PromptServeCached, PromptLock, PromptStartReading, PromptPublish,
      PromptReturn
<1>5. CASE UNCHANGED pcVars
  BY <1>5 DEF pcVars, PromptInv, DiskIsLog, LockHolds, CacheReadFrom, BuiltReadFrom,
    CheckedIsCurrent, ServedIsCurrent, Writers, Readers
<1> QED
  BY <1>1, <1>2, <1>3, <1>4, <1>5 DEF PcNext

LEMMA PromptImplies == ASSUME PcTypeOK, PromptInv PROVE PromptIsCurrent
  BY DEF PromptInv, ServedIsCurrent, PromptIsCurrent

\* However edits, renames, removals, ticks of the clock and the looks of the callers
\* interleave, a prompt that is served has each file as it was during the call, unless what
\* it was then came from a write after the reading that existence and time do not show: in the
\* very tick of the baseline, by a rename that brought an earlier time, or a removal where the
\* baseline does not know the file.
THEOREM PromptIsCurrentHolds == PcSpec => []PromptIsCurrent
<1>1. PcInit => PcTypeOK /\ PromptInv
  BY PromptTypesInit, PromptInit
<1>2. (PcTypeOK /\ PromptInv) /\ [PcNext]_pcVars => (PcTypeOK /\ PromptInv)'
  BY PromptTypesStep, PromptStep
<1>3. PcTypeOK /\ PromptInv => PromptIsCurrent
  BY PromptImplies
<1> QED
  BY <1>1, <1>2, <1>3, PTL DEF PcSpec

(***************************************************************************)
(* Credentials                                                             *)
(***************************************************************************)

TokenUsers == {"use", "models"}
Logins == {"login", "device", "deviceCommand"}
Logouts == {"logout", "logoutAlias"}

Cred == {None} \cup [access : 1..MaxIssued, refresh : 0..MaxIssued, project : BOOLEAN]
CredKinds == {"none", "logoutAll"} \cup TokenUsers \cup Logins \cup Logouts
CredSteps == {"idle", "get", "refresh", "project", "browser", "poll", "exchange", "request",
              "load", "save", "loadConfig", "saveConfig"}
TaskType ==
  [kind : CredKinds, step : CredSteps, provider : AuthProviders \cup {NoProvider},
   cred : Cred, base : Cred, store : [AuthProviders -> Cred], methods : SUBSET AuthProviders]

CrTypes ==
  /\ file \in [AuthProviders -> Cred] /\ config \subseteq AuthProviders
  /\ accepted \subseteq 1..MaxIssued /\ issued \in 0..MaxIssued /\ due \subseteq 1..MaxIssued
  /\ task \in [AuthProcs -> TaskType]
  /\ sessions \subseteq States /\ active \in AuthProcs \cup {Nobody} /\ ops \in 0..MaxOps
  /\ redeemed \in [States -> 0..1]
  /\ out \subseteq AuthProviders /\ lapsed \subseteq AuthProviders /\ unsure \subseteq AuthProviders

\* Which kind of operation is at which step, and what it holds there.
CredPath(r) ==
  /\ r.kind = "none" <=> r.step = "idle"
  /\ r.kind \notin {"none", "logoutAll"} => r.provider \in AuthProviders
  /\ r.kind \in TokenUsers =>
       /\ r.step \in {"get", "refresh", "project", "load", "save"}
       /\ r.step # "get" => r.base # None
       /\ r.step \in {"refresh", "project"} => r.cred = r.base
       /\ r.step = "refresh" => r.cred.refresh # 0
       /\ r.step \in {"load", "save"} =>
            r.cred # None /\ (r.base.refresh # 0 => r.cred.refresh # 0)
  /\ r.kind \in Logins =>
       /\ r.step \in {"browser", "poll", "exchange", "request", "load", "save", "loadConfig",
                      "saveConfig"}
       /\ r.base = None
       /\ r.step \in {"browser", "poll", "exchange", "request"} => r.cred = None
       /\ r.step \in {"load", "save"} => r.cred # None
  /\ r.kind \in Logouts =>
       r.step \in {"load", "save", "loadConfig", "saveConfig"} /\ r.cred = None /\ r.base = None
  /\ r.kind = "logoutAll" =>
       r.step \in {"loadConfig", "saveConfig"} /\ r.cred = None /\ r.base = None
  /\ r.kind = "none" => r = Idle

\* Operation r has refresh token t of provider x.
Has(r, x, t) ==
  r.store[x].refresh = t \/ (r.provider = x /\ t \in {r.cred.refresh, r.base.refresh})

\* Refresh token t belongs to provider x, wherever a process or the file has it.
Owns(x, t) == file[x].refresh = t \/ \E q \in AuthProcs : Has(task[q], x, t)

TokensApart ==
  \A x \in AuthProviders, t \in Nat \ {0} : Owns(x, t) =>
    t <= issued /\ \A y \in AuthProviders : Owns(y, t) => x = y

\* The token q is about to store is accepted, and nobody else has it.
FreshToken(q) ==
  LET t == task[q].cred.refresh IN
  /\ t \in accepted /\ t # task[q].base.refresh
  /\ \A x \in AuthProviders : file[x].refresh # t /\ task[q].store[x].refresh # t
  /\ \A r \in AuthProcs \ {q} : \A x \in AuthProviders : ~Has(task[r], x, t)

Storing(q) == task[q].step \in {"load", "save"}

TokensStored ==
  \A q \in AuthProcs : Storing(q) =>
    IF Refreshing(q) THEN task[q].cred.refresh = task[q].base.refresh \/ FreshToken(q)
    ELSE task[q].cred.refresh = 0 \/ FreshToken(q)

FileTokens ==
  \A x \in AuthProviders \ lapsed : file[x].refresh # 0 =>
    \/ file[x].refresh \in accepted
    \/ \E q \in AuthProcs : Storing(q) /\ Refreshing(q) /\ X(q) = x /\ FreshToken(q)

CredInv ==
  /\ \A q \in AuthProcs : CredPath(task[q])
  /\ TokensApart /\ TokensStored /\ FileTokens
  /\ LoggedOutStays /\ ConfigFollows
  /\ \A s \in sessions : redeemed[s] = 0

-----------------------------------------------------------------------------
(* Records                                                                 *)

LEMMA CredMade ==
  ASSUME NEW a \in 1..MaxIssued, NEW t \in 0..MaxIssued, NEW p \in BOOLEAN
  PROVE  /\ [access |-> a, refresh |-> t, project |-> p] \in Cred
         /\ [access |-> a, refresh |-> t, project |-> p] # None
  BY AuthAssumption DEF Cred, None

LEMMA CredFields ==
  /\ None \in Cred /\ None.refresh = 0
  /\ \A c \in Cred : c.refresh \in 0..MaxIssued /\ c.access \in 0..MaxIssued
  BY AuthAssumption DEF Cred, None

LEMMA CredProject == \A c \in Cred : c.project \in BOOLEAN
<1>1. None.project \in BOOLEAN
  BY DEF None
<1>2. ASSUME NEW c \in [access : 1..MaxIssued, refresh : 0..MaxIssued, project : BOOLEAN]
      PROVE  c.project \in BOOLEAN
  OBVIOUS
<1> QED
  BY <1>1, <1>2, Zenon DEF Cred

LEMMA CredThere == \A c \in Cred : c # None => c.access \in 1..MaxIssued
  BY DEF Cred

LEMMA WorkTyped ==
  ASSUME NEW kind \in CredKinds, NEW x \in AuthProviders \cup {NoProvider}, NEW step \in CredSteps
  PROVE  /\ Work(kind, x, step) \in TaskType
         /\ Work(kind, x, step).kind = kind /\ Work(kind, x, step).provider = x
         /\ Work(kind, x, step).step = step
         /\ Work(kind, x, step).cred = None /\ Work(kind, x, step).base = None
         /\ \A y \in AuthProviders : Work(kind, x, step).store[y] = None
  BY CredFields DEF Work, TaskType

LEMMA IdleTyped ==
  /\ Idle \in TaskType /\ CredPath(Idle) /\ Idle.kind = "none" /\ Idle.step = "idle"
  /\ Idle.cred = None /\ Idle.base = None /\ \A y \in AuthProviders : Idle.store[y] = None
<1>1. "none" \in CredKinds /\ "idle" \in CredSteps
  BY DEF CredKinds, CredSteps
<1>2. /\ Idle \in TaskType /\ Idle.kind = "none" /\ Idle.step = "idle"
      /\ Idle.cred = None /\ Idle.base = None /\ \A y \in AuthProviders : Idle.store[y] = None
  BY <1>1, WorkTyped DEF Idle
<1>3. CredPath(Idle)
  BY <1>2 DEF CredPath, TokenUsers, Logins, Logouts
<1> QED
  BY <1>2, <1>3

LEMMA StepSet ==
  ASSUME NEW r \in TaskType, NEW s \in CredSteps
  PROVE  LET n == [r EXCEPT !.step = s] IN
         /\ n \in TaskType /\ n.step = s /\ n.kind = r.kind /\ n.provider = r.provider
         /\ n.cred = r.cred /\ n.base = r.base /\ n.store = r.store /\ n.methods = r.methods
  BY DEF TaskType

LEMMA CredSet ==
  ASSUME NEW r \in TaskType, NEW c \in Cred
  PROVE  LET n == [r EXCEPT !.cred = c] IN
         /\ n \in TaskType /\ n.step = r.step /\ n.kind = r.kind /\ n.provider = r.provider
         /\ n.cred = c /\ n.base = r.base /\ n.store = r.store /\ n.methods = r.methods
  BY DEF TaskType

LEMMA BaseSet ==
  ASSUME NEW r \in TaskType, NEW c \in Cred
  PROVE  LET n == [r EXCEPT !.base = c] IN
         /\ n \in TaskType /\ n.step = r.step /\ n.kind = r.kind /\ n.provider = r.provider
         /\ n.cred = r.cred /\ n.base = c /\ n.store = r.store /\ n.methods = r.methods
  BY DEF TaskType

LEMMA StoreSet ==
  ASSUME NEW r \in TaskType, NEW f \in [AuthProviders -> Cred]
  PROVE  LET n == [r EXCEPT !.store = f] IN
         /\ n \in TaskType /\ n.step = r.step /\ n.kind = r.kind /\ n.provider = r.provider
         /\ n.cred = r.cred /\ n.base = r.base /\ n.store = f /\ n.methods = r.methods
  BY DEF TaskType

LEMMA MethodsSet ==
  ASSUME NEW r \in TaskType, NEW m \in SUBSET AuthProviders
  PROVE  LET n == [r EXCEPT !.methods = m] IN
         /\ n \in TaskType /\ n.step = r.step /\ n.kind = r.kind /\ n.provider = r.provider
         /\ n.cred = r.cred /\ n.base = r.base /\ n.store = r.store /\ n.methods = m
  BY DEF TaskType

\* The record of q is replaced, and no other.
TaskStep(q) ==
  /\ task' \in [AuthProcs -> TaskType] /\ CredPath(task'[q])
  /\ \A r \in AuthProcs \ {q} : task'[r] = task[r]

TaskFits(q) == task \in [AuthProcs -> TaskType] /\ CredPath(task[q])

LEMMA SetStep ==
  ASSUME NEW q \in AuthProcs, TaskFits(q), NEW r \in TaskType, CredPath(r), Set(q, r)
  PROVE  TaskStep(q) /\ task'[q] = r
<1> HIDE DEF CredPath
<1> QED
  BY DEF TaskStep, Set, TaskFits

LEMMA DoneStep == ASSUME NEW q \in AuthProcs, TaskFits(q), Done(q)
                  PROVE  TaskStep(q) /\ task'[q] = Idle
  BY SetStep, IdleTyped DEF Done

-----------------------------------------------------------------------------
(* What each operation does to its own record                              *)

Same(r, n) == /\ n.kind = r.kind /\ n.provider = r.provider /\ n.cred = r.cred
              /\ n.base = r.base /\ n.store = r.store

Ready(q) == /\ file \in [AuthProviders -> Cred] /\ issued \in 0..MaxIssued
            /\ config \subseteq AuthProviders /\ TaskFits(q) /\ q \in AuthProcs

\* An operation begins with nothing in its hands.
Begins(q) ==
  /\ TaskStep(q) /\ task[q] = Idle
  /\ task'[q].cred = None /\ task'[q].base = None
  /\ \A y \in AuthProviders : task'[q].store[y] = None
  /\ task'[q].step \in {"load", "save"} => task'[q].kind \notin TokenUsers

LEMMA BeginStep ==
  ASSUME NEW q, Ready(q), NEW kind \in CredKinds, NEW step \in CredSteps,
         NEW x \in AuthProviders \cup {NoProvider}, BeginWork(q, kind, x, step),
         \/ kind \in TokenUsers /\ step = "get" /\ x \in AuthProviders
         \/ /\ kind \in Logins /\ step \in {"browser", "poll", "exchange", "request"}
            /\ x \in AuthProviders
         \/ kind \in Logouts /\ step = "load" /\ x \in AuthProviders
         \/ kind = "logoutAll" /\ step = "loadConfig"
  PROVE  Begins(q) /\ task'[q].kind = kind /\ task'[q].step = step /\ task'[q].provider = x
<1>1. /\ Work(kind, x, step) \in TaskType
      /\ Work(kind, x, step).kind = kind /\ Work(kind, x, step).provider = x
      /\ Work(kind, x, step).step = step
      /\ Work(kind, x, step).cred = None /\ Work(kind, x, step).base = None
      /\ \A y \in AuthProviders : Work(kind, x, step).store[y] = None
  BY WorkTyped
<1>2. CredPath(Work(kind, x, step))
  BY <1>1 DEF CredPath, TokenUsers, Logins, Logouts
<1>3. TaskStep(q) /\ task'[q] = Work(kind, x, step)
  BY <1>1, <1>2, SetStep DEF BeginWork, Ready
<1>4. task[q] = Idle
  BY DEF BeginWork, At, Ready, TaskFits, CredPath
<1> QED
  BY <1>1, <1>3, <1>4 DEF Begins, TokenUsers, Logins, Logouts

LEMMA SomeBegins ==
  ASSUME NEW q, Ready(q),
         \/ UseBegin(q) \/ LoginCommand(q) \/ DeviceLogin(q) \/ Logout(q) \/ LogoutAlias(q)
         \/ \E s \in States : OAuthCallback(q, s)
  PROVE  Begins(q)
<1>1. /\ TokenUsers \subseteq CredKinds /\ Logins \subseteq CredKinds /\ Logouts \subseteq CredKinds
      /\ {"get", "browser", "poll", "exchange", "request", "load"} \subseteq CredSteps
      /\ Projects \subseteq AuthProviders
  BY AuthAssumption DEF CredKinds, CredSteps
<1>2. CASE UseBegin(q)
  <2>1. PICK x \in AuthProviders, kind \in {"use", "models"} : BeginWork(q, kind, x, "get")
    BY <1>2 DEF UseBegin
  <2> QED
    BY <2>1, <1>1, BeginStep DEF TokenUsers
<1>3. CASE LoginCommand(q)
  <2>1. PICK x \in AuthProviders : \/ BeginWork(q, "login", x, "browser")
                                   \/ BeginWork(q, "login", x, "exchange")
                                   \/ BeginWork(q, "deviceCommand", x, "poll")
    BY <1>3 DEF LoginCommand
  <2> QED
    BY <2>1, <1>1, BeginStep DEF Logins
<1>4. CASE DeviceLogin(q)
  <2>1. PICK x \in AuthProviders : BeginWork(q, "device", x, "request")
    BY <1>4 DEF DeviceLogin
  <2> QED
    BY <2>1, <1>1, BeginStep DEF Logins
<1>5. CASE Logout(q)
  <2>1. PICK x \in AuthProviders : BeginWork(q, "logout", x, "load")
    BY <1>5 DEF Logout
  <2> QED
    BY <2>1, <1>1, BeginStep DEF Logouts
<1>6. CASE LogoutAlias(q)
  <2>1. PICK x \in AuthProviders : BeginWork(q, "logoutAlias", x, "load")
    BY <1>6, <1>1 DEF LogoutAlias
  <2> QED
    BY <2>1, <1>1, BeginStep DEF Logouts
<1>7. ASSUME NEW s \in States, OAuthCallback(q, s) PROVE Begins(q)
  <2>1. PICK x \in AuthProviders : BeginWork(q, "login", x, "exchange")
    BY <1>7, <1>1 DEF OAuthCallback
  <2> QED
    BY <2>1, <1>1, BeginStep DEF Logins
<1> QED
  BY <1>2, <1>3, <1>4, <1>5, <1>6, <1>7

LEMMA LogoutAllBegins == ASSUME NEW q, Ready(q), LogoutAll(q)
                         PROVE  /\ Begins(q) /\ task'[q].kind = "logoutAll"
                                /\ task'[q].step = "loadConfig"
<1>1. "logoutAll" \in CredKinds /\ "loadConfig" \in CredSteps
  BY DEF CredKinds, CredSteps
<1> QED
  BY <1>1, BeginStep DEF LogoutAll

\* The credential read is at hand, for a refresh or for the project.
Continues(q, cred) ==
  /\ TaskStep(q)
  /\ \/ task'[q] = Idle
     \/ /\ task'[q].kind = task[q].kind /\ task'[q].provider = X(q)
        /\ task'[q].cred = cred /\ task'[q].base = cred /\ task'[q].store = task[q].store
        /\ task'[q].step \in {"refresh", "project"}

LEMMA ContinueStep ==
  ASSUME NEW q, Ready(q), NEW cred \in Cred, cred # None, task[q].kind \in TokenUsers,
         NEW step \in {"idle", "refresh", "project"}, step = "refresh" => cred.refresh # 0,
         Continue(q, cred, step)
  PROVE  Continues(q, cred)
<1>1. CASE step = "idle"
  BY <1>1, DoneStep DEF Continue, Continues, Ready
<1>2. CASE step # "idle"
  <2> DEFINE r1 == [task[q] EXCEPT !.step = step]
             r2 == [r1 EXCEPT !.cred = cred]
             r3 == [r2 EXCEPT !.base = cred]
  <2>1. task[q] \in TaskType /\ step \in CredSteps
    BY DEF Ready, TaskFits, CredSteps
  <2>2. /\ r1 \in TaskType /\ r1.step = step /\ r1.kind = task[q].kind
        /\ r1.provider = X(q) /\ r1.store = task[q].store
    BY <2>1, StepSet DEF X
  <2>3. /\ r2 \in TaskType /\ r2.step = step /\ r2.kind = task[q].kind
        /\ r2.provider = X(q) /\ r2.store = task[q].store /\ r2.cred = cred
    BY <2>2, CredSet
  <2>4. /\ r3 \in TaskType /\ r3.step = step /\ r3.kind = task[q].kind
        /\ r3.provider = X(q) /\ r3.store = task[q].store /\ r3.cred = cred /\ r3.base = cred
    BY <2>3, BaseSet
  <2>5. Set(q, r3)
    BY <1>2 DEF Continue, Moved
  <2> HIDE DEF r3
  <2>6. CredPath(r3)
    BY <2>4, <1>2 DEF CredPath, Ready, TaskFits, TokenUsers, Logins, Logouts, X
  <2> QED
    BY <2>4, <2>5, <2>6, <1>2, SetStep DEF Continues, Ready
<1> QED
  BY <1>1, <1>2

LEMMA UseGetShape ==
  ASSUME NEW q, Ready(q), UseGet(q) PROVE task[q].kind \in TokenUsers /\ X(q) \in AuthProviders
                                           /\ task[q].step = "get" /\ Continues(q, file[X(q)])
<1>1. task[q].kind \in TokenUsers /\ X(q) \in AuthProviders /\ task[q].step = "get"
  BY DEF UseGet, At, Ready, TaskFits, CredPath, TokenUsers, Logins, Logouts, X, TaskType, CredKinds
<1>2. CASE Done(q)
  BY <1>1, <1>2, DoneStep DEF Continues, Ready
<1>3. CASE ~Done(q)
  <2> DEFINE cred == file[X(q)]
             step == IF NeedsRefresh(cred) /\ cred.refresh # 0 THEN "refresh"
                     ELSE AfterToken(q, cred)
  <2>1. cred \in Cred /\ cred # None
    BY <1>1, <1>3 DEF UseGet, Ready
  <2>2. Continue(q, cred, step)
    BY <1>3, <2>1 DEF UseGet
  <2>3. step \in {"idle", "refresh", "project"} /\ (step = "refresh" => cred.refresh # 0)
    BY DEF AfterToken
  <2> HIDE DEF step
  <2> QED
    BY <2>1, <2>2, <2>3, <1>1, ContinueStep
<1> QED
  BY <1>2, <1>3

\* The operation goes on to a step, with a credential and a view of the file.
Moves(q, step, cred, store) ==
  /\ TaskStep(q)
  /\ task'[q].kind = task[q].kind /\ task'[q].provider = X(q) /\ task'[q].base = task[q].base
  /\ task'[q].step = step /\ task'[q].cred = cred /\ task'[q].store = store

LEMMA MoveStep ==
  ASSUME NEW q, Ready(q), NEW step \in CredSteps, NEW cred \in Cred,
         Set(q, [Moved(q, step) EXCEPT !.cred = cred]),
         \/ task[q].kind \in TokenUsers /\ step = "load" /\ task[q].base # None
              /\ (task[q].base.refresh # 0 => cred.refresh # 0)
         \/ task[q].kind \in Logins /\ step = "load",
         cred # None
  PROVE  Moves(q, step, cred, task[q].store)
<1> DEFINE r1 == [task[q] EXCEPT !.step = step]
           r2 == [r1 EXCEPT !.cred = cred]
<1>1. task[q] \in TaskType /\ CredPath(task[q])
  BY DEF Ready, TaskFits
<1>2. /\ r1 \in TaskType /\ r1.step = step /\ r1.kind = task[q].kind
      /\ r1.provider = X(q) /\ r1.store = task[q].store /\ r1.base = task[q].base
  BY <1>1, StepSet DEF X
<1>3. /\ r2 \in TaskType /\ r2.step = step /\ r2.kind = task[q].kind /\ r2.cred = cred
      /\ r2.provider = X(q) /\ r2.store = task[q].store /\ r2.base = task[q].base
  BY <1>2, CredSet
<1>4. Set(q, r2)
  BY DEF Moved
<1> HIDE DEF r2
<1>5. CredPath(r2)
  BY <1>1, <1>3 DEF CredPath, TokenUsers, Logins, Logouts, X
<1> QED
  BY <1>3, <1>4, <1>5, SetStep DEF Moves, Ready

LEMMA GoOnStep ==
  ASSUME NEW q, Ready(q), NEW step \in CredSteps, GoOn(q, step),
         \/ task[q].kind \in Logins /\ task[q].cred = None /\ step \in {"poll", "exchange"}
         \/ task[q].kind \in Logins \cup Logouts /\ step = "loadConfig"
  PROVE  Moves(q, step, task[q].cred, task[q].store)
<1> DEFINE r1 == [task[q] EXCEPT !.step = step]
<1>1. task[q] \in TaskType /\ CredPath(task[q])
  BY DEF Ready, TaskFits
<1>2. /\ r1 \in TaskType /\ r1.step = step /\ r1.kind = task[q].kind /\ r1.cred = task[q].cred
      /\ r1.provider = X(q) /\ r1.store = task[q].store /\ r1.base = task[q].base
  BY <1>1, StepSet DEF X
<1>3. Set(q, r1)
  BY DEF GoOn, Moved
<1> HIDE DEF r1
<1>4. CredPath(r1)
  BY <1>1, <1>2 DEF CredPath, TokenUsers, Logins, Logouts, X
<1> QED
  BY <1>2, <1>3, <1>4, SetStep DEF Moves, Ready

LEMMA UseRefreshShape ==
  ASSUME NEW q, Ready(q), UseRefresh(q)
  PROVE  /\ task[q].kind \in TokenUsers /\ X(q) \in AuthProviders /\ task[q].step = "refresh"
         /\ task[q].cred = task[q].base /\ task[q].cred.refresh # 0
         /\ \/ TaskStep(q) /\ task'[q] = Idle /\ (accepted' = accepted \/ X(q) \in lapsed')
            \/ \E cred \in Cred :
                 /\ Moves(q, "load", cred, task[q].store) /\ issued' \in 1..MaxIssued
                 /\ cred.refresh = IF X(q) \in Rotating THEN issued' ELSE task[q].cred.refresh
<1>1. /\ task[q].kind \in TokenUsers /\ X(q) \in AuthProviders /\ task[q].step = "refresh"
      /\ task[q].cred = task[q].base /\ task[q].cred.refresh # 0 /\ task[q].base # None
  BY DEF UseRefresh, At, Ready, TaskFits, CredPath, TokenUsers, Logins, Logouts, X, TaskType, CredKinds
<1>2. CASE Done(q) /\ (accepted' = accepted \/ X(q) \in lapsed')
  BY <1>1, <1>2, DoneStep DEF Ready
<1>3. CASE issued < MaxIssued /\ issued' = issued + 1
             /\ Set(q, [Moved(q, "load") EXCEPT !.cred =
                     Refreshed(task[q].cred, issued', IF X(q) \in Rotating THEN issued' ELSE 0)])
  <2> DEFINE t == IF X(q) \in Rotating THEN issued' ELSE task[q].cred.refresh
             cred == [access |-> issued', refresh |-> t, project |-> task[q].cred.project]
  <2>1. /\ Set(q, [Moved(q, "load") EXCEPT !.cred =
                     Refreshed(task[q].cred, issued', IF X(q) \in Rotating THEN issued' ELSE 0)])
        /\ issued < MaxIssued /\ issued' = issued + 1
    BY <1>3
  <2>2. issued' \in 1..MaxIssued /\ MaxIssued \in Nat
    BY <2>1, AuthAssumption DEF Ready
  <2>3. task[q].cred \in Cred
    BY DEF Ready, TaskFits, TaskType
  <2>4. t \in 0..MaxIssued /\ t # 0 /\ task[q].cred.project \in BOOLEAN
    BY <2>2, <2>3, <1>1, CredFields, CredProject
  <2>5. cred \in Cred /\ cred # None
    BY <2>2, <2>4, CredMade
  <2>6. Refreshed(task[q].cred, issued', IF X(q) \in Rotating THEN issued' ELSE 0) = cred
    BY <2>2 DEF Refreshed
  <2>7. cred.refresh = t
    OBVIOUS
  <2> HIDE DEF cred
  <2>8. "load" \in CredSteps
    BY DEF CredSteps
  <2>9. Set(q, [Moved(q, "load") EXCEPT !.cred = cred])
    BY <2>1, <2>6
  <2>10. Moves(q, "load", cred, task[q].store)
    BY <2>4, <2>5, <2>7, <2>8, <2>9, <1>1, MoveStep
  <2> QED
    BY <2>2, <2>5, <2>7, <2>10, <1>1
<1> QED
  BY <1>2, <1>3 DEF UseRefresh, Lost

LEMMA UseProjectShape ==
  ASSUME NEW q, Ready(q), UseProject(q)
  PROVE  /\ task[q].kind \in TokenUsers /\ X(q) \in AuthProviders /\ task[q].step = "project"
         /\ \/ TaskStep(q) /\ task'[q] = Idle
            \/ \E cred \in Cred : /\ Moves(q, "load", cred, task[q].store)
                                  /\ cred.refresh = task[q].base.refresh
<1>1. /\ task[q].kind \in TokenUsers /\ X(q) \in AuthProviders /\ task[q].step = "project"
      /\ task[q].cred = task[q].base /\ task[q].base # None
  BY DEF UseProject, At, Ready, TaskFits, CredPath, TokenUsers, Logins, Logouts, X, TaskType, CredKinds
<1>2. CASE Done(q)
  BY <1>1, <1>2, DoneStep DEF Ready
<1>3. CASE ~Done(q)
  <2> DEFINE old == task[q].cred
             cred == [access |-> old.access, refresh |-> old.refresh, project |-> TRUE]
  <2>1. old \in Cred
    BY DEF Ready, TaskFits, TaskType
  <2>2. /\ Set(q, [Moved(q, "load") EXCEPT !.cred =
                     [access |-> @.access, refresh |-> @.refresh, project |-> TRUE]])
        /\ task[q] \in TaskType /\ "load" \in CredSteps
    BY <1>3 DEF UseProject, Ready, TaskFits, CredSteps
  <2>3. Moved(q, "load") \in TaskType /\ Moved(q, "load").cred = old
    BY <2>2, StepSet DEF Moved
  <2>4. Set(q, [Moved(q, "load") EXCEPT !.cred = cred])
    BY <2>2, <2>3
  <2>5. old.access \in 1..MaxIssued /\ old.refresh \in 0..MaxIssued
    BY <2>1, <1>1, CredThere, CredFields
  <2>8. cred \in Cred /\ cred # None /\ cred.refresh = old.refresh
    BY <2>5, CredMade
  <2> HIDE DEF cred, old
  <2>9. Moves(q, "load", cred, task[q].store)
    BY <2>2, <2>4, <2>8, <1>1, MoveStep DEF old
  <2> QED
    BY <2>8, <2>9, <1>1 DEF old
<1> QED
  BY <1>2, <1>3

LEMMA LoadStoreShape ==
  ASSUME NEW q, Ready(q), LoadStore(q)
  PROVE  /\ task[q].kind \in TokenUsers \cup Logins \cup Logouts /\ X(q) \in AuthProviders
         /\ task[q].step = "load"
         /\ \/ /\ TaskStep(q) /\ task'[q] = Idle
               /\ lapsed' = lapsed \cup (IF Refreshing(q) THEN {X(q)} ELSE {})
            \/ Moves(q, "save", task[q].cred, file) /\ lapsed' = lapsed
<1>1. /\ task[q].kind \in TokenUsers \cup Logins \cup Logouts /\ X(q) \in AuthProviders
      /\ task[q].step = "load" /\ CredPath(task[q]) /\ task[q] \in TaskType
  BY DEF LoadStore, At, Ready, TaskFits, CredPath, TokenUsers, Logins, Logouts, X, TaskType, CredKinds
<1>2. CASE Done(q) /\ lapsed' = lapsed \cup (IF Refreshing(q) THEN {X(q)} ELSE {})
  BY <1>1, <1>2, DoneStep DEF Ready
<1>3. CASE Set(q, [Moved(q, "save") EXCEPT !.store = file]) /\ lapsed' = lapsed
  <2> DEFINE r1 == [task[q] EXCEPT !.step = "save"]
             r2 == [r1 EXCEPT !.store = file]
  <2>1. /\ r1 \in TaskType /\ r1.step = "save" /\ r1.kind = task[q].kind /\ r1.cred = task[q].cred
        /\ r1.provider = X(q) /\ r1.base = task[q].base
    BY <1>1, StepSet DEF X, CredSteps
  <2>2. /\ r2 \in TaskType /\ r2.step = "save" /\ r2.kind = task[q].kind /\ r2.cred = task[q].cred
        /\ r2.provider = X(q) /\ r2.base = task[q].base /\ r2.store = file
    BY <2>1, StoreSet DEF Ready
  <2>3. Set(q, r2) /\ lapsed' = lapsed
    BY <1>3 DEF Moved
  <2> HIDE DEF r2
  <2>4. CredPath(r2)
    BY <1>1, <2>2 DEF CredPath, TokenUsers, Logins, Logouts, X
  <2> QED
    BY <2>2, <2>3, <2>4, <1>1, SetStep DEF Moves, Ready
<1> QED
  BY <1>2, <1>3 DEF LoadStore, Lost

\* What a write that goes through does to the file, and to the history.
Stores(q) ==
  /\ file' = IF task[q].kind = "logoutAlias" THEN task[q].store
             ELSE [task[q].store EXCEPT ![X(q)] = task[q].cred]
  /\ lapsed' = (IF Refreshing(q) \/ task[q].kind = "logoutAlias" THEN lapsed
                ELSE lapsed \ {X(q)}) \cup Unseen(q)
  /\ out' = CASE task[q].kind = "logout" -> out \cup {X(q)}
              [] task[q].kind = "login" \/ Polling(q) -> out \ {X(q)}
              [] OTHER -> out

LEMMA SaveStoreShape ==
  ASSUME NEW q, Ready(q), SaveStore(q)
  PROVE  /\ task[q].kind \in TokenUsers \cup Logins \cup Logouts /\ X(q) \in AuthProviders
         /\ task[q].step = "save"
         /\ \/ /\ Stores(q)
               /\ IF Refreshing(q) THEN Continues(q, task[q].cred)
                  ELSE Moves(q, "loadConfig", task[q].cred, task[q].store)
            \/ /\ TaskStep(q) /\ task'[q] = Idle /\ file' = file /\ out' = out
               /\ lapsed' = lapsed \cup (IF Refreshing(q) THEN {X(q)} ELSE {})
<1>1. /\ task[q].kind \in TokenUsers \cup Logins \cup Logouts /\ X(q) \in AuthProviders
      /\ task[q].step = "save" /\ CredPath(task[q]) /\ task[q] \in TaskType
  BY DEF SaveStore, At, Ready, TaskFits, CredPath, TokenUsers, Logins, Logouts, X, TaskType, CredKinds
<1>2. \/ Stores(q) /\ AfterStored(q)
      \/ /\ Done(q) /\ file' = file /\ out' = out
         /\ lapsed' = lapsed \cup (IF Refreshing(q) THEN {X(q)} ELSE {})
  BY DEF SaveStore, Stores, Lost
<1>3. CASE Done(q)
  <2>1. TaskStep(q) /\ task'[q] = Idle
    BY <1>3, DoneStep DEF Ready
  <2>2. CASE Stores(q) /\ AfterStored(q)
    <3>1. CASE Refreshing(q)
      BY <2>1, <2>2, <3>1, <1>1 DEF Continues
    <3>2. CASE ~Refreshing(q)
      <4>1. Moves(q, "loadConfig", task[q].cred, task[q].store)
        BY <2>2, <3>2, <1>1, GoOnStep DEF AfterStored, Refreshing, TokenUsers, CredSteps
      <4> QED
        BY <4>1, <2>2, <3>2, <1>1
    <3> QED
      BY <3>1, <3>2
  <2> QED
    BY <1>1, <1>2, <2>1, <2>2
<1>4. CASE ~Done(q)
  <2>1. Stores(q) /\ AfterStored(q)
    BY <1>2, <1>4
  <2>2. CASE Refreshing(q)
    <3> DEFINE cred == task[q].cred
    <3>1. cred \in Cred /\ cred # None /\ task[q].kind \in TokenUsers
      BY <1>1, <2>2 DEF TaskType, CredPath, Refreshing, TokenUsers
    <3>2. Continue(q, cred, AfterToken(q, cred))
      BY <2>1, <2>2 DEF AfterStored
    <3>3. AfterToken(q, cred) \in {"idle", "project"}
      BY DEF AfterToken
    <3>4. Continues(q, cred)
      BY <3>1, <3>2, <3>3, ContinueStep
    <3> QED
      BY <3>4, <2>1, <2>2, <1>1
  <2>3. CASE ~Refreshing(q)
    <3>1. Moves(q, "loadConfig", task[q].cred, task[q].store)
      BY <2>1, <2>3, <1>1, GoOnStep DEF AfterStored, Refreshing, TokenUsers, CredSteps
    <3> QED
      BY <3>1, <2>1, <2>3, <1>1
  <2> QED
    BY <2>2, <2>3
<1> QED
  BY <1>3, <1>4

LEMMA LoadConfigShape ==
  ASSUME NEW q, Ready(q), LoadConfig(q)
  PROVE  /\ task[q].step = "loadConfig" /\ ~Refreshing(q)
         /\ \/ TaskStep(q) /\ task'[q] = Idle /\ unsure' = unsure \cup About(q)
            \/ Moves(q, "saveConfig", task[q].cred, task[q].store) /\ unsure' = unsure
<1>1. task[q].step = "loadConfig" /\ CredPath(task[q]) /\ task[q] \in TaskType /\ ~Refreshing(q)
  BY DEF LoadConfig, At, Ready, TaskFits, CredPath, TokenUsers, Refreshing
<1>2. CASE Done(q) /\ unsure' = unsure \cup About(q)
  BY <1>1, <1>2, DoneStep DEF Ready
<1>3. CASE Set(q, [Moved(q, "saveConfig") EXCEPT !.methods = config]) /\ unsure' = unsure
  <2> DEFINE r1 == [task[q] EXCEPT !.step = "saveConfig"]
             r2 == [r1 EXCEPT !.methods = config]
  <2>1. /\ r1 \in TaskType /\ r1.step = "saveConfig" /\ r1.kind = task[q].kind
        /\ r1.cred = task[q].cred /\ r1.provider = X(q) /\ r1.base = task[q].base
        /\ r1.store = task[q].store
    BY <1>1, StepSet DEF X, CredSteps
  <2>2. /\ r2 \in TaskType /\ r2.step = "saveConfig" /\ r2.kind = task[q].kind
        /\ r2.cred = task[q].cred /\ r2.provider = X(q) /\ r2.base = task[q].base
        /\ r2.store = task[q].store
    BY <2>1, MethodsSet DEF Ready
  <2>3. Set(q, r2) /\ unsure' = unsure
    BY <1>3 DEF Moved
  <2> HIDE DEF r2
  <2>4. CredPath(r2)
    BY <1>1, <2>2 DEF CredPath, TokenUsers, Logins, Logouts, X
  <2> QED
    BY <2>2, <2>3, <2>4, <1>1, SetStep DEF Moves, Ready
<1> QED
  BY <1>2, <1>3 DEF LoadConfig

\* The steps of a login up to its credential.
LEMMA LoginShape ==
  ASSUME NEW q, Ready(q), Browser(q) \/ Poll(q) \/ DeviceRequest(q)
  PROVE  /\ task[q].step \in {"browser", "poll", "request"}
         /\ \/ TaskStep(q) /\ task'[q] = Idle
            \/ \E step \in {"poll", "exchange"} : Moves(q, step, task[q].cred, task[q].store)
<1>1. /\ task[q].step \in {"browser", "poll", "request"} /\ task[q].cred = None
      /\ task[q].kind \in Logins
  BY DEF Browser, Poll, DeviceRequest, At, Ready, TaskFits, CredPath, TokenUsers, Logins, Logouts,
    TaskType, CredKinds
<1>2. Done(q) \/ GoOn(q, "exchange") \/ GoOn(q, "poll")
  BY DEF Browser, Poll, DeviceRequest
<1>3. CASE Done(q)
  BY <1>1, <1>3, DoneStep DEF Ready
<1>4. CASE GoOn(q, "exchange")
  BY <1>1, <1>4, GoOnStep DEF CredSteps
<1>5. CASE GoOn(q, "poll")
  BY <1>1, <1>5, GoOnStep DEF CredSteps
<1> QED
  BY <1>2, <1>3, <1>4, <1>5

LEMMA ExchangeShape ==
  ASSUME NEW q, Ready(q), Exchange(q)
  PROVE  /\ task[q].kind \in Logins /\ task[q].step = "exchange" /\ X(q) \in AuthProviders
         /\ task[q].base = None /\ task[q].cred = None
         /\ \/ /\ accepted' = accepted /\ issued' = issued
               /\ \/ TaskStep(q) /\ task'[q] = Idle
                  \/ Moves(q, "poll", task[q].cred, task[q].store)
            \/ \E cred \in Cred :
                 /\ Moves(q, "load", cred, task[q].store) /\ cred.refresh \in {0, issued'}
                 /\ issued' = issued + 1 /\ issued' \in 1..MaxIssued
                 /\ accepted' = accepted \cup ({cred.refresh} \ {0})
<1>1. /\ task[q].kind \in Logins /\ task[q].step = "exchange" /\ X(q) \in AuthProviders
      /\ task[q].base = None /\ task[q].cred = None
  BY DEF Exchange, At, Ready, TaskFits, CredPath, TokenUsers, Logins, Logouts, X, TaskType, CredKinds
<1>2. CASE accepted' = accepted /\ issued' = issued /\ (Done(q) \/ GoOn(q, "poll"))
  <2>1. CASE Done(q)
    BY <1>1, <1>2, <2>1, DoneStep DEF Ready
  <2>2. CASE GoOn(q, "poll")
    BY <1>1, <1>2, <2>2, GoOnStep DEF CredSteps
  <2> QED
    BY <1>2, <2>1, <2>2
<1>3. ASSUME issued < MaxIssued, issued' = issued + 1, NEW refresh \in {0, issued'},
             NEW project \in BOOLEAN, accepted' = accepted \cup ({refresh} \ {0}),
             Set(q, [Moved(q, "load") EXCEPT !.cred =
                       [access |-> issued', refresh |-> refresh, project |-> project]])
      PROVE  \E cred \in Cred :
               /\ Moves(q, "load", cred, task[q].store) /\ cred.refresh \in {0, issued'}
               /\ issued' = issued + 1 /\ issued' \in 1..MaxIssued
               /\ accepted' = accepted \cup ({cred.refresh} \ {0})
  <2> DEFINE cred == [access |-> issued', refresh |-> refresh, project |-> project]
  <2>1. issued' \in 1..MaxIssued
    BY <1>3, AuthAssumption DEF Ready
  <2>21. refresh \in 0..MaxIssued
    BY <1>3, <2>1, AuthAssumption
  <2>22. cred \in Cred /\ cred # None
    BY <2>1, <2>21, CredMade, Zenon
  <2>2. cred \in Cred /\ cred # None /\ cred.refresh = refresh
    BY <2>22, Zenon
  <2>3. Set(q, [Moved(q, "load") EXCEPT !.cred = cred])
    BY <1>3
  <2> HIDE DEF cred
  <2>4. Moves(q, "load", cred, task[q].store)
    BY <2>2, <2>3, <1>1, MoveStep DEF CredSteps
  <2> QED
    BY <2>1, <2>2, <2>4, <1>3
<1>4. \/ accepted' = accepted /\ issued' = issued /\ (Done(q) \/ GoOn(q, "poll"))
      \/ /\ issued < MaxIssued /\ issued' = issued + 1
         /\ \E refresh \in {0, issued'}, project \in BOOLEAN :
              /\ accepted' = accepted \cup ({refresh} \ {0})
              /\ Set(q, [Moved(q, "load") EXCEPT !.cred =
                           [access |-> issued', refresh |-> refresh, project |-> project]])
  BY DEF Exchange
<1> QED
  BY <1>1, <1>2, <1>3, <1>4

LEMMA SaveConfigShape ==
  ASSUME NEW q, Ready(q), SaveConfig(q)
  PROVE  TaskStep(q) /\ task'[q] = Idle /\ task[q].step = "saveConfig" /\ ~Refreshing(q)
<1>1. task[q].step = "saveConfig" /\ ~Refreshing(q)
  BY DEF SaveConfig, At, Ready, TaskFits, CredPath, TokenUsers, Refreshing
<1> QED
  BY <1>1, DoneStep DEF SaveConfig, Ready

-----------------------------------------------------------------------------
(* Refresh tokens stay with their provider                                 *)

\* The token an issuer hands out in this step.
NewToken(q, x, t) == issued' = issued + 1 /\ t = issued + 1 /\ x = X(q)

\* What q has after its step it had before, or read from the file, or was just given; the
\* file gets what q had; and q uses up the token it has.
Local(q) ==
  /\ q \in AuthProcs /\ TaskStep(q) /\ issued' \in {issued, issued + 1}
  /\ \A x \in AuthProviders, t \in Nat \ {0} :
       /\ Has(task'[q], x, t) => Has(task[q], x, t) \/ file[x].refresh = t \/ NewToken(q, x, t)
       /\ file'[x].refresh = t => file[x].refresh = t \/ Has(task[q], x, t)
  /\ \A t \in accepted : t \in accepted' \/ (X(q) \in AuthProviders /\ t = task[q].cred.refresh)

LEMMA OwnsBefore ==
  ASSUME NEW q, Local(q), NEW x \in AuthProviders, NEW t \in Nat \ {0}, Owns(x, t)'
  PROVE  Owns(x, t) \/ NewToken(q, x, t)
<1>1. CASE file'[x].refresh = t
  BY <1>1 DEF Local, Owns
<1>2. ASSUME NEW r \in AuthProcs, Has(task'[r], x, t) PROVE Owns(x, t) \/ NewToken(q, x, t)
  <2>1. CASE r = q
    BY <1>2, <2>1 DEF Local, Owns
  <2>2. CASE r # q
    BY <1>2, <2>2 DEF Local, Owns, TaskStep
  <2> QED
    BY <2>1, <2>2
<1> QED
  BY <1>1, <1>2 DEF Owns

LEMMA ApartStep ==
  ASSUME NEW q, Local(q), CrTypes, TokensApart
  PROVE  TokensApart'
<1>1. issued \in Nat
  BY AuthAssumption DEF CrTypes
<1>2. ASSUME NEW x \in AuthProviders, NEW t \in Nat \ {0}, Owns(x, t)'
      PROVE  t <= issued' /\ \A y \in AuthProviders : Owns(y, t)' => x = y
  <2>1. Owns(x, t) \/ NewToken(q, x, t)
    BY <1>2, OwnsBefore
  <2>2. t <= issued'
    BY <2>1, <1>1 DEF TokensApart, NewToken, Local
  <2>3. ASSUME NEW y \in AuthProviders, Owns(y, t)' PROVE x = y
    <3>1. Owns(y, t) \/ NewToken(q, y, t)
      BY <2>3, OwnsBefore
    <3>2. \A z \in AuthProviders : Owns(z, t) => t <= issued
      BY DEF TokensApart
    <3> QED
      BY <2>1, <3>1, <3>2, <1>1 DEF TokensApart, NewToken
  <2> QED
    BY <2>2, <2>3
<1> QED
  BY <1>2 DEF TokensApart

LEMMA FreshTyped ==
  ASSUME NEW q \in AuthProcs, CrTypes, CredPath(task[q]), Storing(q)
  PROVE  /\ X(q) \in AuthProviders /\ task[q].cred.refresh \in Nat
         /\ Has(task[q], X(q), task[q].cred.refresh)
<1>1. X(q) \in AuthProviders
  BY DEF CredPath, Storing, X, CrTypes, TaskType, CredKinds, TokenUsers, Logins, Logouts
<1>2. task[q].cred \in Cred
  BY DEF CrTypes, TaskType
<1> QED
  BY <1>1, <1>2, CredFields, AuthAssumption DEF Has, X

LEMMA FreshStays ==
  ASSUME NEW q, Local(q), CrTypes, TokensApart, NEW r \in AuthProcs, r # q,
         CredPath(task[r]), Storing(r), FreshToken(r)
  PROVE  FreshToken(r)' /\ Storing(r)' /\ task'[r] = task[r]
<1> DEFINE t == task[r].cred.refresh
<1>1. task'[r] = task[r]
  BY DEF Local, TaskStep
<1>2. /\ X(r) \in AuthProviders /\ t \in Nat \ {0} /\ Has(task[r], X(r), t) /\ t \in accepted
      /\ t # task[r].base.refresh
  BY FreshTyped DEF FreshToken, CrTypes
<1>3. t <= issued /\ issued \in Nat
  BY <1>2, AuthAssumption DEF TokensApart, Owns, CrTypes
<1>4. /\ \A x \in AuthProviders : file[x].refresh # t /\ task[r].store[x].refresh # t
      /\ \A p \in AuthProcs \ {r} : \A x \in AuthProviders : ~Has(task[p], x, t)
  BY DEF FreshToken
<1> HIDE DEF t
<1>5. \A x \in AuthProviders : ~NewToken(q, x, t) /\ ~Has(task[q], x, t)
  BY <1>3, <1>4 DEF NewToken, Local
<1>6. ASSUME NEW x \in AuthProviders PROVE file'[x].refresh # t /\ ~Has(task'[q], x, t)
  BY <1>2, <1>4, <1>5 DEF Local
<1>7. \A p \in AuthProcs \ {r} : \A x \in AuthProviders : ~Has(task'[p], x, t)
  BY <1>4, <1>6 DEF Local, TaskStep
<1>8. t \in accepted'
  <2>1. X(q) \in AuthProviders => t # task[q].cred.refresh
    BY <1>5 DEF Has, X
  <2> QED
    BY <1>2, <2>1 DEF Local
<1>9. FreshToken(r)'
  BY <1>1, <1>2, <1>4, <1>6, <1>7, <1>8 DEF FreshToken, t
<1> QED
  BY <1>1, <1>9 DEF Storing

LEMMA HasNothing ==
  ASSUME NEW r, r.cred = None, r.base = None, \A y \in AuthProviders : r.store[y] = None,
         NEW x \in AuthProviders, NEW t \in Nat \ {0}
  PROVE  ~Has(r, x, t)
  BY CredFields DEF Has

\* Nothing in hand is as good as a step without tokens.
LEMMA HasMoved ==
  ASSUME NEW q, NEW step, NEW cred, NEW store, Moves(q, step, cred, store),
         NEW x, NEW t, Has(task'[q], x, t)
  PROVE  \/ store[x].refresh = t
         \/ x = X(q) /\ (t = cred.refresh \/ t = task[q].base.refresh)
  BY DEF Moves, Has, X

LEMMA LocalIdle ==
  ASSUME NEW q \in AuthProcs, TaskStep(q), Begins(q) \/ task'[q] = Idle,
         \/ file' = file 
         \/ file' = [x \in AuthProviders |-> None],
         issued' \in {issued, issued + 1},
         \A t \in accepted : t \in accepted' \/ (X(q) \in AuthProviders /\ t = task[q].cred.refresh)
  PROVE  Local(q)
<1>1. /\ task'[q].cred = None /\ task'[q].base = None
      /\ \A y \in AuthProviders : task'[q].store[y] = None
  BY IdleTyped DEF Begins
<1>2. ASSUME NEW x \in AuthProviders, NEW t \in Nat \ {0} PROVE ~Has(task'[q], x, t)
  BY <1>1, HasNothing
<1>3. ASSUME NEW x \in AuthProviders, NEW t \in Nat \ {0}, file'[x].refresh = t
      PROVE  file[x].refresh = t
  BY <1>3, CredFields
<1> QED
  BY <1>2, <1>3 DEF Local

LEMMA LocalSame ==
  ASSUME NEW q \in AuthProcs, NEW step, Moves(q, step, task[q].cred, task[q].store),
         file' = file, issued' = issued, accepted' = accepted
  PROVE  Local(q)
<1>1. ASSUME NEW x \in AuthProviders, NEW t \in Nat \ {0}, Has(task'[q], x, t)
      PROVE  Has(task[q], x, t)
  BY <1>1, HasMoved DEF Has, X
<1> QED
  BY <1>1 DEF Local, Moves

LEMMA LocalUseGet ==
  ASSUME NEW q \in AuthProcs, Ready(q), UseGet(q) PROVE Local(q)
<1>1. X(q) \in AuthProviders /\ Continues(q, file[X(q)])
  BY UseGetShape
<1>2. file' = file /\ issued' = issued /\ accepted' = accepted
  BY DEF UseGet
<1>3. CASE task'[q] = Idle
  BY <1>1, <1>2, <1>3, LocalIdle DEF Continues
<1>4. CASE task'[q] # Idle
  <2>1. ASSUME NEW x \in AuthProviders, NEW t \in Nat \ {0}, Has(task'[q], x, t)
        PROVE  Has(task[q], x, t) \/ file[x].refresh = t
    BY <1>1, <1>4, <2>1 DEF Has, X, Continues
  <2> QED
    BY <1>1, <1>2, <2>1 DEF Local, Continues
<1> QED
  BY <1>3, <1>4

LEMMA LocalUseRefresh ==
  ASSUME NEW q \in AuthProcs, Ready(q), UseRefresh(q) PROVE Local(q)
<1>1. /\ X(q) \in AuthProviders
      /\ \/ TaskStep(q) /\ task'[q] = Idle
         \/ \E cred \in Cred :
              /\ Moves(q, "load", cred, task[q].store) /\ issued' \in 1..MaxIssued
              /\ cred.refresh = IF X(q) \in Rotating THEN issued' ELSE task[q].cred.refresh
  BY UseRefreshShape
<1>2. /\ file' = file /\ issued' \in {issued, issued + 1}
      /\ \A t \in accepted : t \in accepted' \/ t = task[q].cred.refresh
  BY DEF UseRefresh
<1>3. CASE TaskStep(q) /\ task'[q] = Idle
  BY <1>1, <1>2, <1>3, LocalIdle
<1>4. ASSUME NEW cred \in Cred, Moves(q, "load", cred, task[q].store), task'[q] # Idle,
             cred.refresh = IF X(q) \in Rotating THEN issued' ELSE task[q].cred.refresh
      PROVE  Local(q)
  <2>1. issued' = issued + 1
    BY <1>4, DoneStep DEF UseRefresh, Ready
  <2>2. ASSUME NEW x \in AuthProviders, NEW t \in Nat \ {0}, Has(task'[q], x, t)
        PROVE  Has(task[q], x, t) \/ NewToken(q, x, t)
    BY <1>4, <2>1, <2>2, HasMoved DEF Has, X, NewToken
  <2> QED
    BY <1>1, <1>2, <1>4, <2>2 DEF Local, Moves
<1> QED
  BY <1>1, <1>3, <1>4 DEF Moves

LEMMA LocalUseProject ==
  ASSUME NEW q \in AuthProcs, Ready(q), UseProject(q) PROVE Local(q)
<1>1. \/ TaskStep(q) /\ task'[q] = Idle
      \/ \E cred \in Cred : /\ Moves(q, "load", cred, task[q].store)
                            /\ cred.refresh = task[q].base.refresh
  BY UseProjectShape
<1>2. file' = file /\ issued' = issued /\ accepted' = accepted
  BY DEF UseProject
<1>3. CASE TaskStep(q) /\ task'[q] = Idle
  BY <1>2, <1>3, LocalIdle
<1>4. ASSUME NEW cred \in Cred, Moves(q, "load", cred, task[q].store),
             cred.refresh = task[q].base.refresh
      PROVE  Local(q)
  <2>1. ASSUME NEW x \in AuthProviders, NEW t \in Nat \ {0}, Has(task'[q], x, t)
        PROVE  Has(task[q], x, t)
    BY <1>4, <2>1, HasMoved DEF Has, X
  <2> QED
    BY <1>2, <1>4, <2>1 DEF Local, Moves
<1> QED
  BY <1>1, <1>3, <1>4

LEMMA LocalLoadStore ==
  ASSUME NEW q \in AuthProcs, Ready(q), LoadStore(q) PROVE Local(q)
<1>1. \/ TaskStep(q) /\ task'[q] = Idle
      \/ Moves(q, "save", task[q].cred, file)
  BY LoadStoreShape
<1>2. file' = file /\ issued' = issued /\ accepted' = accepted
  BY DEF LoadStore
<1>3. CASE TaskStep(q) /\ task'[q] = Idle
  BY <1>2, <1>3, LocalIdle
<1>4. CASE Moves(q, "save", task[q].cred, file)
  <2>1. ASSUME NEW x \in AuthProviders, NEW t \in Nat \ {0}, Has(task'[q], x, t)
        PROVE  Has(task[q], x, t) \/ file[x].refresh = t
    BY <1>4, <2>1, HasMoved DEF Has, X
  <2> QED
    BY <1>2, <1>4, <2>1 DEF Local, Moves
<1> QED
  BY <1>1, <1>3, <1>4

LEMMA LocalExchange ==
  ASSUME NEW q \in AuthProcs, Ready(q), Exchange(q) PROVE Local(q)
<1>1. /\ X(q) \in AuthProviders
      /\ \/ /\ accepted' = accepted /\ issued' = issued
            /\ \/ TaskStep(q) /\ task'[q] = Idle
               \/ Moves(q, "poll", task[q].cred, task[q].store)
         \/ \E cred \in Cred :
              /\ Moves(q, "load", cred, task[q].store) /\ cred.refresh \in {0, issued'}
              /\ issued' = issued + 1
              /\ accepted' = accepted \cup ({cred.refresh} \ {0})
  BY ExchangeShape
<1>2. file' = file
  BY DEF Exchange
<1>3. CASE TaskStep(q) /\ task'[q] = Idle /\ accepted' = accepted /\ issued' = issued
  BY <1>2, <1>3, LocalIdle
<1>4. CASE Moves(q, "poll", task[q].cred, task[q].store) /\ accepted' = accepted /\ issued' = issued
  BY <1>2, <1>4, LocalSame
<1>5. ASSUME NEW cred \in Cred, Moves(q, "load", cred, task[q].store),
             cred.refresh \in {0, issued'}, issued' = issued + 1,
             accepted' = accepted \cup ({cred.refresh} \ {0})
      PROVE  Local(q)
  <2>1. ASSUME NEW x \in AuthProviders, NEW t \in Nat \ {0}, Has(task'[q], x, t)
        PROVE  Has(task[q], x, t) \/ NewToken(q, x, t)
    BY <1>5, <2>1, HasMoved DEF Has, X, NewToken
  <2> QED
    BY <1>2, <1>5, <2>1 DEF Local, Moves
<1> QED
  BY <1>1, <1>3, <1>4, <1>5

LEMMA StoredFile ==
  ASSUME NEW q \in AuthProcs, Ready(q), X(q) \in AuthProviders, Stores(q)
  PROVE  /\ file' \in [AuthProviders -> Cred]
         /\ task[q].kind # "logoutAlias" => file'[X(q)] = task[q].cred
         /\ \A x \in AuthProviders :
              x # X(q) \/ task[q].kind = "logoutAlias" => file'[x] = task[q].store[x]
<1>1. task[q].store \in [AuthProviders -> Cred] /\ task[q].cred \in Cred
  BY DEF Ready, TaskFits, TaskType
<1> QED
  BY <1>1 DEF Stores

LEMMA LocalSaveStore ==
  ASSUME NEW q \in AuthProcs, Ready(q), SaveStore(q) PROVE Local(q)
<1>1. /\ X(q) \in AuthProviders
      /\ \/ /\ Stores(q)
            /\ IF Refreshing(q) THEN Continues(q, task[q].cred)
               ELSE Moves(q, "loadConfig", task[q].cred, task[q].store)
         \/ TaskStep(q) /\ task'[q] = Idle /\ file' = file
  BY SaveStoreShape
<1>2. issued' = issued /\ accepted' = accepted
  BY DEF SaveStore
<1>3. CASE TaskStep(q) /\ task'[q] = Idle /\ file' = file
  BY <1>2, <1>3, LocalIdle
<1>4. ASSUME Stores(q), Continues(q, task[q].cred) \/
             Moves(q, "loadConfig", task[q].cred, task[q].store)
      PROVE  Local(q)
  <2>1. ASSUME NEW x \in AuthProviders, NEW t \in Nat \ {0}, Has(task'[q], x, t)
        PROVE  Has(task[q], x, t)
    <3>1. CASE task'[q] = Idle
      BY <2>1, <3>1, HasNothing, IdleTyped
    <3>2. CASE task'[q] # Idle
      <4>1. CASE Continues(q, task[q].cred)
        BY <2>1, <3>2, <4>1 DEF Has, X, Continues
      <4>2. CASE Moves(q, "loadConfig", task[q].cred, task[q].store)
        BY <2>1, <4>2, HasMoved DEF Has, X
      <4> QED
        BY <1>4, <4>1, <4>2
    <3> QED
      BY <3>1, <3>2
  <2>2. ASSUME NEW x \in AuthProviders, NEW t \in Nat \ {0}, file'[x].refresh = t
        PROVE  Has(task[q], x, t)
    <3>1. file'[x] = task[q].store[x] \/ (x = X(q) /\ file'[x] = task[q].cred)
      BY <1>1, <1>4, StoredFile
    <3> QED
      BY <2>2, <3>1 DEF Has, X
  <2> QED
    BY <1>2, <1>4, <2>1, <2>2 DEF Local, Moves, Continues
<1> QED
  BY <1>1, <1>3, <1>4

\* The steps in which a process acts.
CrStep(q) ==
  \/ UseBegin(q) \/ UseGet(q) \/ UseRefresh(q) \/ UseProject(q)
  \/ LoadStore(q) \/ SaveStore(q) \/ LoadConfig(q) \/ SaveConfig(q)
  \/ LoginCommand(q) \/ Browser(q) \/ Poll(q) \/ Exchange(q)
  \/ DeviceLogin(q) \/ DeviceRequest(q)
  \/ Logout(q) \/ LogoutAlias(q) \/ LogoutAll(q)
  \/ \E s \in States : OAuthCallback(q, s)

SomeBeginning(q) ==
  \/ UseBegin(q) \/ LoginCommand(q) \/ DeviceLogin(q) \/ Logout(q) \/ LogoutAlias(q)
  \/ \E s \in States : OAuthCallback(q, s)

LEMMA LocalStep == ASSUME NEW q \in AuthProcs, Ready(q), CrStep(q) PROVE Local(q)
<1>1. CASE SomeBeginning(q)
  <2>1. Begins(q)
    BY <1>1, SomeBegins DEF SomeBeginning
  <2>2. file' = file /\ issued' = issued /\ accepted' = accepted
    BY <1>1 DEF SomeBeginning, UseBegin, LoginCommand, DeviceLogin, Logout, LogoutAlias,
      OAuthCallback
  <2> QED
    BY <2>1, <2>2, LocalIdle DEF Begins
<1>2. CASE LogoutAll(q)
  <2>1. Begins(q)
    BY <1>2, LogoutAllBegins
  <2> QED
    BY <1>2, <2>1, LocalIdle DEF Begins, LogoutAll
<1>3. CASE LoadConfig(q)
  <2>1. file' = file /\ issued' = issued /\ accepted' = accepted
    BY <1>3 DEF LoadConfig
  <2>2. \/ TaskStep(q) /\ task'[q] = Idle
        \/ Moves(q, "saveConfig", task[q].cred, task[q].store)
    BY <1>3, LoadConfigShape
  <2> QED
    BY <2>1, <2>2, LocalIdle, LocalSame
<1>4. CASE SaveConfig(q)
  BY <1>4, SaveConfigShape, LocalIdle DEF SaveConfig
<1>5. CASE Browser(q) \/ Poll(q) \/ DeviceRequest(q)
  <2>1. file' = file /\ issued' = issued /\ accepted' = accepted
    BY <1>5 DEF Browser, Poll, DeviceRequest
  <2>2. \/ TaskStep(q) /\ task'[q] = Idle
        \/ \E step \in {"poll", "exchange"} : Moves(q, step, task[q].cred, task[q].store)
    BY <1>5, LoginShape
  <2> QED
    BY <2>1, <2>2, LocalIdle, LocalSame
<1> QED
  BY <1>1, <1>2, <1>3, <1>4, <1>5, LocalUseGet, LocalUseRefresh, LocalUseProject, LocalLoadStore,
    LocalSaveStore, LocalExchange DEF CrStep, SomeBeginning

-----------------------------------------------------------------------------
(* What is about to be stored                                              *)

LEMMA NewIsFresh ==
  ASSUME NEW q \in AuthProcs, CrTypes, TokensApart, NEW t, t = issued + 1
  PROVE  /\ \A x \in AuthProviders : ~Owns(x, t)
         /\ \A x \in AuthProviders, r \in AuthProcs : ~Has(task[r], x, t)
         /\ \A x \in AuthProviders : file[x].refresh # t
<1>1. t \in Nat \ {0} /\ ~(t <= issued)
  BY AuthAssumption DEF CrTypes
<1> QED
  BY <1>1 DEF TokensApart, Owns

\* A token just handed out, in the hands of q on its way to the file.
LEMMA FreshGiven ==
  ASSUME NEW q \in AuthProcs, CrTypes, TokensApart, X(q) \in AuthProviders,
         NEW cred \in Cred, Moves(q, "load", cred, task[q].store), file' = file,
         cred.refresh = issued + 1, issued + 1 \in accepted'
  PROVE  FreshToken(q)'
<1> DEFINE t == issued + 1
<1>1. /\ \A x \in AuthProviders, r \in AuthProcs : ~Has(task[r], x, t)
      /\ \A x \in AuthProviders : file[x].refresh # t
  BY NewIsFresh
<1> HIDE DEF t
<1>2. task'[q].cred.refresh = t /\ task'[q].base = task[q].base /\ task'[q].store = task[q].store
  BY DEF Moves, t
<1>3. t # task[q].base.refresh /\ \A x \in AuthProviders : task[q].store[x].refresh # t
  BY <1>1 DEF Has, X
<1>4. \A r \in AuthProcs \ {q} : \A x \in AuthProviders : ~Has(task'[r], x, t)
  BY <1>1 DEF Moves, TaskStep
<1>5. t \in accepted'
  BY DEF t
<1> QED
  BY <1>1, <1>2, <1>3, <1>4, <1>5 DEF FreshToken

\* q reads the file: its token is as fresh as before.
LEMMA FreshRead ==
  ASSUME NEW q \in AuthProcs, FreshToken(q), Moves(q, "save", task[q].cred, file),
         file' = file, accepted' = accepted
  PROVE  FreshToken(q)'
<1>1. /\ task'[q].cred = task[q].cred /\ task'[q].base = task[q].base /\ task'[q].store = file
      /\ \A r \in AuthProcs \ {q} : task'[r] = task[r]
  BY DEF Moves, TaskStep
<1> QED
  BY <1>1 DEF FreshToken

\* The token of q, by its own account.
StoredRight(q) ==
  Storing(q) => IF Refreshing(q) THEN task[q].cred.refresh = task[q].base.refresh \/ FreshToken(q)
                ELSE task[q].cred.refresh = 0 \/ FreshToken(q)

LEMMA IdleStores == ASSUME NEW q \in AuthProcs, task'[q] = Idle PROVE ~Storing(q)'
  BY IdleTyped DEF Storing

LEMMA BeginsStores == ASSUME NEW q \in AuthProcs, Begins(q) PROVE StoredRight(q)'
<1>1. task'[q].cred.refresh = 0
  BY CredFields DEF Begins
<1>2. task'[q].step \in {"load", "save"} => task'[q].kind \notin TokenUsers
  BY DEF Begins
<1> QED
  BY <1>1, <1>2 DEF StoredRight, Storing, Refreshing, TokenUsers

LEMMA NotStores ==
  ASSUME NEW q \in AuthProcs, NEW step, step \notin {"load", "save"}, NEW cred, NEW store,
         Moves(q, step, cred, store) 
  PROVE  ~Storing(q)'
  BY DEF Moves, Storing

LEMMA ContinuesStores == ASSUME NEW q \in AuthProcs, NEW cred, Continues(q, cred) PROVE ~Storing(q)'
<1>1. CASE task'[q] = Idle
  BY <1>1, IdleStores
<1>2. CASE task'[q] # Idle
  BY <1>2 DEF Continues, Storing
<1> QED
  BY <1>1, <1>2

LEMMA RefreshStores ==
  ASSUME NEW q \in AuthProcs, Ready(q), CrTypes, TokensApart, UseRefresh(q)
  PROVE  /\ StoredRight(q)'
         /\ task'[q] # Idle => /\ Storing(q)' /\ Refreshing(q)' /\ X(q)' = X(q)
                               /\ X(q) \in Rotating => FreshToken(q)'
<1>1. /\ X(q) \in AuthProviders /\ task[q].kind \in TokenUsers /\ task[q].cred = task[q].base
      /\ \/ TaskStep(q) /\ task'[q] = Idle
         \/ \E cred \in Cred :
              /\ Moves(q, "load", cred, task[q].store) /\ issued' \in 1..MaxIssued
              /\ cred.refresh = IF X(q) \in Rotating THEN issued' ELSE task[q].cred.refresh
  BY UseRefreshShape
<1>2. CASE task'[q] = Idle
  BY <1>2, IdleStores DEF StoredRight
<1>3. ASSUME NEW cred \in Cred, Moves(q, "load", cred, task[q].store), task'[q] # Idle,
             cred.refresh = IF X(q) \in Rotating THEN issued' ELSE task[q].cred.refresh
      PROVE  /\ StoredRight(q)' /\ Storing(q)' /\ Refreshing(q)' /\ X(q)' = X(q)
             /\ X(q) \in Rotating => FreshToken(q)'
  <2>1. /\ file' = file /\ issued' = issued + 1
        /\ X(q) \in Rotating => issued' \in accepted'
    BY <1>3, DoneStep DEF UseRefresh, Ready
  <2>2. X(q) \in Rotating => FreshToken(q)'
    BY <1>1, <1>3, <2>1, FreshGiven
  <2>3. /\ task'[q].kind \in {"use", "models"} /\ task'[q].base = task[q].base
        /\ task'[q].cred = cred /\ task'[q].step = "load" /\ task'[q].provider = task[q].provider
    BY <1>1, <1>3 DEF Moves, TokenUsers, X
  <2>4. Storing(q)' /\ Refreshing(q)' /\ X(q)' = X(q)
    BY <2>3 DEF Storing, Refreshing, X
  <2>5. FreshToken(q)' \/ task'[q].cred.refresh = task'[q].base.refresh
    BY <1>1, <1>3, <2>2, <2>3
  <2> QED
    BY <2>2, <2>4, <2>5 DEF StoredRight
<1> QED
  BY <1>1, <1>2, <1>3

LEMMA StoredRightStep ==
  ASSUME NEW q \in AuthProcs, Ready(q), CrTypes, TokensApart, StoredRight(q), CrStep(q)
  PROVE  StoredRight(q)'
<1>1. CASE SomeBeginning(q)
  BY <1>1, SomeBegins, BeginsStores DEF SomeBeginning
<1>2. CASE LogoutAll(q)
  BY <1>2, LogoutAllBegins, BeginsStores
<1>3. CASE LoadConfig(q)
  BY <1>3, LoadConfigShape, IdleStores, NotStores DEF StoredRight
<1>4. CASE SaveConfig(q)
  BY <1>4, SaveConfigShape, IdleStores DEF StoredRight
<1>5. CASE Browser(q) \/ Poll(q) \/ DeviceRequest(q)
  BY <1>5, LoginShape, IdleStores, NotStores DEF StoredRight
<1>6. CASE UseGet(q)
  BY <1>6, UseGetShape, ContinuesStores DEF StoredRight
<1>7. CASE UseRefresh(q)
  BY <1>7, RefreshStores
<1>8. CASE UseProject(q)
  <2>1. CASE task'[q] = Idle
    BY <2>1, IdleStores DEF StoredRight
  <2>2. ASSUME NEW cred, Moves(q, "load", cred, task[q].store),
               cred.refresh = task[q].base.refresh, task[q].kind \in TokenUsers
        PROVE  StoredRight(q)'
    BY <2>2 DEF Moves, StoredRight, Refreshing, TokenUsers
  <2> QED
    BY <1>8, <2>1, <2>2, UseProjectShape
<1>9. CASE LoadStore(q)
  <2>1. CASE task'[q] = Idle
    BY <2>1, IdleStores DEF StoredRight
  <2>2. CASE Moves(q, "save", task[q].cred, file)
    <3>1. /\ task'[q].cred = task[q].cred /\ task'[q].base = task[q].base
          /\ task'[q].kind = task[q].kind /\ task[q].step = "load"
      BY <1>9, <2>2, LoadStoreShape DEF Moves
    <3>2. FreshToken(q) => FreshToken(q)'
      BY <1>9, <2>2, FreshRead DEF LoadStore
    <3> QED
      BY <3>1, <3>2 DEF StoredRight, Storing, Refreshing
  <2> QED
    BY <1>9, <2>1, <2>2, LoadStoreShape
<1>10. CASE SaveStore(q)
  <2>1. \/ task'[q] = Idle \/ Continues(q, task[q].cred)
        \/ Moves(q, "loadConfig", task[q].cred, task[q].store)
    BY <1>10, SaveStoreShape
  <2> QED
    BY <2>1, IdleStores, ContinuesStores, NotStores DEF StoredRight
<1>11. CASE Exchange(q)
  <2>1. CASE task'[q] = Idle \/ Moves(q, "poll", task[q].cred, task[q].store)
    BY <2>1, IdleStores, NotStores DEF StoredRight
  <2>2. ASSUME NEW cred \in Cred, Moves(q, "load", cred, task[q].store),
               cred.refresh \in {0, issued'}, issued' = issued + 1,
               accepted' = accepted \cup ({cred.refresh} \ {0}),
               X(q) \in AuthProviders, task[q].kind \in Logins
        PROVE  StoredRight(q)'
    <3>1. task'[q].cred = cred /\ task'[q].kind = task[q].kind
      BY <2>2 DEF Moves
    <3>2. cred.refresh = 0 \/ FreshToken(q)'
      <4>1. file' = file /\ issued + 1 # 0
        BY <1>11, AuthAssumption DEF Exchange, CrTypes
      <4> QED
        BY <2>2, <4>1, FreshGiven
    <3> QED
      BY <2>2, <3>1, <3>2 DEF StoredRight, Refreshing, Logins
  <2> QED
    BY <1>11, <2>1, <2>2, ExchangeShape
<1> QED
  BY <1>1, <1>2, <1>3, <1>4, <1>5, <1>6, <1>7, <1>8, <1>9, <1>10, <1>11 DEF CrStep, SomeBeginning

LEMMA StoredStep ==
  ASSUME NEW q \in AuthProcs, Ready(q), CrTypes, CredInv, CrStep(q)
  PROVE  TokensStored'
<1>1. Local(q)
  BY LocalStep
<1>2. ASSUME NEW r \in AuthProcs PROVE StoredRight(r)'
  <2>1. StoredRight(r) /\ CredPath(task[r]) /\ TokensApart
    BY DEF CredInv, TokensStored, StoredRight
  <2>2. CASE r = q
    BY <2>1, <2>2, StoredRightStep
  <2>3. CASE r # q
    <3>1. task'[r] = task[r]
      BY <1>1, <2>3 DEF Local, TaskStep
    <3>2. Storing(r) /\ FreshToken(r) => FreshToken(r)'
      BY <1>1, <2>1, <2>3, FreshStays
    <3> QED
      BY <2>1, <3>1, <3>2 DEF StoredRight, Storing, Refreshing
  <2> QED
    BY <2>2, <2>3
<1> QED
  BY <1>2 DEF TokensStored, StoredRight

-----------------------------------------------------------------------------
(* The tokens in the file                                                  *)

OnTheWay(r, x) == Storing(r) /\ Refreshing(r) /\ X(r) = x /\ FreshToken(r)

\* What is on its way in the hands of another process stays there.
LEMMA WayStays ==
  ASSUME NEW q \in AuthProcs, Local(q), CrTypes, CredInv, NEW r \in AuthProcs, r # q,
         NEW x, OnTheWay(r, x)
  PROVE  OnTheWay(r, x)'
<1>1. FreshToken(r)' /\ Storing(r)' /\ task'[r] = task[r]
  BY FreshStays DEF OnTheWay, CredInv
<1> QED
  BY <1>1 DEF OnTheWay, Refreshing, X

\* Token t of provider x is good, whatever q does.
LEMMA GoodStays ==
  ASSUME NEW q \in AuthProcs, Local(q), CrTypes, CredInv, accepted \subseteq accepted',
         NEW x \in AuthProviders \ lapsed, file[x].refresh # 0,
         ~(Storing(q) /\ Refreshing(q) /\ X(q) = x /\ FreshToken(q))
  PROVE  file[x].refresh \in accepted' \/ \E r \in AuthProcs : OnTheWay(r, x)'
<1>1. CASE file[x].refresh \in accepted
  BY <1>1
<1>2. ASSUME NEW r \in AuthProcs, OnTheWay(r, x)
      PROVE  OnTheWay(r, x)'
  <2>1. r # q
    BY <1>2 DEF OnTheWay
  <2> QED
    BY <1>2, <2>1, WayStays
<1> QED
  BY <1>1, <1>2 DEF CredInv, FileTokens, OnTheWay

LEMMA TokensSafe ==
  ASSUME \A x \in AuthProviders : x \notin lapsed' /\ file'[x].refresh # 0 =>
           file'[x].refresh \in accepted' \/ \E r \in AuthProcs : OnTheWay(r, x)'
  PROVE  FileTokens'
  BY DEF FileTokens, OnTheWay

LEMMA TokensUntouched ==
  ASSUME NEW q \in AuthProcs, Local(q), CrTypes, CredInv, file' = file, lapsed \subseteq lapsed',
         accepted \subseteq accepted', ~Storing(q)
  PROVE  FileTokens'
<1>1. ASSUME NEW x \in AuthProviders, x \notin lapsed', file'[x].refresh # 0
      PROVE  file'[x].refresh \in accepted' \/ \E r \in AuthProcs : OnTheWay(r, x)'
  BY <1>1, GoodStays
<1> QED
  BY <1>1, TokensSafe

LEMMA RefreshKeepsTokens ==
  ASSUME NEW q \in AuthProcs, Ready(q), CrTypes, CredInv, UseRefresh(q)
  PROVE  FileTokens'
<1>1. Local(q) /\ CrStep(q)
  BY LocalStep DEF CrStep
<1>2. /\ X(q) \in AuthProviders /\ task[q].step = "refresh"
      /\ task[q].cred = task[q].base /\ task[q].cred.refresh # 0
  BY UseRefreshShape
<1>3. file' = file /\ lapsed \subseteq lapsed'
  BY DEF UseRefresh, Lost
<1>4. CASE accepted \subseteq accepted'
  BY <1>1, <1>2, <1>3, <1>4, TokensUntouched DEF Storing
<1>5. CASE ~(accepted \subseteq accepted')
  <2> DEFINE t == task[q].cred.refresh
  <2>1. /\ accepted' = (accepted \ {t}) \cup {issued'} /\ X(q) \in Rotating
        /\ X(q) \in lapsed' \/ task'[q] # Idle
    <3>1. accepted' = (accepted \ {t}) \cup {issued'} /\ X(q) \in Rotating
      BY <1>5 DEF UseRefresh
    <3>2. X(q) \in lapsed' \/ task'[q] # Idle
      BY <1>5, UseRefreshShape, IdleTyped DEF Moves
    <3> QED
      BY <3>1, <3>2
  <2>2. \/ X(q) \in lapsed'
        \/ Storing(q)' /\ Refreshing(q)' /\ X(q)' = X(q) /\ FreshToken(q)'
    BY <2>1, RefreshStores DEF CredInv
  <2>3. t \in Nat \ {0}
    <3>1. t \in 0..MaxIssued
      BY CredFields DEF CrTypes, TaskType
    <3> QED
      BY <3>1, <1>2, AuthAssumption
  <2>4. Owns(X(q), t)
    BY DEF Owns, Has, X
  <2>5. ASSUME NEW x \in AuthProviders, x \notin lapsed', file'[x].refresh # 0
        PROVE  file'[x].refresh \in accepted' \/ \E r \in AuthProcs : OnTheWay(r, x)'
    <3>1. CASE file[x].refresh = t
      <4>1. x = X(q)
        BY <3>1, <2>3, <2>4, <1>2 DEF CredInv, TokensApart, Owns
      <4> QED
        BY <4>1, <2>2, <2>5 DEF OnTheWay
    <3>2. CASE file[x].refresh # t
      <4>1. CASE file[x].refresh \in accepted
        BY <4>1, <3>2, <2>1, <1>3
      <4>2. ASSUME NEW r \in AuthProcs, OnTheWay(r, x) PROVE OnTheWay(r, x)'
        <5>1. r # q
          BY <4>2, <1>2 DEF OnTheWay, Storing
        <5> QED
          BY <4>2, <5>1, <1>1, WayStays
      <4> QED
        BY <4>1, <4>2, <2>5, <1>3 DEF CredInv, FileTokens, OnTheWay
    <3> QED
      BY <3>1, <3>2
  <2> QED
    BY <2>5, TokensSafe
<1> QED
  BY <1>4, <1>5

LEMMA LoadKeepsTokens ==
  ASSUME NEW q \in AuthProcs, Ready(q), CrTypes, CredInv, LoadStore(q)
  PROVE  FileTokens'
<1>1. Local(q)
  BY LocalStep DEF CrStep
<1>2. file' = file /\ accepted' = accepted
  BY DEF LoadStore
<1>3. ASSUME NEW x \in AuthProviders, x \notin lapsed', file'[x].refresh # 0
      PROVE  file'[x].refresh \in accepted' \/ \E r \in AuthProcs : OnTheWay(r, x)'
  <2>1. x \notin lapsed
    BY <1>3 DEF LoadStore, Lost
  <2>2. CASE ~OnTheWay(q, x)
    BY <1>1, <1>2, <1>3, <2>1, <2>2, GoodStays DEF OnTheWay
  <2>3. CASE OnTheWay(q, x)
    <3>1. Moves(q, "save", task[q].cred, file)
      BY <1>3, <2>1, <2>3, LoadStoreShape DEF OnTheWay
    <3>2. FreshToken(q)'
      BY <1>2, <2>3, <3>1, FreshRead DEF OnTheWay
    <3>3. task'[q].kind = task[q].kind /\ task'[q].provider = X(q) /\ task'[q].step = "save"
      BY <3>1 DEF Moves
    <3> QED
      BY <2>3, <3>2, <3>3 DEF OnTheWay, Storing, Refreshing, X
  <2> QED
    BY <2>2, <2>3
<1> QED
  BY <1>3, TokensSafe

\* An entry that q had seen is left as it is.
LeftAlone(q, x) ==
  /\ x # X(q) \/ task[q].kind = "logoutAlias"
  /\ x \notin lapsed /\ file'[x] = file[x]

\* The entry of a refreshed token, as it was when q began.
Refreshes(q, x) ==
  /\ x = X(q) /\ Refreshing(q) /\ x \notin lapsed
  /\ file[x] = task[q].base /\ file'[x] = task[q].cred

\* A login or a logout sets the entry, whatever was there.
Overwrites(q, x) ==
  x = X(q) /\ task[q].kind \in Logins \cup {"logout"} /\ file'[x] = task[q].cred

LEMMA WriteSeen ==
  ASSUME NEW q \in AuthProcs, Ready(q), X(q) \in AuthProviders, Stores(q),
         task[q].kind \in TokenUsers \cup Logins \cup Logouts,
         NEW x \in AuthProviders, x \notin lapsed'
  PROVE  LeftAlone(q, x) \/ Refreshes(q, x) \/ Overwrites(q, x)
<1>1. /\ x # X(q) \/ task[q].kind = "logoutAlias" => file'[x] = task[q].store[x]
      /\ x = X(q) /\ task[q].kind # "logoutAlias" => file'[x] = task[q].cred
  BY StoredFile
<1>2. /\ x \notin Unseen(q)
      /\ \/ x = X(q) /\ ~Refreshing(q) /\ task[q].kind # "logoutAlias"
         \/ x \notin lapsed
  BY DEF Stores
<1>3. CASE x # X(q) \/ task[q].kind = "logoutAlias"
  <2>1. file[x] = task[q].store[x]
    BY <1>2, <1>3 DEF Unseen
  <2> QED
    BY <2>1, <1>1, <1>2, <1>3 DEF LeftAlone, Refreshing
<1>4. CASE x = X(q) /\ Refreshing(q)
  <2>1. file[x] = task[q].base
    BY <1>2, <1>4 DEF Unseen
  <2> QED
    BY <2>1, <1>1, <1>2, <1>4 DEF Refreshes, Refreshing
<1>5. CASE x = X(q) /\ ~Refreshing(q) /\ task[q].kind # "logoutAlias"
  BY <1>1, <1>5 DEF Overwrites, TokenUsers, Logouts, Refreshing
<1> QED
  BY <1>3, <1>4, <1>5

LEMMA SaveKeepsTokens ==
  ASSUME NEW q \in AuthProcs, Ready(q), CrTypes, CredInv, SaveStore(q)
  PROVE  FileTokens'
<1>1. Local(q) /\ accepted' = accepted
  BY LocalStep DEF CrStep, SaveStore
<1>2. /\ X(q) \in AuthProviders /\ Storing(q)
      /\ task[q].kind \in TokenUsers \cup Logins \cup Logouts
  BY SaveStoreShape DEF Storing
<1>3. IF Refreshing(q) THEN task[q].cred.refresh = task[q].base.refresh \/ FreshToken(q)
      ELSE task[q].cred.refresh = 0 \/ FreshToken(q)
  BY <1>2 DEF CredInv, TokensStored
<1>4. ASSUME file' = file, lapsed' = lapsed \cup (IF Refreshing(q) THEN {X(q)} ELSE {}),
             NEW x \in AuthProviders, x \notin lapsed', file'[x].refresh # 0
      PROVE  file'[x].refresh \in accepted' \/ \E r \in AuthProcs : OnTheWay(r, x)'
  BY <1>1, <1>4, GoodStays
<1>5. ASSUME Stores(q), NEW x \in AuthProviders, x \notin lapsed', file'[x].refresh # 0
      PROVE  file'[x].refresh \in accepted' \/ \E r \in AuthProcs : OnTheWay(r, x)'
  <2>1. CASE LeftAlone(q, x)
    <3>1. ~(Storing(q) /\ Refreshing(q) /\ X(q) = x /\ FreshToken(q))
      BY <2>1 DEF LeftAlone, Refreshing
    <3> QED
      BY <1>1, <1>5, <2>1, <3>1, GoodStays DEF LeftAlone
  <2>2. CASE Refreshes(q, x)
    <3>1. CASE FreshToken(q)
      BY <3>1, <2>2, <1>1 DEF FreshToken, Refreshes
    <3>2. CASE ~FreshToken(q)
      <4>1. file'[x].refresh = file[x].refresh /\ x \in AuthProviders \ lapsed
        BY <3>2, <2>2, <1>3 DEF Refreshes
      <4> QED
        BY <1>1, <1>5, <3>2, <4>1, GoodStays
    <3> QED
      BY <3>1, <3>2
  <2>3. CASE Overwrites(q, x)
    <3>1. ~Refreshing(q)
      BY <2>3 DEF Overwrites, Refreshing, Logins
    <3> QED
      BY <3>1, <2>3, <1>1, <1>3, <1>5 DEF Overwrites, FreshToken
  <2> QED
    BY <1>2, <1>5, <2>1, <2>2, <2>3, WriteSeen
<1> QED
  BY <1>4, <1>5, SaveStoreShape, TokensSafe

LEMMA TokensStep ==
  ASSUME NEW q \in AuthProcs, Ready(q), CrTypes, CredInv, CrStep(q)
  PROVE  FileTokens'
<1>1. Local(q)
  BY LocalStep
<1>2. CASE SomeBeginning(q)
  <2>1. file' = file /\ lapsed' = lapsed /\ accepted' = accepted
    BY <1>2 DEF SomeBeginning, UseBegin, LoginCommand, DeviceLogin, Logout, LogoutAlias,
      OAuthCallback
  <2>2. ~Storing(q)
    BY <1>2, SomeBegins, IdleTyped DEF SomeBeginning, Begins, Storing
  <2> QED
    BY <1>1, <2>1, <2>2, TokensUntouched
<1>3. CASE LogoutAll(q)
  <2>1. \A x \in AuthProviders : file'[x].refresh = 0
    BY <1>3, CredFields DEF LogoutAll
  <2> QED
    BY <2>1, TokensSafe
<1>4. CASE UseGet(q) \/ UseProject(q) \/ LoadConfig(q) \/ SaveConfig(q) \/ Browser(q)
           \/ Poll(q) \/ DeviceRequest(q) \/ Exchange(q)
  <2>1. ~Storing(q)
    BY <1>4 DEF UseGet, UseProject, LoadConfig, SaveConfig, Browser, Poll, DeviceRequest,
      Exchange, At, Storing
  <2>2. file' = file /\ lapsed' = lapsed /\ accepted \subseteq accepted'
    BY <1>4 DEF UseGet, UseProject, LoadConfig, SaveConfig, Browser, Poll, DeviceRequest,
      Exchange
  <2> QED
    BY <1>1, <2>1, <2>2, TokensUntouched
<1> QED
  BY <1>2, <1>3, <1>4, RefreshKeepsTokens, LoadKeepsTokens, SaveKeepsTokens
  DEF CrStep, SomeBeginning

-----------------------------------------------------------------------------
(* Logged out, and the configuration                                       *)

\* CredPath of the operation of q, where it writes the file.
LEMMA Holds ==
  ASSUME NEW q \in AuthProcs, CredPath(task[q]), Storing(q)
  PROVE  /\ Refreshing(q) => task[q].base # None /\ task[q].cred # None
         /\ task[q].kind = "logout" => task[q].cred = None
         /\ task[q].kind \in Logins => task[q].cred # None
  BY DEF CredPath, Storing, Refreshing, TokenUsers, Logins, Logouts

LEMMA OutStep ==
  ASSUME NEW q \in AuthProcs, Ready(q), CrTypes, CredInv, CrStep(q)
  PROVE  LoggedOutStays'
<1>1. CASE file' = file /\ out' = out /\ lapsed \subseteq lapsed'
  BY <1>1 DEF CredInv, LoggedOutStays
<1>2. CASE LogoutAll(q)
  BY <1>2 DEF LogoutAll, LoggedOutStays
<1>3. CASE SaveStore(q) /\ Stores(q)
  <2>1. /\ X(q) \in AuthProviders /\ Storing(q) /\ CredPath(task[q])
        /\ task[q].kind \in TokenUsers \cup Logins \cup Logouts
    BY <1>3, SaveStoreShape DEF Storing, CredInv
  <2>2. out' = CASE task[q].kind = "logout" -> out \cup {X(q)}
                 [] task[q].kind \in Logins -> out \ {X(q)}
                 [] OTHER -> out
    BY <1>3 DEF Stores, Polling, Logins
  <2>3. ASSUME NEW x \in out' \ lapsed' PROVE file'[x] = None
    <3>1. x \in AuthProviders /\ (x \in out \/ (x = X(q) /\ task[q].kind = "logout"))
      BY <2>1, <2>2, <2>3 DEF CrTypes, Logins
    <3>2. CASE LeftAlone(q, x)
      <4>1. x \in out
        BY <3>1, <3>2 DEF LeftAlone
      <4> QED
        BY <4>1, <3>2 DEF LeftAlone, CredInv, LoggedOutStays
    <3>3. CASE Refreshes(q, x)
      <4>1. x \in out /\ x \notin lapsed
        BY <3>1, <3>3 DEF Refreshes, Refreshing
      <4> QED
        BY <4>1, <3>3, <2>1, Holds DEF Refreshes, CredInv, LoggedOutStays
    <3>4. CASE Overwrites(q, x)
      <4>1. task[q].kind = "logout"
        BY <2>2, <2>3, <3>4 DEF Overwrites, Logins
      <4> QED
        BY <4>1, <3>4, <2>1, Holds DEF Overwrites
    <3> QED
      BY <1>3, <2>1, <2>3, <3>1, <3>2, <3>3, <3>4, WriteSeen
  <2> QED
    BY <2>3 DEF LoggedOutStays
<1>4. CASE SaveStore(q) /\ ~Stores(q)
  <2>1. file' = file /\ out' = out /\ lapsed \subseteq lapsed'
    BY <1>4, SaveStoreShape
  <2> QED
    BY <2>1, <1>1
<1>5. CASE ~SaveStore(q) /\ ~LogoutAll(q)
  <2>1. file' = file /\ out' = out /\ lapsed \subseteq lapsed'
    BY <1>5 DEF CrStep, UseBegin, LoginCommand, DeviceLogin, Logout, LogoutAlias,
      OAuthCallback, UseGet, UseRefresh, UseProject, LoadStore, LoadConfig, SaveConfig, Browser, Poll,
      DeviceRequest, Exchange, Lost
  <2> QED
    BY <2>1, <1>1
<1> QED
  BY <1>2, <1>3, <1>4, <1>5

\* q is about to bring the configuration up to date for x.
Updating(q, x) ==
  ~Refreshing(q) /\ x \in About(q) /\ task[q].step \in {"loadConfig", "saveConfig"}

Matched(x) == x \in config <=> file[x] # None

LEMMA FollowsBy ==
  ASSUME \A x \in AuthProviders : x \notin lapsed' /\ x \notin unsure' =>
           Matched(x)' \/ \E r \in AuthProcs : Updating(r, x)'
  PROVE  ConfigFollows'
  BY DEF ConfigFollows, Updating, Matched

\* An entry that q leaves as it is, in the file and in the configuration.
LEMMA FollowsStill ==
  ASSUME NEW q \in AuthProcs, TaskStep(q), CredInv, NEW x \in AuthProviders, x \notin lapsed,
         x \notin unsure, Matched(x)' <=> Matched(x), ~Updating(q, x)
  PROVE  Matched(x)' \/ \E r \in AuthProcs : Updating(r, x)'
<1>1. ASSUME NEW r \in AuthProcs, Updating(r, x) PROVE Updating(r, x)'
  <2>1. task'[r] = task[r]
    BY <1>1 DEF TaskStep
  <2> QED
    BY <1>1, <2>1 DEF Updating, Refreshing, About, X
<1>2. Matched(x) \/ \E r \in AuthProcs : Updating(r, x)
  BY DEF CredInv, ConfigFollows, Updating, Matched
<1> QED
  BY <1>1, <1>2

LEMMA FollowsUntouched ==
  ASSUME NEW q \in AuthProcs, TaskStep(q), CredInv, file' = file, config' = config,
         lapsed \subseteq lapsed', unsure \subseteq unsure',
         task[q].step \notin {"loadConfig", "saveConfig"}
  PROVE  ConfigFollows'
<1>1. ASSUME NEW x \in AuthProviders, x \notin lapsed', x \notin unsure'
      PROVE  Matched(x)' \/ \E r \in AuthProcs : Updating(r, x)'
  <2>1. Matched(x)' <=> Matched(x)
    BY DEF Matched
  <2>2. ~Updating(q, x)
    BY DEF Updating
  <2> QED
    BY <1>1, <2>1, <2>2, FollowsStill
<1> QED
  BY <1>1, FollowsBy

LEMMA SaveFollows ==
  ASSUME NEW q \in AuthProcs, Ready(q), CrTypes, CredInv, SaveStore(q), Stores(q),
         ~Refreshing(q) => Moves(q, "loadConfig", task[q].cred, task[q].store)
  PROVE  ConfigFollows'
<1>1. /\ X(q) \in AuthProviders /\ Storing(q) /\ CredPath(task[q]) /\ task[q].step = "save"
      /\ task[q].kind \in TokenUsers \cup Logins \cup Logouts
  BY SaveStoreShape DEF Storing, CredInv
<1>2. TaskStep(q) /\ config' = config /\ unsure' = unsure
  BY LocalStep DEF CrStep, Local, SaveStore
<1>3. ASSUME ~Refreshing(q), NEW x, x = X(q) PROVE Updating(q, x)'
  <2>1. /\ task'[q].kind = task[q].kind /\ task'[q].provider = X(q)
        /\ task'[q].step = "loadConfig"
    BY <1>3 DEF Moves
  <2>2. task[q].kind # "logoutAll"
    BY <1>1 DEF TokenUsers, Logins, Logouts
  <2> QED
    BY <1>3, <2>1, <2>2 DEF Updating, Refreshing, About, X
<1>4. ASSUME NEW x \in AuthProviders, x \notin lapsed', x \notin unsure'
      PROVE  Matched(x)' \/ \E r \in AuthProcs : Updating(r, x)'
  <2>1. ~Updating(q, x)
    BY <1>1 DEF Updating
  <2>2. CASE x = X(q) /\ ~Refreshing(q)
    BY <1>3, <2>2
  <2>3. CASE LeftAlone(q, x)
    <3>1. Matched(x)' <=> Matched(x)
      BY <1>2, <2>3 DEF Matched, LeftAlone
    <3> QED
      BY <1>2, <1>4, <2>1, <2>3, <3>1, FollowsStill DEF LeftAlone
  <2>4. CASE Refreshes(q, x)
    <3>1. Matched(x)' <=> Matched(x)
      BY <1>1, <1>2, <2>4, Holds DEF Matched, Refreshes
    <3> QED
      BY <1>2, <1>4, <2>1, <2>4, <3>1, FollowsStill DEF Refreshes
  <2>5. CASE Overwrites(q, x)
    BY <2>2, <2>5 DEF Overwrites, Refreshing, Logins
  <2> QED
    BY <1>1, <1>4, <2>3, <2>4, <2>5, WriteSeen
<1> QED
  BY <1>4, FollowsBy

LEMMA LoadConfigFollows ==
  ASSUME NEW q \in AuthProcs, Ready(q), CrTypes, CredInv, LoadConfig(q)
  PROVE  ConfigFollows'
<1>1. task[q].step = "loadConfig" /\ ~Refreshing(q) /\ TaskStep(q)
  BY LoadConfigShape DEF Moves
<1>2. file' = file /\ config' = config /\ lapsed' = lapsed
  BY DEF LoadConfig
<1>3. ASSUME NEW x \in AuthProviders, x \notin lapsed', x \notin unsure'
      PROVE  Matched(x)' \/ \E r \in AuthProcs : Updating(r, x)'
  <2>1. Matched(x)' <=> Matched(x)
    BY <1>2 DEF Matched
  <2>2. x \notin unsure
    BY <1>3 DEF LoadConfig
  <2>3. CASE x \notin About(q)
    BY <1>1, <1>2, <1>3, <2>1, <2>2, <2>3, FollowsStill DEF Updating
  <2>4. CASE x \in About(q)
    <3>1. Moves(q, "saveConfig", task[q].cred, task[q].store)
      BY <1>3, <2>4, LoadConfigShape
    <3>2. /\ task'[q].kind = task[q].kind /\ task'[q].provider = task[q].provider
          /\ task'[q].step = "saveConfig"
      BY <3>1 DEF Moves, X
    <3>3. Updating(q, x)'
      BY <1>1, <2>4, <3>2 DEF Updating, Refreshing, About, X
    <3> QED
      BY <3>3
  <2> QED
    BY <2>3, <2>4
<1> QED
  BY <1>3, FollowsBy

LEMMA SaveConfigFollows ==
  ASSUME NEW q \in AuthProcs, Ready(q), CrTypes, CredInv, SaveConfig(q)
  PROVE  ConfigFollows'
<1>1. task[q].step = "saveConfig" /\ ~Refreshing(q) /\ TaskStep(q)
  BY SaveConfigShape
<1>2. file' = file /\ lapsed' = lapsed
  BY DEF SaveConfig
<1>3. ASSUME NEW x \in AuthProviders, x \notin lapsed', x \notin unsure'
      PROVE  Matched(x)' \/ \E r \in AuthProcs : Updating(r, x)'
  <2>1. CASE config' = config /\ unsure' = unsure \cup About(q)
    <3>1. x \notin unsure /\ ~Updating(q, x) /\ (Matched(x)' <=> Matched(x))
      BY <1>2, <1>3, <2>1 DEF Updating, Matched
    <3> QED
      BY <1>1, <1>2, <1>3, <3>1, FollowsStill
  <2>2. CASE /\ config' = CASE task[q].kind \in {"logout", "logoutAlias"} ->
                                task[q].methods \ {X(q)}
                            [] task[q].kind = "logoutAll" -> {}
                            [] OTHER -> task[q].methods \cup {X(q)}
             /\ unsure' = {y \in unsure : y \notin About(q)}
                       \cup {y \in AuthProviders : y \notin About(q)
                               /\ (y \in config) # (y \in task[q].methods)}
                       \cup {y \in About(q) : ~Matches(y)}
    <3>1. CASE x \in About(q)
      <4>1. Matches(x)
        BY <1>3, <2>2, <3>1
      <4> QED
        BY <4>1, <1>2 DEF Matches, Matched
    <3>2. CASE x \notin About(q)
      <4>1. x \notin unsure /\ (x \in config <=> x \in task[q].methods)
        BY <1>3, <2>2, <3>2
      <4>2. task[q].kind # "logoutAll" /\ x # X(q)
        BY <3>2 DEF About
      <4>3. x \in config' <=> x \in task[q].methods
        BY <2>2, <4>2
      <4>4. Matched(x)' <=> Matched(x)
        BY <1>2, <4>1, <4>3 DEF Matched
      <4> QED
        BY <1>1, <1>2, <1>3, <3>2, <4>1, <4>4, FollowsStill DEF Updating
    <3> QED
      BY <3>1, <3>2
  <2> QED
    BY <2>1, <2>2 DEF SaveConfig
<1> QED
  BY <1>3, FollowsBy

LEMMA LogoutAllFollows ==
  ASSUME NEW q \in AuthProcs, Ready(q), LogoutAll(q)
  PROVE  ConfigFollows'
<1>1. task'[q].kind = "logoutAll" /\ task'[q].step = "loadConfig"
  BY LogoutAllBegins
<1>2. ASSUME NEW x \in AuthProviders PROVE Updating(q, x)'
  BY <1>1 DEF Updating, Refreshing, About
<1> QED
  BY <1>2, FollowsBy

LEMMA FollowsStep ==
  ASSUME NEW q \in AuthProcs, Ready(q), CrTypes, CredInv, CrStep(q)
  PROVE  ConfigFollows'
<1>1. TaskStep(q)
  BY LocalStep DEF Local
<1>2. CASE SomeBeginning(q)
  <2>1. file' = file /\ config' = config /\ lapsed' = lapsed /\ unsure' = unsure
    BY <1>2 DEF SomeBeginning, UseBegin, LoginCommand, DeviceLogin, Logout, LogoutAlias,
      OAuthCallback
  <2>2. task[q].step = "idle"
    BY <1>2, SomeBegins, IdleTyped DEF SomeBeginning, Begins
  <2> QED
    BY <1>1, <2>1, <2>2, FollowsUntouched
<1>3. CASE UseGet(q) \/ UseProject(q) \/ UseRefresh(q) \/ LoadStore(q) \/ Browser(q)
           \/ Poll(q) \/ DeviceRequest(q) \/ Exchange(q)
  <2>1. task[q].step \in {"get", "project", "refresh", "load", "browser", "poll", "request",
                          "exchange"}
    BY <1>3 DEF UseGet, UseProject, UseRefresh, LoadStore, Browser, Poll, DeviceRequest,
      Exchange, At
  <2>2. file' = file /\ config' = config /\ lapsed \subseteq lapsed' /\ unsure' = unsure
    BY <1>3 DEF UseGet, UseProject, UseRefresh, LoadStore, Browser, Poll, DeviceRequest,
      Exchange, Lost
  <2> QED
    BY <1>1, <2>1, <2>2, FollowsUntouched
<1>4. CASE SaveStore(q)
  <2>1. config' = config /\ unsure' = unsure
    BY <1>4 DEF SaveStore
  <2>2. CASE file' = file /\ lapsed \subseteq lapsed'
    <3>1. task[q].step = "save"
      BY <1>4, SaveStoreShape
    <3> QED
      BY <1>1, <2>1, <2>2, <3>1, FollowsUntouched
  <2>3. CASE Stores(q) /\ (~Refreshing(q) => Moves(q, "loadConfig", task[q].cred, task[q].store))
    BY <1>4, <2>3, SaveFollows
  <2> QED
    BY <1>4, <2>2, <2>3, SaveStoreShape
<1> QED
  BY <1>2, <1>3, <1>4, LoadConfigFollows, SaveConfigFollows, LogoutAllFollows
  DEF CrStep, SomeBeginning

-----------------------------------------------------------------------------
(* Types                                                                   *)

LEMMA ReadyTyped ==
  ASSUME CrTypes, CredInv, NEW q \in AuthProcs PROVE Ready(q)
  BY DEF CrTypes, CredInv, Ready, TaskFits

\* What is left of the types: everything but the operations and the file.
OtherTypes ==
  /\ config \subseteq AuthProviders
  /\ accepted \subseteq 1..MaxIssued /\ issued \in 0..MaxIssued
  /\ sessions \subseteq States /\ active \in AuthProcs \cup {Nobody} /\ ops \in 0..MaxOps
  /\ redeemed \in [States -> 0..1]
  /\ out \subseteq AuthProviders /\ lapsed \subseteq AuthProviders /\ unsure \subseteq AuthProviders

LEMMA AboutTyped ==
  ASSUME NEW q \in AuthProcs, CredPath(task[q]), task[q].step # "idle"
  PROVE  About(q) \subseteq AuthProviders
  BY DEF About, CredPath, X, TaskType

LEMMA TypesStep ==
  ASSUME NEW q \in AuthProcs, CrTypes, CredInv, CrStep(q)
  PROVE  CrTypes'
<1> USE AuthAssumption
<1>1. Ready(q) /\ CredPath(task[q]) /\ Local(q)
  BY ReadyTyped, LocalStep DEF CredInv
<1>2. task' \in [AuthProcs -> TaskType] /\ due' = due
  BY <1>1 DEF Local, TaskStep, CrStep, UseBegin, LoginCommand, DeviceLogin, Logout, LogoutAlias,
      OAuthCallback, UseGet, UseRefresh, UseProject, LoadStore, SaveStore, LoadConfig, SaveConfig, Browser, Poll,
      DeviceRequest, Exchange, LogoutAll
<1>3. file' \in [AuthProviders -> Cred]
  <2>1. CASE file' = file
    BY <2>1 DEF CrTypes
  <2>2. CASE SaveStore(q) /\ file' # file
    BY <2>2, <1>1, SaveStoreShape, StoredFile
  <2>3. CASE LogoutAll(q)
    BY <2>3, CredFields DEF LogoutAll
  <2> QED
    BY <2>1, <2>2, <2>3 DEF CrStep, UseBegin, LoginCommand, DeviceLogin, Logout, LogoutAlias,
      OAuthCallback, UseGet, UseRefresh, UseProject, LoadStore, LoadConfig, SaveConfig, Browser, Poll,
      DeviceRequest, Exchange
<1>4. CASE SomeBeginning(q)
  <2>1. /\ config' = config /\ accepted' = accepted /\ issued' = issued /\ active' = active
        /\ out' = out /\ lapsed' = lapsed /\ unsure' = unsure
    BY <1>4 DEF SomeBeginning, UseBegin, LoginCommand, DeviceLogin, Logout, LogoutAlias,
      OAuthCallback
  <2>2. ops < MaxOps /\ ops' = ops + 1
    BY <1>4 DEF SomeBeginning, UseBegin, LoginCommand, DeviceLogin, Logout, LogoutAlias,
      OAuthCallback, BeginWork
  <2>3. CASE sessions' = sessions /\ redeemed' = redeemed
    BY <1>2, <1>3, <2>1, <2>2, <2>3 DEF CrTypes
  <2>4. ASSUME NEW s \in States, OAuthCallback(q, s)
        PROVE  sessions' \subseteq States /\ redeemed' \in [States -> 0..1]
    <3>1. redeemed[s] = 0
      BY <2>4 DEF OAuthCallback, CredInv
    <3> QED
      BY <2>4, <3>1 DEF OAuthCallback, CrTypes
  <2>5. CASE \E s \in States : OAuthCallback(q, s)
    BY <1>2, <1>3, <2>1, <2>2, <2>4, <2>5 DEF CrTypes
  <2> QED
    BY <1>4, <2>3, <2>5 DEF SomeBeginning, UseBegin, LoginCommand, DeviceLogin, Logout, LogoutAlias
<1>5. CASE LogoutAll(q)
  <2>1. ops < MaxOps /\ ops' = ops + 1
    BY <1>5 DEF LogoutAll, BeginWork
  <2> QED
    BY <1>2, <1>3, <1>5, <2>1 DEF CrTypes, LogoutAll
<1>6. CASE UseGet(q) \/ UseProject(q) \/ Browser(q) \/ Poll(q)
  BY <1>2, <1>3, <1>6 DEF CrTypes, UseGet, UseProject, Browser, Poll
<1>7. CASE DeviceRequest(q)
  BY <1>2, <1>3, <1>7 DEF CrTypes, DeviceRequest
<1>8. CASE UseRefresh(q)
  <2>1. X(q) \in AuthProviders
    BY <1>1, <1>8, UseRefreshShape
  <2>2. lapsed' \subseteq AuthProviders
    BY <1>8, <2>1 DEF UseRefresh, Lost, CrTypes
  <2>3. accepted' \subseteq 1..MaxIssued /\ issued' \in 0..MaxIssued /\ unsure' = unsure
    BY <1>8 DEF UseRefresh, CrTypes
  <2> QED
    BY <1>2, <1>3, <1>8, <2>2, <2>3 DEF UseRefresh, CrTypes
<1>9. CASE LoadStore(q)
  <2>1. lapsed' \subseteq AuthProviders
    BY <1>1, <1>9, LoadStoreShape DEF CrTypes
  <2> QED
    BY <1>2, <1>3, <1>9, <2>1 DEF LoadStore, CrTypes
<1>10. CASE SaveStore(q)
  <2>1. X(q) \in AuthProviders
    BY <1>1, <1>10, SaveStoreShape
  <2>2. lapsed' \subseteq AuthProviders /\ out' \subseteq AuthProviders
    BY <1>10, <2>1 DEF SaveStore, Lost, CrTypes, Unseen
  <2> QED
    BY <1>2, <1>3, <1>10, <2>2 DEF SaveStore, CrTypes
<1>11. CASE LoadConfig(q)
  <2>1. About(q) \subseteq AuthProviders
    BY <1>1, <1>11, AboutTyped, LoadConfigShape
  <2> QED
    BY <1>2, <1>3, <1>11, <2>1 DEF LoadConfig, CrTypes
<1>12. CASE SaveConfig(q)
  <2>1. About(q) \subseteq AuthProviders
    BY <1>1, <1>12, AboutTyped, SaveConfigShape
  <2>2. task[q].kind \notin {"logout", "logoutAlias", "logoutAll"} => X(q) \in AuthProviders
    BY <1>1, <1>12, SaveConfigShape DEF CredPath, X
  <2>3. task[q].methods \subseteq AuthProviders
    BY DEF CrTypes, TaskType
  <2>4. config' \subseteq AuthProviders /\ unsure' \subseteq AuthProviders
    BY <1>12, <2>1, <2>2, <2>3 DEF SaveConfig, CrTypes
  <2> QED
    BY <1>2, <1>3, <1>12, <2>4 DEF SaveConfig, CrTypes
<1>13. CASE Exchange(q)
  <2>1. accepted' \subseteq 1..MaxIssued /\ issued' \in 0..MaxIssued
    <3>1. CASE accepted' = accepted /\ issued' = issued
      BY <3>1 DEF CrTypes
    <3>2. ASSUME NEW cred \in Cred, cred.refresh \in {0, issued'}, issued' \in 1..MaxIssued,
                 accepted' = accepted \cup ({cred.refresh} \ {0})
          PROVE  accepted' \subseteq 1..MaxIssued /\ issued' \in 0..MaxIssued
      <4>1. {cred.refresh} \ {0} \subseteq 1..MaxIssued
        BY <3>2
      <4>2. 1..MaxIssued \subseteq 0..MaxIssued
        OBVIOUS
      <4> QED
        BY <3>2, <4>1, <4>2 DEF CrTypes
    <3> QED
      BY <1>1, <1>13, <3>1, <3>2, ExchangeShape
  <2> QED
    BY <1>2, <1>3, <1>13, <2>1 DEF Exchange, CrTypes
<1> QED
  BY <1>4, <1>5, <1>6, <1>7, <1>8, <1>9, <1>10, <1>11, <1>12, <1>13 DEF CrStep, SomeBeginning

-----------------------------------------------------------------------------
(* The invariant                                                           *)

LEMMA StoredAtFirst ==
  ASSUME CrInit, NEW x \in AuthProviders
  PROVE  \/ file[x] = None /\ x \notin config
         \/ /\ x \in config /\ file[x] # None /\ file[x] \in Cred
            /\ file[x].refresh \in DOMAIN Stored /\ Stored[file[x].refresh] = x
<1> DEFINE first == CHOOSE n \in DOMAIN Stored : Stored[n] = x
<1>1. DOMAIN Stored \subseteq 1..MaxIssued /\ MaxIssued \in Nat
  BY AuthAssumption
<1>2. CASE \E n \in DOMAIN Stored : Stored[n] = x
  <2>1. first \in DOMAIN Stored /\ Stored[first] = x
    BY <1>2
  <2>2. file[x] = Fresh(first) /\ x \in config
    BY <1>2 DEF CrInit
  <2> HIDE DEF first
  <2>3. first \in 1..MaxIssued /\ first \in 0..MaxIssued
    BY <1>1, <2>1
  <2>4. Fresh(first) \in Cred /\ Fresh(first) # None
    BY <2>3, CredMade, Zenon DEF Fresh
  <2>5. Fresh(first).refresh = first
    BY Zenon DEF Fresh
  <2> QED
    BY <2>1, <2>2, <2>4, <2>5
<1>3. CASE ~\E n \in DOMAIN Stored : Stored[n] = x
  BY <1>3 DEF CrInit
<1> QED
  BY <1>2, <1>3

LEMMA CredInitially == CrInit => CrTypes /\ CredInv
<1> SUFFICES ASSUME CrInit PROVE CrTypes /\ CredInv
  OBVIOUS
<1> USE AuthAssumption
<1>1. /\ DOMAIN Stored \subseteq 1..MaxIssued /\ issued \in 0..MaxIssued /\ accepted = DOMAIN Stored
      /\ \A n \in DOMAIN Stored : n <= issued
  BY DEF CrInit
<1>2. task = [q \in AuthProcs |-> Idle]
  BY DEF CrInit
<1>3. \A q \in AuthProcs : task[q] = Idle
  BY <1>2
<1>4. task \in [AuthProcs -> TaskType]
  BY <1>2, IdleTyped
<1>5. file \in [AuthProviders -> Cred]
  <2>1. \A x \in AuthProviders : file[x] \in Cred
    BY StoredAtFirst, CredFields
  <2>2. file = [x \in AuthProviders |-> file[x]]
    BY Zenon DEF CrInit
  <2> QED
    BY <2>1, <2>2
<1>6. CrTypes
  BY <1>1, <1>4, <1>5 DEF CrInit, CrTypes
<1>7. ASSUME NEW x \in AuthProviders, NEW t \in Nat \ {0}, Owns(x, t)
      PROVE  t \in DOMAIN Stored /\ Stored[t] = x
  <2>1. file[x].refresh = t
    BY <1>3, <1>7, HasNothing, IdleTyped DEF Owns
  <2> QED
    BY <2>1, StoredAtFirst, CredFields
<1>8. TokensApart
  BY <1>1, <1>7 DEF TokensApart
<1>9. TokensStored
  BY <1>3, IdleTyped DEF TokensStored, Storing
<1>10. FileTokens
  BY <1>1, StoredAtFirst, CredFields DEF FileTokens
<1>11. ConfigFollows
  BY StoredAtFirst DEF ConfigFollows
<1>12. LoggedOutStays /\ \A s \in sessions : redeemed[s] = 0
  BY DEF CrInit, LoggedOutStays
<1>13. \A q \in AuthProcs : CredPath(task[q])
  BY <1>3, IdleTyped
<1> QED
  BY <1>6, <1>8, <1>9, <1>10, <1>11, <1>12, <1>13 DEF CredInv

\* Steps that touch no credential and no operation.
LEMMA CredAround ==
  ASSUME CredInv, UNCHANGED <<file, config, accepted, issued, task, out, lapsed, unsure>>,
         \A s \in sessions' : redeemed'[s] = 0
  PROVE  CredInv'
<1>1. \A q \in AuthProcs : CredPath(task'[q])
  BY DEF CredInv
<1>2. TokensApart'
  BY DEF CredInv, TokensApart, Owns
<1>3. \A q \in AuthProcs : /\ FreshToken(q)' <=> FreshToken(q)
                           /\ Storing(q)' <=> Storing(q)
                           /\ Refreshing(q)' <=> Refreshing(q)
                           /\ X(q)' = X(q) /\ About(q)' = About(q)
  BY DEF FreshToken, Storing, Refreshing, X, About
<1>4. TokensStored'
  BY <1>3 DEF CredInv, TokensStored
<1>5. FileTokens'
  BY <1>3 DEF CredInv, FileTokens
<1>6. LoggedOutStays' /\ ConfigFollows'
  BY <1>3 DEF CredInv, LoggedOutStays, ConfigFollows
<1> QED
  BY <1>1, <1>2, <1>4, <1>5, <1>6 DEF CredInv

LEMMA SessionsStep ==
  ASSUME CrTypes, CredInv, NEW q \in AuthProcs, CrStep(q)
  PROVE  \A s \in sessions' : redeemed'[s] = 0
<1>1. CASE sessions' = sessions /\ redeemed' = redeemed
  BY <1>1 DEF CredInv
<1>2. ASSUME NEW s \in States, OAuthCallback(q, s) PROVE \A z \in sessions' : redeemed'[z] = 0
  BY <1>2 DEF OAuthCallback, CrTypes, CredInv
<1> QED
  BY <1>1, <1>2 DEF CrStep, UseBegin, LoginCommand, DeviceLogin, Logout, LogoutAlias, UseGet,
    UseRefresh,
    UseProject, LoadStore, SaveStore, LoadConfig, SaveConfig, Browser, Poll, DeviceRequest,
    Exchange, LogoutAll

LEMMA CredStepHolds ==
  ASSUME CrTypes, CredInv, NEW q \in AuthProcs, CrStep(q)
  PROVE  CrTypes' /\ CredInv'
<1>1. Ready(q) /\ Local(q)
  BY ReadyTyped, LocalStep
<1>2. \A r \in AuthProcs : CredPath(task'[r])
  BY <1>1 DEF Local, TaskStep, CredInv
<1>3. TokensApart'
  BY <1>1, ApartStep DEF CredInv
<1> QED
  BY <1>1, <1>2, <1>3, TypesStep, StoredStep, TokensStep, OutStep, FollowsStep, SessionsStep
  DEF CredInv

LEMMA CredNextHolds ==
  CrTypes /\ CredInv /\ [CrNext]_crVars => CrTypes' /\ CredInv'
<1> SUFFICES ASSUME CrTypes, CredInv, [CrNext]_crVars PROVE CrTypes' /\ CredInv'
  OBVIOUS
<1>1. CASE UNCHANGED crVars
  <2>1. \A s \in sessions' : redeemed'[s] = 0
    BY <1>1 DEF crVars, CredInv
  <2> QED
    BY <1>1, <2>1, CredAround DEF crVars, CrTypes
<1>2. ASSUME NEW q \in AuthProcs, CrStep(q) PROVE CrTypes' /\ CredInv'
  BY <1>2, CredStepHolds
<1>3. CASE StatusForgets
  <2>1. \A s \in sessions' : redeemed'[s] = 0
    BY <1>3 DEF StatusForgets, CredInv
  <2> QED
    BY <1>3, <2>1, CredAround DEF StatusForgets, CrTypes
<1>4. ASSUME NEW s \in States, LoginStart(s) \/ SessionExpires(s) PROVE CrTypes' /\ CredInv'
  <2>1. \A z \in sessions' : redeemed'[z] = 0
    BY <1>4 DEF LoginStart, SessionExpires, CredInv
  <2> QED
    BY <1>4, <2>1, CredAround DEF LoginStart, SessionExpires, CrTypes
<1>5. ASSUME NEW x \in AuthProviders, Ages(x) PROVE CrTypes' /\ CredInv'
  <2>1. \A s \in sessions' : redeemed'[s] = 0
    BY <1>5 DEF Ages, CredInv
  <2>2. file[x].access \in 1..MaxIssued
    BY <1>5, CredThere DEF Ages, CrTypes
  <2> QED
    BY <1>5, <2>1, <2>2, CredAround DEF Ages, CrTypes
<1> QED
  BY <1>1, <1>2, <1>3, <1>4, <1>5 DEF CrNext, CrStep

LEMMA CredAlways == CrSpec => [](CrTypes /\ CredInv)
  BY CredInitially, CredNextHolds, PTL DEF CrSpec

-----------------------------------------------------------------------------

LEMMA CredsTyped == Cred \subseteq Creds
<1> SUFFICES ASSUME NEW c \in Cred PROVE c \in Creds
  OBVIOUS
<1>1. MaxIssued \in Nat
  BY AuthAssumption
<1>2. 0 \in 0..MaxIssued /\ 1..MaxIssued \subseteq 0..MaxIssued
  BY <1>1
<1>3. CASE c = None
  BY <1>2, <1>3, Zenon DEF Creds, None
<1>4. CASE c \in [access : 1..MaxIssued, refresh : 0..MaxIssued, project : BOOLEAN]
  <2>1. c = [access |-> c.access, refresh |-> c.refresh, project |-> c.project]
    BY <1>4
  <2>2. c.access \in 0..MaxIssued /\ c.refresh \in 0..MaxIssued /\ c.project \in BOOLEAN
    BY <1>2, <1>4
  <2> QED
    BY <2>1, <2>2, Zenon DEF Creds
<1> QED
  BY <1>3, <1>4 DEF Cred

\* The types of the credential file, the operations and their history.
THEOREM CredentialsTypeCorrect == CrSpec => []CredentialsTypeOK
<1>1. CrTypes => CredentialsTypeOK
  BY CredsTyped DEF CrTypes, CredentialsTypeOK
<1> QED
  BY <1>1, CredAlways, PTL

\* Whatever the order in which processes refresh, log in and log out over the one file:
\* an entry nobody wrote over unseen can still be refreshed, a logout stands, and the
\* configuration names a method for exactly the providers with a credential.
THEOREM CredentialsSoundHolds == CrSpec => []CredentialsSound
<1>1. ASSUME CrTypes, CredInv PROVE CredentialsSound
  <2>1. TokenStillGood
    BY <1>1 DEF CredInv, FileTokens, TokenStillGood, OnItsWay, Storing
  <2>2. RefreshStays
    <3>1. ASSUME NEW q \in AuthProcs, Refreshing(q), task[q].step \in {"load", "save"}
          PROVE  task[q].base.refresh # 0 => task[q].cred.refresh # 0
      BY <1>1, <3>1 DEF CredInv, CredPath, Refreshing, TokenUsers
    <3> QED
      BY <3>1 DEF RefreshStays
  <2>3. StateUsedOnce
    BY <1>1 DEF CrTypes, StateUsedOnce
  <2> QED
    BY <1>1, <2>1, <2>2, <2>3 DEF CredInv, CredentialsSound
<1> QED
  BY <1>1, CredAlways, PTL

==============================================================================
