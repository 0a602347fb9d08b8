----------------------------- MODULE SkillFiles -----------------------------
(***************************************************************************)
(* The directory of one skill in the workspace: the install_skill tool     *)
(* (pkg/tools/skills_install.go), the skills commands of other processes   *)
(* (cmd/picoclaw/internal/skills, pkg/skills/installer.go) and what the    *)
(* loader makes of it (pkg/skills/loader.go).  Only the tool takes a lock, *)
(* its own: every agent has an InstallSkillTool, in every process, and     *)
(* agents may share the workspace.                                         *)
(***************************************************************************)
EXTENDS Naturals, FiniteSets

CONSTANTS
  Ops,       \* operations on the skill, numbered as they begin
  Installers,\* instances of InstallSkillTool for this workspace
  AtOnce,    \* bound on those under way
  Extras,    \* the files of an archive beside SKILL.md
  FrontOf,   \* FrontOf[i]: what the SKILL.md of i is called: "same", "other" or "invalid"
  Elsewhere, \* whether the global or builtin skills have one of the same name
  MaxTries   \* requests for one file from GitHub

NoTool == "no tool"

\* The operations are numbered in the order in which they begin.
ASSUME SkillsAssumption == Ops \subseteq Nat /\ NoTool \notin Installers

VARIABLES
  present,    \* whether the directory exists
  skillFiles, \* skillFiles[f]: the operation that wrote f, for those that exist
  lock,       \* the operations that hold the lock of their tool
  tool,       \* tool[i]: the instance of InstallSkillTool that i is a call of
  op,         \* op[i]: [kind, step, meta, left, next, tries]
  met         \* met[i]: the operations under way while i was

skVars == <<present, skillFiles, lock, tool, op, met>>

Tools == {"tool", "force"}
Kinds == Tools \cup {"registry", "github", "copy", "remove"}
Outcomes == {"installed", "failed", "blocked", "exists", "removed", "missing", "crashed",
             "claimed"} \* a copy that failed, before "All builtin skills installed!"
Archive == {"skill"} \cup Extras

SkInit ==
  /\ present = FALSE /\ skillFiles = [f \in {} |-> 0] /\ lock = {}
  /\ op = [i \in Ops |-> [kind |-> "none", step |-> "idle", meta |-> "unknown", left |-> {},
                          next |-> "none", tries |-> 0]]
  /\ tool = [i \in Ops |-> NoTool] /\ met = [i \in Ops |-> {}]

UnderWay == {i \in Ops : op[i].step \notin {"idle"} \cup Outcomes}

-----------------------------------------------------------------------------
(* Parts of the operations                                                 *)

\* The step an operation goes to; the lock is given back at the end.
Go(i, s) ==
  /\ op' = IF s \in Outcomes
           THEN [op EXCEPT ![i] = [kind |-> @.kind, step |-> s, meta |-> @.meta, left |-> {},
                                   next |-> "none", tries |-> 0]]
           ELSE [op EXCEPT ![i].step = s]
  /\ lock' = IF s \in Outcomes THEN lock \ {i} ELSE lock

\* os.RemoveAll, and what follows it.
ClearThen(i, s) ==
  /\ op' = [op EXCEPT ![i].step = "clearing", ![i].next = s]
  /\ UNCHANGED lock

-----------------------------------------------------------------------------
(* The operations                                                          *)

\* The check for an existing directory, which force and the copies leave out.
Checked(i, kind) ==
  CASE kind = "force"  -> [step |-> "clearing", next |-> "lookup"]
    [] kind = "copy"   -> [step |-> "opening", next |-> "none"]
    [] kind = "remove" -> [step |-> IF present THEN "clearing" ELSE "missing", next |-> "removed"]
    [] OTHER           -> [step |-> IF present THEN "exists"
                                    ELSE IF kind = "github" THEN "fetching" ELSE "lookup",
                           next |-> "none"]

\* The instance of the tool that is called, if it is one: it locks itself.
Caller(kind) == IF kind \in Tools THEN Installers ELSE {NoTool}

Begin(i, kind, t) ==
  /\ op[i].step = "idle" /\ \A j \in Ops : j < i => op[j].step # "idle"
  /\ Cardinality(UnderWay) < AtOnce
  /\ kind \in Tools => \A j \in lock : tool[j] # t
  /\ op' = [op EXCEPT ![i] = [kind |-> kind, step |-> Checked(i, kind).step, meta |-> "unknown",
                              left |-> Archive, next |-> Checked(i, kind).next, tries |-> 0]]
  /\ lock' = IF kind \in Tools /\ op'[i].step \notin Outcomes THEN lock \cup {i} ELSE lock
  /\ tool' = [tool EXCEPT ![i] = t]
  /\ met' = [j \in Ops |-> IF j = i THEN UnderWay
                           ELSE IF j \in UnderWay THEN met[j] \cup {i} ELSE met[j]]
  /\ UNCHANGED <<present, skillFiles>>

\* os.RemoveAll takes the files one by one, then the directory.
ClearFile(i, f) ==
  /\ op[i].step = "clearing" /\ f \in DOMAIN skillFiles
  /\ skillFiles' = [g \in DOMAIN skillFiles \ {f} |-> skillFiles[g]]
  /\ UNCHANGED <<present, lock, op, tool, met>>
Cleared(i) ==
  /\ op[i].step = "clearing" /\ DOMAIN skillFiles = {}
  /\ present' = FALSE /\ Go(i, op[i].next)
  /\ UNCHANGED <<skillFiles, tool, met>>

\* The registry, and what it says of the skill: without an answer the download goes on.
NotFound(i) ==
  /\ op[i].step = "lookup" /\ op[i].kind \in Tools
  /\ Go(i, "failed") /\ UNCHANGED <<present, skillFiles, tool, met>>
GetSkillMeta(i, meta) ==
  /\ op[i].step = "lookup"
  /\ op' = [op EXCEPT ![i].step = "download", ![i].meta = meta]
  /\ UNCHANGED <<present, skillFiles, lock, tool, met>>

\* The archive comes to a temporary file first.
DownloadToFile(i) ==
  /\ op[i].step = "download" /\ Go(i, "opening")
  /\ UNCHANGED <<present, skillFiles, tool, met>>
DownloadFails(i) ==
  /\ op[i].step = "download" /\ ClearThen(i, "failed")
  /\ UNCHANGED <<present, skillFiles, tool, met>>

\* One file of SKILL.md, asked for up to MaxTries times.
Fetch(i) ==
  /\ op[i].step = "fetching" /\ Go(i, "opening")
  /\ UNCHANGED <<present, skillFiles, tool, met>>
FetchFails(i) ==
  /\ op[i].step = "fetching"
  /\ \/ op[i].tries + 1 < MaxTries /\ op' = [op EXCEPT ![i].tries = @ + 1] /\ UNCHANGED lock
     \/ Go(i, "failed")
  /\ UNCHANGED <<present, skillFiles, tool, met>>

\* The directory is made: for an archive, or for the one file of GitHub.
Open(i) ==
  /\ op[i].step = "opening" /\ op[i].kind # "copy"
  /\ op' = [op EXCEPT ![i].step = "writing",
                      ![i].left = IF op[i].kind = "github" THEN {"skill"} ELSE @]
  /\ present' = TRUE
  /\ UNCHANGED <<skillFiles, lock, tool, met>>

\* A builtin skill of that name is copied over what there is.
CopyBuiltin(i) ==
  /\ op[i].step = "opening" /\ op[i].kind = "copy"
  /\ present' = TRUE /\ Go(i, "copying") /\ UNCHANGED <<skillFiles, tool, met>>

\* i writes f, one of the files it has left.
PutFile(i, f) ==
  /\ f \in op[i].left
  /\ skillFiles' = [g \in DOMAIN skillFiles \cup {f} |-> IF g = f THEN i ELSE skillFiles[g]]
  /\ op' = [op EXCEPT ![i].left = @ \ {f}]
  /\ UNCHANGED <<lock, tool, met>>

\* A file of the archive, or of GitHub; its directory is made again when it is gone.
Write(i, f) == op[i].step = "writing" /\ PutFile(i, f) /\ present' = TRUE
CopyFile(i, f) == op[i].step = "copying" /\ present /\ PutFile(i, f) /\ UNCHANGED present

\* Mutant of WriteFails: what was extracted stays.
WriteFailsKeeping(i) ==
  /\ op[i].step = "writing" /\ op[i].left # {} /\ Go(i, "failed")
  /\ UNCHANGED <<present, skillFiles, tool, met>>

\* An error: an archive that was begun is removed, a file of GitHub leaves its directory.
WriteFails(i) ==
  /\ op[i].step = "writing" /\ op[i].left # {}
  /\ IF op[i].kind = "github" THEN Go(i, "failed") ELSE ClearThen(i, "failed")
  /\ UNCHANGED <<present, skillFiles, tool, met>>

\* The command goes on after it, and says in the end that all are installed.
CopyFails(i) ==
  /\ \/ op[i].step = "opening" /\ op[i].kind = "copy"
     \/ op[i].step = "copying" /\ op[i].left # {}
  /\ Go(i, "claimed")
  /\ UNCHANGED <<present, skillFiles, tool, met>>

\* A skill that is flagged is removed again; the tool notes where the others come from.
Moderate(i) ==
  /\ op[i].step = "writing" /\ op[i].left = {} /\ op[i].kind \in Tools
  /\ IF op[i].meta = "malicious" THEN ClearThen(i, "blocked") ELSE Go(i, "marking")
  /\ UNCHANGED <<present, skillFiles, tool, met>>
Report(i) ==
  /\ op[i].step \in {"writing", "copying"} /\ op[i].left = {} /\ op[i].kind \notin Tools
  /\ IF op[i].meta = "malicious" THEN ClearThen(i, "blocked") ELSE Go(i, "installed")
  /\ UNCHANGED <<present, skillFiles, tool, met>>
WriteOrigin(i) ==
  /\ op[i].step = "marking" /\ Go(i, "installed")
  /\ \/ /\ present' = TRUE
        /\ skillFiles' = [g \in DOMAIN skillFiles \cup {"origin"} |-> IF g = "origin" THEN i ELSE skillFiles[g]]
     \/ UNCHANGED <<present, skillFiles>>
  /\ UNCHANGED <<tool, met>>

\* The process of i ends.
ProcessEnds(i) == i \in UnderWay /\ Go(i, "crashed") /\ UNCHANGED <<present, skillFiles, tool, met>>

SkNext ==
  \E i \in Ops :
    \/ \E kind \in Kinds : \E t \in Caller(kind) : Begin(i, kind, t)
    \/ \E f \in DOMAIN skillFiles : ClearFile(i, f)
    \/ \E meta \in {"unknown", "clean", "malicious"} : GetSkillMeta(i, meta)
    \/ \E f \in Archive : Write(i, f) \/ CopyFile(i, f)
    \/ Cleared(i) \/ NotFound(i) \/ DownloadToFile(i) \/ DownloadFails(i) \/ Fetch(i)
    \/ FetchFails(i) \/ Open(i) \/ CopyBuiltin(i) \/ WriteFails(i) \/ CopyFails(i)
    \/ Moderate(i) \/ Report(i) \/ WriteOrigin(i) \/ ProcessEnds(i)

SkSpec == SkInit /\ [][SkNext]_skVars

-----------------------------------------------------------------------------
(* The loader                                                              *)

\* What the metadata of a SKILL.md says, or of a front matter that cannot be read.
NamesItself(i) == FrontOf[i] = "same"

\* ListSkills: the source of the first skill of that name whose metadata is valid.
ListedFrom ==
  IF "skill" \in DOMAIN skillFiles /\ NamesItself(skillFiles["skill"]) THEN "workspace"
  ELSE IF Elsewhere THEN "elsewhere" ELSE "none"

\* LoadSkill: the first directory of that name with a SKILL.md, whatever it says.
LoadedFrom ==
  IF "skill" \in DOMAIN skillFiles THEN "workspace"
  ELSE IF Elsewhere THEN "elsewhere" ELSE "none"

-----------------------------------------------------------------------------
(* Properties                                                              *)

SkTypeOK ==
  /\ present \in BOOLEAN /\ DOMAIN skillFiles \subseteq Archive \cup {"origin"}
  /\ \A f \in DOMAIN skillFiles : skillFiles[f] \in Ops
  /\ lock \subseteq Ops /\ tool \in [Ops -> Installers \cup {NoTool}]
  /\ met \in [Ops -> SUBSET Ops]
  /\ \A i \in Ops : op[i].kind \in Kinds \cup {"none"} /\ op[i].left \subseteq Archive

\* The last operation that has changed anything, when it met no other one.
Alone(i) == met[i] = {} /\ \A j \in Ops : j > i => op[j].step \in {"idle", "exists", "missing"}

\* An install that says it succeeded has left all of its files and, unless it copied, no
\* other: the skill is listed from the workspace under the name it gives itself.  Excused
\* are the builtin skills whose copy failed: install-builtin claims them at the end.
SuccessIsWhole ==
  \A i \in Ops : op[i].step = "installed" /\ Alone(i) =>
    LET given == IF op[i].kind = "github" THEN {"skill"} ELSE Archive IN
    /\ \A f \in given : f \in DOMAIN skillFiles /\ skillFiles[f] = i
    /\ op[i].kind # "copy" => \A f \in DOMAIN skillFiles : skillFiles[f] = i
    /\ NamesItself(i) => ListedFrom = "workspace"

\* One that failed or was blocked has left nothing, so that it can be tried again; only a
\* file of GitHub that could not be written leaves its empty directory.
FailureLeavesNothing ==
  \A i \in Ops : op[i].step \in {"failed", "blocked"} /\ Alone(i) =>
    \/ ~present
    \/ op[i].kind = "github" /\ DOMAIN skillFiles = {}

\* Files of two installs lie together only if the installs met or one copied over the
\* other's.
MixedIfMet ==
  \A f, g \in DOMAIN skillFiles :
    LET i == skillFiles[f]  j == skillFiles[g] IN
    i = j \/ i \in met[j] \/ j \in met[i] \/ "copy" \in {op[i].kind, op[j].kind}

\* A file of a skill that the registry has flagged is there only until its install has
\* removed it, or after a crash of that install.
FlaggedIsRemoved ==
  \A f \in DOMAIN skillFiles :
    op[skillFiles[f]].meta = "malicious" => op[skillFiles[f]].step \in {"writing", "clearing", "crashed"}

\* Two calls of one agent's tool never meet; those of two agents, or processes, may.
ToolsTakeTurns ==
  \A i \in Ops : tool[i] \in Installers => \A j \in met[i] : tool[j] # tool[i]

\* The skill that is listed is the one that is loaded, unless the workspace has one that
\* calls itself by another name or has no valid metadata.
ListedIsLoaded ==
  ListedFrom # LoadedFrom => "skill" \in DOMAIN skillFiles /\ ~NamesItself(skillFiles["skill"])

\* What the operations leave in the directory of a skill: the conditions above.
SkillsSound ==
  /\ SuccessIsWhole /\ FailureLeavesNothing /\ MixedIfMet /\ FlaggedIsRemoved
  /\ ToolsTakeTurns /\ ListedIsLoaded
=============================================================================
