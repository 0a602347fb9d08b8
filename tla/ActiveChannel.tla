--------------------------- MODULE ActiveChannel ---------------------------
(***************************************************************************)
(* pkg/state, pkg/fileutil, pkg/heartbeat and pkg/devices: the chat that    *)
(* was last in use, saved for the heartbeat and the device notifications.   *)
(* Three state managers share one file: the agent loop's, which every       *)
(* round with a chat updates, and those of the heartbeat and of the device  *)
(* service, which read the file when the process starts.                    *)
(***************************************************************************)
EXTENDS Naturals

CONSTANTS
  Chats,      \* "channel:chatID" pairs outside the internal channels
  NoChat,     \* none recorded, or an internal channel
  LegacyChat, \* the chat in workspace/state.json, or NoChat without that file
  MaxRounds,  \* bound on the rounds
  MaxCrashes  \* bound on the restarts

\* What the bounds and the old file may be.
ASSUME AcAssumption ==
  /\ LegacyChat \in Chats \cup {NoChat}
  /\ MaxRounds \in Nat /\ MaxCrashes \in Nat

Services == {"heartbeat", "devices"}
Managers == Services \cup {"agent"}

\* state.json is absent or a whole state; a write in place could leave it broken.
NoFile == [kind |-> "absent", chat |-> NoChat]
Whole(c) == [kind |-> "whole", chat |-> c]

VARIABLES
  stateFile, \* workspace/state/state.json
  known,     \* known[m]: LastChannel of the manager m
  saving,    \* the agent's manager, its lock held: "no", "temp", "renaming" (temp is written)
  beat,      \* the heartbeat: "waiting", "resolved" (its chat looked up), "off"
  beatChat,  \* the chat of that heartbeat
  rounds, crashes,
  lastUser,  \* history: the chat of the last round a user began
  saved      \* history: the chat of the last round whose save came to the rename

acVars == <<stateFile, known, saving, beat, beatChat, rounds, crashes, lastUser, saved>>

\* NewManager: the new file, or else the old one.  The device service sends its
\* notifications to what its manager has loaded, and the heartbeat looks there.
LoadedChat(f) == IF f.kind = "absent" THEN LegacyChat ELSE f.chat

\* NewManager writes the new file when it has read the old one.
Migrated(f) ==
  IF f.kind = "absent" /\ LegacyChat # NoChat THEN Whole(LegacyChat) ELSE f

AcInit ==
  /\ stateFile = Migrated(NoFile)
  /\ known = [m \in Managers |-> LoadedChat(NoFile)]
  /\ saving = "no" /\ beat = "waiting" /\ beatChat = NoChat
  /\ rounds = 0 /\ crashes = 0
  /\ lastUser = LegacyChat /\ saved = LegacyChat

-----------------------------------------------------------------------------
(* runAgentLoop: RecordLastChannel and SetLastChannel                      *)

Record(c) ==
  /\ saving = "no" /\ rounds < MaxRounds /\ rounds' = rounds + 1
  /\ known' = [known EXCEPT !["agent"] = c]
  /\ saving' = "temp"

\* A round for a message of a user.
UserRound(c) ==
  /\ Record(c) /\ lastUser' = c
  /\ UNCHANGED <<stateFile, beat, beatChat, crashes, saved>>

\* A round for a cron job or a subagent's result, in the chat it was asked for in.
OwnRound(c) ==
  /\ Record(c)
  /\ UNCHANGED <<stateFile, beat, beatChat, crashes, lastUser, saved>>

\* Mutant of StateWrite: the file itself is written, after it was truncated.
StateWriteInPlace ==
  /\ saving = "temp" /\ stateFile' = [kind |-> "broken", chat |-> NoChat]
  /\ saving' = "renaming"
  /\ UNCHANGED <<known, beat, beatChat, rounds, crashes, lastUser, saved>>

\* WriteFileAtomic: the temporary file is written and synced ...
StateWrite ==
  /\ saving = "temp" /\ saving' = "renaming"
  /\ UNCHANGED <<stateFile, known, beat, beatChat, rounds, crashes, lastUser, saved>>

\* ... and renamed to the file.
StateRename ==
  /\ saving = "renaming" /\ saving' = "no"
  /\ stateFile' = Whole(known["agent"]) /\ saved' = known["agent"]
  /\ UNCHANGED <<known, beat, beatChat, rounds, crashes, lastUser>>

\* Either fails: a warning, and the manager keeps what it could not save.
StateFails ==
  /\ saving \in {"temp", "renaming"} /\ saving' = "no"
  /\ UNCHANGED <<stateFile, known, beat, beatChat, rounds, crashes, lastUser, saved>>

-----------------------------------------------------------------------------
(* The heartbeat                                                           *)

\* executeHeartbeat: running, a prompt is there, the last channel is looked up.
BeatResolve ==
  /\ beat = "waiting" /\ beat' = "resolved"
  /\ beatChat' = known["heartbeat"]
  /\ UNCHANGED <<stateFile, known, saving, rounds, crashes, lastUser, saved>>

\* ProcessHeartbeat runs a round in that chat, which records it in its turn;
\* without one the round is for cli:direct.  The result is always silent.
BeatRound ==
  /\ beat = "resolved" /\ beat' = "waiting"
  /\ \/ beatChat # NoChat /\ Record(beatChat)
     \/ beatChat = NoChat /\ UNCHANGED <<known, saving, rounds>>
  /\ UNCHANGED <<stateFile, beatChat, crashes, lastUser, saved>>

\* Stop; a heartbeat that is under way goes on.
StopBeat ==
  /\ beat = "waiting" /\ beat' = "off"
  /\ UNCHANGED <<stateFile, known, saving, beatChat, rounds, crashes, lastUser, saved>>

-----------------------------------------------------------------------------
\* The process ends at any step and starts anew.
Restart ==
  /\ crashes < MaxCrashes /\ crashes' = crashes + 1
  /\ known' = [m \in Managers |-> LoadedChat(stateFile)]
  /\ stateFile' = Migrated(stateFile)
  /\ saving' = "no" /\ beat' = "waiting" /\ beatChat' = NoChat
  /\ UNCHANGED <<rounds, lastUser, saved>>

AcNext ==
  \/ \E c \in Chats : UserRound(c) \/ OwnRound(c)
  \/ StateWrite \/ StateRename \/ StateFails
  \/ BeatResolve \/ BeatRound \/ StopBeat
  \/ Restart

AcSpec == AcInit /\ [][AcNext]_acVars

-----------------------------------------------------------------------------
AcTypeOK ==
  /\ stateFile \in [kind : {"absent", "whole", "broken"}, chat : Chats \cup {NoChat}]
  /\ known \in [Managers -> Chats \cup {NoChat}]
  /\ saving \in {"no", "temp", "renaming"} /\ beat \in {"waiting", "resolved", "off"}
  /\ {beatChat, lastUser, saved} \subseteq Chats \cup {NoChat}
  /\ rounds \in 0..MaxRounds /\ crashes \in 0..MaxCrashes

\* Whenever the process ends, also in the middle of a save, a new one knows the chat of
\* the last round that was saved.
RestartRemembers == LoadedChat(stateFile) = saved

\* Says the comment on HeartbeatHandler, and not so in the code: a heartbeat is for the
\* chat of the last user.
BeatForLastUser == [][BeatResolve => beatChat' = lastUser]_acVars
=============================================================================
