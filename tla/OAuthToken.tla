---------------------------- MODULE OAuthToken -----------------------------
(***************************************************************************)
(* The OAuth token of the cloud and Fleet API clients: the notifying token *)
(* source of pkgs/oauthclient, persistToken, and the auth file with both   *)
(* ways pkgs/atomicfile has to replace it, with requests that run          *)
(* concurrently, writes that fail half way, and a process that crashes at  *)
(* any moment and starts again from the file.                              *)
(*                                                                         *)
(* Tokens are numbered in the order the server issues them; an access and  *)
(* its refresh token are one token.  The token source underneath           *)
(* (oauth2.reuseTokenSource) is external: it serialises its callers, and   *)
(* refreshes when its token has expired.                                   *)
(*                                                                         *)
(* A crash is that of the process, the one with which the runtime may      *)
(* answer the data race on the auth map included: what was written to a    *)
(* file stays written.                                                     *)
(***************************************************************************)
EXTENDS Naturals

CONSTANTS
  Callers,     \* requests in flight
  MaxToken,    \* bound on the tokens issued
  MaxCrashes,  \* bound on the crashes
  NoFile,      \* there is no such file
  Torn         \* the content of a file that is not yet, or only half, written

ASSUME OAuthTokenAssumption ==
  /\ MaxToken \in Nat /\ MaxCrashes \in Nat
  /\ NoFile \notin Nat /\ Torn \notin Nat \cup {NoFile}

Tokens == 0..MaxToken

VARIABLES
  up,        \* the process runs and Authenticate has succeeded
  src,       \* the token source's token
  expired,   \* that token has expired
  last,      \* notifyingSource.last
  mem,       \* the token in authData, the decoded auth file
  disk,      \* the token in the auth file, or Torn, or NoFile
  temp,      \* [Callers -> what the temporary file of each one's write holds]
  windows,   \* which atomicfile was built: that of Windows
  issued,    \* server: the newest token
  call,      \* [Callers -> what each request is doing]
  notified,  \* history: the tokens onRefresh was called with since the start
  late,      \* history: a superseded token was merged or written last
  failed,    \* history: a write failed, and the newest token has not been written since
  crashes    \* history

files == <<disk, temp, windows>>
vars == <<up, src, expired, last, mem, files, issued, call, notified, late, failed, crashes>>

Contents == Tokens \cup {Torn, NoFile}

Idle == [pc |-> "idle", tok |-> 0]
Call == [pc : {"idle", "compare", "merge", "marshal", "write", "fill", "remove", "rename"},
         tok : Tokens]

NoTemp == [c \in Callers |-> NoFile]

Quiet == \A c \in Callers : call[c].pc = "idle"
-----------------------------------------------------------------------------
(***************************************************************************)
(* The process is down; there may be an auth file from an earlier setup,   *)
(* else a refresh token in the environment.  Token 0 is either.            *)
(***************************************************************************)
Init ==
  /\ up = FALSE
  /\ src = 0 /\ last = 0 /\ mem = 0 /\ issued = 0
  /\ expired = FALSE
  /\ disk \in {0, NoFile} /\ temp = NoTemp /\ windows \in BOOLEAN
  /\ call = [c \in Callers |-> Idle]
  /\ notified = {}
  /\ late = FALSE /\ failed = FALSE
  /\ crashes = 0

\* Authenticate: the auth file, if it can be parsed, or the bootstrap from
\* the environment.
Authenticate ==
  /\ ~up /\ disk # Torn
  /\ up' = TRUE
  /\ LET tok == IF disk = NoFile THEN 0 ELSE disk IN
       /\ disk' = tok
       /\ src' = tok /\ last' = tok /\ mem' = tok
  /\ expired' \in BOOLEAN
  /\ late' = FALSE /\ failed' = FALSE
  /\ notified' = {}
  /\ UNCHANGED <<temp, windows, issued, call, crashes>>

Expire ==
  /\ up /\ ~expired
  /\ expired' = TRUE
  /\ UNCHANGED <<up, src, last, mem, files, issued, call, notified, late, failed, crashes>>

\* base.Token(): the current token, or a new one.  A refresh token is good
\* once: the server refuses all but the newest.
BaseToken(c) ==
  /\ up /\ call[c].pc = "idle"
  /\ \/ /\ ~expired
        /\ call' = [call EXCEPT ![c] = [pc |-> "compare", tok |-> src]]
        /\ UNCHANGED <<src, expired, issued>>
     \/ /\ expired /\ src = issued /\ issued < MaxToken
        /\ issued' = issued + 1
        /\ src' = issued + 1
        /\ expired' = FALSE
        /\ call' = [call EXCEPT ![c] = [pc |-> "compare", tok |-> issued + 1]]
  /\ UNCHANGED <<up, last, mem, files, notified, late, failed, crashes>>
-----------------------------------------------------------------------------
\* Mutant: only the first token after the start counts as changed.
ChangedOnce(tok) == tok # last /\ notified = {}

Changed(tok) == tok # last

\* notifyingSource.Token, under its mutex, and the call of onRefresh.
Compare(c) ==
  LET tok == call[c].tok IN
  /\ call[c].pc = "compare"
  /\ \/ /\ Changed(tok)
        /\ last' = tok
        /\ notified' = notified \cup {tok}
        /\ call' = [call EXCEPT ![c].pc = "merge"]
     \/ /\ ~Changed(tok)
        /\ call' = [call EXCEPT ![c] = Idle]
        /\ UNCHANGED <<last, notified>>
  /\ UNCHANGED <<up, src, expired, mem, files, issued, late, failed, crashes>>

\* Mutant: the token is merged into a copy of the map.
MergeIntoCopy(c) ==
  /\ call[c].pc = "merge"
  /\ call' = [call EXCEPT ![c].pc = "marshal"]
  /\ UNCHANGED <<up, src, expired, last, mem, files, issued, notified, late, failed, crashes>>

\* persistToken merges the token into the shared map ...
Merge(c) ==
  /\ call[c].pc = "merge"
  /\ mem' = call[c].tok
  /\ late' = (late \/ call[c].tok < mem)
  /\ call' = [call EXCEPT ![c].pc = "marshal"]
  /\ UNCHANGED <<up, src, expired, last, files, issued, notified, failed, crashes>>

\* ... and WriteJSON marshals the map, whatever it holds by then ...
Marshal(c) ==
  /\ call[c].pc = "marshal"
  /\ call' = [call EXCEPT ![c] = [pc |-> "write", tok |-> mem]]
  /\ UNCHANGED <<up, src, expired, last, mem, files, issued, notified, late, failed, crashes>>

(***************************************************************************)
(* ... and atomicfile.Write replaces the file: a temporary file under a    *)
(* name of its own, which is filled, closed, and renamed.  On Windows the  *)
(* file that is there is removed first.  The errors of a write are only    *)
(* logged.                                                                 *)
(***************************************************************************)
\* Mutant: the writes share one name for their temporary file.
OpenedAlike(c) ==
  [d \in Callers |-> IF d = c \/ temp[d] # NoFile THEN Torn ELSE temp[d]]

Opened(c) == [temp EXCEPT ![c] = Torn]

Closed(c) == [temp EXCEPT ![c] = NoFile]

Open(c) ==
  /\ call[c].pc = "write"
  /\ temp' = Opened(c)
  /\ call' = [call EXCEPT ![c].pc = "fill"]
  /\ UNCHANGED <<up, src, expired, last, mem, disk, windows, issued, notified, late, failed,
                 crashes>>

Fill(c) ==
  /\ call[c].pc = "fill"
  /\ temp' = [temp EXCEPT ![c] = call[c].tok]
  /\ call' = [call EXCEPT ![c].pc = IF windows THEN "remove" ELSE "rename"]
  /\ UNCHANGED <<up, src, expired, last, mem, disk, windows, issued, notified, late, failed,
                 crashes>>

\* os.Remove(path), its error ignored.
Remove(c) ==
  /\ call[c].pc = "remove"
  /\ disk' \in {disk, NoFile}
  /\ call' = [call EXCEPT ![c].pc = "rename"]
  /\ UNCHANGED <<up, src, expired, last, mem, temp, windows, issued, notified, late, failed,
                 crashes>>

Rename(c) ==
  /\ call[c].pc = "rename"
  /\ disk' = temp[c]
  /\ temp' = Closed(c)
  /\ late' = (call[c].tok # mem \/ (late /\ mem # src))
  /\ failed' = (failed /\ call[c].tok # src)
  /\ call' = [call EXCEPT ![c] = Idle]
  /\ UNCHANGED <<up, src, expired, last, mem, windows, issued, notified, crashes>>

\* The temporary file goes with the write.
WriteFails(c) ==
  /\ call[c].pc \in {"write", "fill", "rename"}
  /\ temp' = Closed(c)
  /\ failed' = TRUE
  /\ call' = [call EXCEPT ![c] = Idle]
  /\ UNCHANGED <<up, src, expired, last, mem, disk, windows, issued, notified, late, crashes>>

\* What is left of temporary files nobody opens again.
Crash ==
  /\ up /\ crashes < MaxCrashes
  /\ up' = FALSE
  /\ crashes' = crashes + 1
  /\ call' = [c \in Callers |-> Idle]
  /\ temp' = NoTemp
  /\ UNCHANGED <<src, expired, last, mem, disk, windows, issued, notified, late, failed>>

Step(c) ==
  \/ BaseToken(c) \/ Compare(c) \/ Merge(c) \/ Marshal(c)
  \/ Open(c) \/ Fill(c) \/ Remove(c) \/ Rename(c) \/ WriteFails(c)

Next == Authenticate \/ Expire \/ Crash \/ \E c \in Callers : Step(c)

Spec == Init /\ [][Next]_vars
-----------------------------------------------------------------------------
TypeOK ==
  /\ up \in BOOLEAN /\ expired \in BOOLEAN /\ late \in BOOLEAN /\ failed \in BOOLEAN
  /\ src \in Tokens /\ last \in Tokens /\ mem \in Tokens /\ issued \in Tokens
  /\ disk \in Contents /\ temp \in [Callers -> Contents] /\ windows \in BOOLEAN
  /\ call \in [Callers -> Call]
  /\ notified \subseteq Tokens
  /\ crashes \in 0..MaxCrashes

(***************************************************************************)
(* A refreshed token survives a restart (cloud.go:300-303), as far as the  *)
(* code sees to it: with no request under way the file holds the newest    *)
(* token unless a write failed, or a superseded token was merged, or       *)
(* written, after the newer one.                                           *)
(***************************************************************************)
BehindHasACause == TypeOK /\ (up /\ Quiet /\ disk # src => late \/ failed)

(***************************************************************************)
(* No refresh goes unnoticed: once its requests are through, onRefresh has *)
(* been called with the token in use, or it came from the file.            *)
(***************************************************************************)
RefreshIsNotified == up /\ Quiet /\ mem # src => src \in notified

(***************************************************************************)
(* atomicfile.go:1-4, against crashes, failed steps and overlapping        *)
(* writes: the auth file is never a half-written one; and once the process *)
(* has had one there is one.  On Windows it is missing while some write is *)
(* between the removal and the rename, after a crash there, and after a    *)
(* rename that failed, until one succeeds.                                 *)
(***************************************************************************)
FileSurvives ==
  /\ disk # Torn
  /\ disk = NoFile /\ (up \/ crashes > 0) => windows
  /\ disk = NoFile /\ up => failed \/ \E c \in Callers : call[c].pc = "rename"

(***************************************************************************)
(* cloud.go:300-303: the file is written back "so a refreshed access token *)
(* survives a container restart".  With no request under way and no failed *)
(* write the file holds the newest token.                                  *)
(***************************************************************************)
SurvivesRestart == up /\ Quiet /\ ~failed => disk = src
-----------------------------------------------------------------------------
(***************************************************************************)
(* The inductive invariant behind the properties.                          *)
(***************************************************************************)
\* A process that is down has no requests.
DownIsQuiet == ~up => \A c \in Callers : call[c] = Idle

\* What the process holds is no newer than the token source's token.
SourceIsNewest == up => last <= src /\ mem <= src /\ \A c \in Callers : call[c].tok <= src

\* A request is on its way to notify the source's token, or to merge it.
Noticing(c) == call[c].pc = "compare" /\ call[c].tok = src /\ last # src
Merging(c) == call[c].pc = "merge" /\ call[c].tok = src

\* Nothing has been refreshed since the start.
Untouched ==
  /\ last = src /\ mem = src
  /\ \A c \in Callers : call[c].pc # "idle" => call[c].pc = "compare" /\ call[c].tok = src

NotifiedInTime ==
  up => Untouched \/ src \in notified \/ \E c \in Callers : Noticing(c)

MergedInTime ==
  up /\ ~late => mem = src \/ \E c \in Callers : Noticing(c) \/ Merging(c)

\* A request is on its way to write the source's token.
Writing(c) ==
  \/ call[c].pc = "marshal" /\ mem = src
  \/ call[c].pc \in {"write", "fill", "remove", "rename"} /\ call[c].tok = src

WrittenInTime ==
  up /\ ~late /\ ~failed =>
    disk \in {src, NoFile} \/ \E c \in Callers : Noticing(c) \/ Merging(c) \/ Writing(c)

\* What is renamed is whole, and only Windows removes.
TempsAreWhole ==
  \A c \in Callers :
    /\ call[c].pc \in {"remove", "rename"} => temp[c] = call[c].tok
    /\ call[c].pc = "remove" => windows

TokenInv ==
  /\ DownIsQuiet /\ SourceIsNewest
  /\ NotifiedInTime /\ MergedInTime /\ WrittenInTime

FileInv == FileSurvives /\ TempsAreWhole

IInv == TypeOK /\ TokenInv /\ FileInv
=============================================================================
