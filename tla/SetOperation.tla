---------------------------- MODULE SetOperation ----------------------------
(***************************************************************************)
(* SetOperation of the facade: the backup reserve ("level") and the        *)
(* operating mode ("mode") of one site, set by concurrent callers over     *)
(* whatever backend is connected, while Connect may switch the backend.    *)
(*                                                                         *)
(* The gateway's own endpoint overwrites both fields and resets the one it *)
(* is not sent, so with the local backend SetOperation reads the other     *)
(* field first.  Cloud and Fleet API ("remote") take two commands.  The    *)
(* TEDAPI backend takes neither.                                           *)
(*                                                                         *)
(* Left out: the range check of the level, the din, the reads              *)
(* GetReserve and GetMode, and the caches (a forced local read is fresh:   *)
(* LocalClient!ForcedPollIsFresh).                                         *)
(***************************************************************************)
EXTENDS Naturals

CONSTANTS
  Callers,
  Values,     \* of a level or a mode
  Reset,      \* what the gateway sets a field to that it is not sent
  Default,    \* what getAPIOperation answers when it has nothing
  None,       \* a nil level or mode, an absent field
  MaxSwitch   \* bound on the switches of the backend

ASSUME SetOperationAssumption ==
  /\ Reset \notin Values /\ Default \notin Values \cup {Reset}
  /\ None \notin Values \cup {Reset, Default}
  /\ MaxSwitch \in Nat

Fields == {"level", "mode"}
Known == Values \cup {Reset, Default}
Backends == {"local", "remote", "tedapi"}

VARIABLES
  conn,      \* the connected backend
  site,      \* [Fields -> Known]: what the site is set to
  op,        \* [Callers -> each caller's SetOperation]
  switches   \* history

vars == <<conn, site, op, switches>>

(***************************************************************************)
(* ask and send are the fields the caller gave and those in the payload;   *)
(* err is whether a command failed.  The rest is history: the backend when *)
(* SetOperation looked, the fields a backend took, those the back-fill     *)
(* could not read, and those that changed after it had read them.          *)
(***************************************************************************)
Op == [pc : {"idle", "read", "post", "postMode", "done", "failed"},
       ask : [Fields -> Values \cup {None}], send : [Fields -> Known \cup {None}],
       err : BOOLEAN, via : Backends,
       accepted : SUBSET Fields, unread : SUBSET Fields, moved : SUBSET Fields]

Nothing == [f \in Fields |-> None]
Call(pc, ask) == [pc |-> pc, ask |-> ask, send |-> ask, err |-> FALSE,
                  via |-> conn, accepted |-> {}, unread |-> {}, moved |-> {}]

Init ==
  /\ conn \in Backends
  /\ site \in [Fields -> Values]
  /\ op = [c \in Callers |-> Call("idle", Nothing)]
  /\ switches = 0
-----------------------------------------------------------------------------
Given(ask) == {f \in Fields : ask[f] # None}

\* backfillLocalOperation reads only for the local backend and one given field.
NeedsBackfill(ask) == conn = "local" /\ Given(ask) # {} /\ Given(ask) # Fields

Begin(c) ==
  /\ op[c].pc \in {"idle", "done", "failed"}
  /\ \E ask \in [Fields -> Values \cup {None}] :
       op' = [op EXCEPT ![c] = Call(IF NeedsBackfill(ask) THEN "read" ELSE "post", ask)]
  /\ UNCHANGED <<conn, site, switches>>

\* What a forced read of /api/operation can return: the gateway may leave a
\* field out; the other backends answer with defaults when they read nothing.
Answers ==
  IF conn = "local"
  THEN {[f \in Fields |-> IF f \in S THEN site[f] ELSE None] : S \in SUBSET Fields}
  ELSE {site, [f \in Fields |-> Default]}

\* The answer completes the payload, and the write goes ahead.
Filled(c, ans) ==
  op' = [op EXCEPT
    ![c].pc = "post",
    ![c].send = [f \in Fields |-> IF @[f] = None THEN ans[f] ELSE @[f]],
    ![c].unread = {f \in Fields \ Given(op[c].ask) : ans[f] \in {None, Default}}]

\* Mutant: a failed read is overlooked.
BackfillOrNot(c) ==
  /\ op[c].pc = "read"
  /\ (\E ans \in Answers : Filled(c, ans)) \/ op' = [op EXCEPT ![c].pc = "post"]
  /\ UNCHANGED <<conn, site, switches>>

\* The forced read, by the poller of this moment, which takes no lock.
Backfill(c) ==
  /\ op[c].pc = "read"
  /\ \/ \E ans \in Answers : Filled(c, ans)
     \/ conn = "local" /\ op' = [op EXCEPT ![c] = Call("failed", Nothing)]
  /\ UNCHANGED <<conn, site, switches>>
-----------------------------------------------------------------------------
\* The site takes the fields of new; whoever has read them holds old values.
Applied(c, pc, err, new) ==
  /\ site' = [f \in Fields |-> IF f \in DOMAIN new THEN new[f] ELSE site[f]]
  /\ op' = [d \in Callers |->
       IF d = c THEN
         LET taken == op[c].accepted \cup DOMAIN new IN
         IF pc = "postMode"
         THEN [op[c] EXCEPT !.pc = pc, !.err = err, !.accepted = taken]
         ELSE [Call(pc, Nothing) EXCEPT !.accepted = taken]
       ELSE IF op[d].pc = "post" /\ op[d].via = "local"
       THEN [op[d] EXCEPT !.moved = @ \cup {f \in DOMAIN new : new[f] # site[f]}]
       ELSE op[d]]
  /\ UNCHANGED <<conn, switches>>

Ended(err) == IF err THEN "failed" ELSE "done"

\* The gateway overwrites both fields.  An answer that is lost is an error to
\* the caller; a refusal other than a denial is not.
PostLocal(c) ==
  /\ op[c].pc = "post" /\ conn = "local"
  /\ \E err \in BOOLEAN :
       \/ Applied(c, Ended(err), err,
            [f \in Fields |-> IF op[c].send[f] = None THEN Reset ELSE op[c].send[f]])
       \/ Applied(c, Ended(err), err, << >>)

\* What the command for field f, if it is in the payload, may come to: whether any
\* command has failed by then, and what it set.  One that fails may have been taken:
\* its answer was lost.
Outcomes(c, f) ==
  LET sent  == {f} \cap Given(op[c].send)
      whole == [g \in sent |-> op[c].send[g]]
  IN {<<op[c].err, whole>>}
     \cup (IF sent = {} THEN {} ELSE {<<TRUE, whole>>, <<TRUE, << >>>>})

\* postAPIOperation of cloud and Fleet API: the reserve, then the mode,
\* whether or not the first succeeded.
PostReserve(c) ==
  /\ op[c].pc = "post" /\ conn = "remote"
  /\ \E o \in Outcomes(c, "level") : Applied(c, "postMode", o[1], o[2])

\* Mutant: the result is that of the last command alone.
PostModeLast(c) ==
  /\ op[c].pc = "postMode"
  /\ \/ Applied(c, "done", FALSE,
          [g \in {"mode"} \cap Given(op[c].send) |-> op[c].send[g]])
     \/ op[c].send["mode"] # None /\ Applied(c, "failed", TRUE, << >>)

PostMode(c) ==
  /\ op[c].pc = "postMode"
  /\ \E o \in Outcomes(c, "mode") : Applied(c, Ended(o[1]), o[1], o[2])

\* postAPIOperation of the TEDAPI backend sends nothing and reports success.
PostTEDAPI(c) ==
  /\ op[c].pc = "post" /\ conn = "tedapi"
  /\ Applied(c, "done", FALSE, << >>)

\* Connect takes the write lock, which Post keeps it from while it sends.
Switch ==
  /\ switches < MaxSwitch
  /\ \A c \in Callers : op[c].pc # "postMode"
  /\ conn' \in Backends \ {conn}
  /\ switches' = switches + 1
  /\ UNCHANGED <<site, op>>

Next ==
  \/ Switch
  \/ \E c \in Callers :
       \/ Begin(c) \/ Backfill(c) \/ PostLocal(c)
       \/ PostReserve(c) \/ PostMode(c) \/ PostTEDAPI(c)

Spec == Init /\ [][Next]_vars
-----------------------------------------------------------------------------
TypeOK ==
  /\ conn \in Backends
  /\ site \in [Fields -> Known]
  /\ op \in [Callers -> Op]
  /\ \A c \in Callers : op[c].pc = "read" => op[c].via = "local"
  /\ switches \in 0..MaxSwitch

\* c sends its payload, or one command of it, in this step.
Posts(c) == op[c].pc \in {"post", "postMode"} /\ op'[c].pc # op[c].pc

(***************************************************************************)
(* SetReserve and SetMode change the field they are not about only if it   *)
(* changed after the back-fill read it, the gateway left it out of that    *)
(* read, or the backend was switched under way (when the read may have     *)
(* been answered with a default).                                          *)
(***************************************************************************)
OtherFieldKept ==
  [][/\ TypeOK'
     /\ \A c \in Callers : Posts(c) /\ Given(op[c].ask) # {} =>
          \A f \in Fields \ Given(op[c].ask) :
            \/ site'[f] = site[f]
            \/ f \in op[c].moved
            \/ f \in op[c].unread
            \/ op[c].via # conn]_vars

(***************************************************************************)
(* Cloud and Fleet API report success only if they took every field of the *)
(* payload: the second command's success does not hide the first's         *)
(* failure (cloud.go:745-749).                                             *)
(***************************************************************************)
RemoteSuccessIsComplete ==
  [][\A c \in Callers : op[c].pc = "postMode" /\ op'[c].pc = "done" =>
       Given(op[c].send) \subseteq op'[c].accepted]_vars

(***************************************************************************)
(* operations.go:179-180: "Cloud, FleetAPI and TEDAPI apply BACKUP_RESERVE *)
(* and OPERATION_MODE as two independent, asynchronous commands".  Success *)
(* of a backend other than the local one means that it took the payload.   *)
(***************************************************************************)
SuccessIsApplied ==
  [][\A c \in Callers : Posts(c) /\ conn # "local" /\ op'[c].pc = "done" =>
       Given(op[c].send) \subseteq op'[c].accepted]_vars
-----------------------------------------------------------------------------
(***************************************************************************)
(* The inductive invariant behind the first two, for a call e when the     *)
(* site is set to s and b is connected: what of its payload is not asked   *)
(* for, and what it has come to between the two commands.                  *)
(***************************************************************************)
Backfilled(e, s) ==
  Given(e.ask) # {} =>
    \A f \in Fields \ Given(e.ask) : e.send[f] = s[f] \/ f \in e.moved \/ f \in e.unread

Fits(e, s, b) ==
  /\ e.pc = "post" /\ e.via = "local" => Backfilled(e, s)
  /\ e.pc = "read" \/ (e.pc \in {"post", "postMode"} /\ e.via # "local") => e.send = e.ask
  /\ e.pc = "postMode" => b = "remote"
  /\ e.pc = "postMode" /\ ~e.err => Given(e.send) \ e.accepted \subseteq {"mode"}

IInv == TypeOK /\ \A c \in Callers : Fits(op[c], site, conn)
=============================================================================
