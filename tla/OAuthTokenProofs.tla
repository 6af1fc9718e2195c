--------------------------- MODULE OAuthTokenProofs ---------------------------
(***************************************************************************)
(* Theorems about OAuthToken, for every number of requests, tokens and     *)
(* crashes.                                                                *)
(***************************************************************************)
EXTENDS OAuthToken, TLAPS

Pcs == {"idle", "compare", "merge", "marshal", "write", "fill", "remove", "rename"}

USE OAuthTokenAssumption

(***************************************************************************)
(* A request comes to step pc with token tok; the others stay.             *)
(***************************************************************************)
Becomes(c, pc, tok) ==
  /\ call' \in [Callers -> Call]
  /\ call'[c].pc = pc /\ call'[c].tok = tok
  /\ \A d \in Callers : d # c => call'[d] = call[d]

LEMMA CallFields ==
  ASSUME NEW e \in Call
  PROVE  e.pc \in Pcs /\ e.tok \in Tokens
BY DEF Call, Pcs

LEMMA IdleFields == Idle \in Call /\ Idle.pc = "idle" /\ Idle.tok = 0
BY DEF Idle, Call, Tokens

LEMMA ReplacedFields ==
  ASSUME call \in [Callers -> Call], NEW c \in Callers, NEW pc \in Pcs, NEW tok \in Tokens,
         call' = [call EXCEPT ![c] = [pc |-> pc, tok |-> tok]]
  PROVE  Becomes(c, pc, tok)
<1> DEFINE e == [pc |-> pc, tok |-> tok]
<1>1. e \in Call /\ e.pc = pc /\ e.tok = tok
  BY DEF Call, Pcs
<1>2. call' = [call EXCEPT ![c] = e]
  OBVIOUS
<1> HIDE DEF e
<1> QED BY <1>1, <1>2 DEF Becomes

LEMMA EndedFields ==
  ASSUME call \in [Callers -> Call], NEW c \in Callers, call' = [call EXCEPT ![c] = Idle]
  PROVE  Becomes(c, "idle", 0)
BY IdleFields DEF Becomes

LEMMA MovedFields ==
  ASSUME call \in [Callers -> Call], NEW c \in Callers, NEW pc \in Pcs,
         call' = [call EXCEPT ![c].pc = pc]
  PROVE  Becomes(c, pc, call[c].tok)
<1> DEFINE e == [call[c] EXCEPT !.pc = pc]
<1>1. e \in Call /\ e.pc = pc /\ e.tok = call[c].tok
  BY DEF Call, Pcs
<1>2. call' = [call EXCEPT ![c] = e]
  OBVIOUS
<1> HIDE DEF e
<1> QED BY <1>1, <1>2 DEF Becomes
-----------------------------------------------------------------------------
(***************************************************************************)
(* The files.                                                              *)
(***************************************************************************)
LEMMA ContentsDiffer ==
  /\ Tokens \subseteq Contents /\ NoFile \in Contents /\ Torn \in Contents
  /\ NoFile \notin Tokens /\ Torn \notin Tokens /\ Torn # NoFile
BY DEF Contents, Tokens

\* A request that goes on, with the auth file and everybody else's temporary
\* file as they are, leaves the files in order.
LEMMA FilesMoved ==
  ASSUME FileInv, NEW c \in Callers, NEW pc \in Pcs, NEW tok, Becomes(c, pc, tok),
         call[c].pc # "rename", UNCHANGED <<up, disk, windows, failed, crashes>>,
         \A d \in Callers : d # c => temp'[d] = temp[d],
         pc \in {"remove", "rename"} => temp'[c] = tok,
         pc = "remove" => windows
  PROVE  FileInv'
<1>1. \A d \in Callers : call[d].pc = "rename" => call'[d].pc = "rename"
  BY DEF Becomes
<1>2. FileSurvives'
  BY <1>1 DEF FileInv, FileSurvives
<1>3. ASSUME NEW d \in Callers
      PROVE  /\ call'[d].pc \in {"remove", "rename"} => temp'[d] = call'[d].tok
             /\ call'[d].pc = "remove" => windows'
  <2>1. CASE d = c
    BY <2>1 DEF Becomes
  <2>2. CASE d # c
    <3>1. call'[d] = call[d] /\ temp'[d] = temp[d]
      BY <2>2 DEF Becomes
    <3> QED BY <3>1 DEF FileInv, TempsAreWhole
  <2> QED BY <2>1, <2>2
<1> QED BY <1>2, <1>3 DEF FileInv, TempsAreWhole

\* The same of one that leaves its temporary file alone.
LEMMA FilesKept ==
  ASSUME FileInv, NEW c \in Callers, NEW pc \in Pcs, NEW tok, Becomes(c, pc, tok),
         call[c].pc # "rename", pc \notin {"remove", "rename"},
         UNCHANGED <<up, files, failed, crashes>>
  PROVE  FileInv'
BY FilesMoved DEF files

\* A write is over: what it was about to rename was whole, and only its own
\* temporary file is gone.
LEMMA FilesEnded ==
  ASSUME TypeOK, FileInv, NEW c \in Callers, Becomes(c, "idle", 0),
         UNCHANGED <<up, windows, crashes>>, temp' = Closed(c),
         \/ failed' = TRUE /\ disk' = disk
         \/ call[c].pc = "rename" /\ disk' = temp[c]
  PROVE  FileInv' /\ disk' \in Contents /\ temp' \in [Callers -> Contents]
<1>1. disk' \in Contents /\ temp' \in [Callers -> Contents]
  BY ContentsDiffer DEF TypeOK, Closed
<1>2. \A d \in Callers : d # c => temp'[d] = temp[d]
  BY DEF TypeOK, Closed
<1>3. TempsAreWhole'
  <2> SUFFICES ASSUME NEW d \in Callers
               PROVE  /\ call'[d].pc \in {"remove", "rename"} => temp'[d] = call'[d].tok
                      /\ call'[d].pc = "remove" => windows'
    BY DEF TempsAreWhole
  <2>1. CASE d = c
    BY <2>1 DEF Becomes
  <2>2. CASE d # c
    <3>1. call'[d] = call[d] /\ temp'[d] = temp[d]
      BY <1>2, <2>2 DEF Becomes
    <3> QED BY <3>1 DEF FileInv, TempsAreWhole
  <2> QED BY <2>1, <2>2
<1>4. FileSurvives'
  <2>1. CASE failed' = TRUE /\ disk' = disk
    BY <2>1 DEF FileInv, FileSurvives
  <2>2. CASE call[c].pc = "rename" /\ disk' = temp[c]
    <3>1. call[c] \in Call
      BY DEF TypeOK
    <3>2. call[c].tok \in Tokens
      BY <3>1, CallFields
    <3>3. temp[c] = call[c].tok
      BY <2>2 DEF FileInv, TempsAreWhole
    <3> QED BY <2>2, <3>2, <3>3, ContentsDiffer DEF FileSurvives
  <2> QED BY <2>1, <2>2
<1> QED BY <1>1, <1>3, <1>4 DEF FileInv
-----------------------------------------------------------------------------
(***************************************************************************)
(* The invariant holds at first, and every step preserves it.              *)
(***************************************************************************)
LEMMA TokenOrder ==
  ASSUME TypeOK
  PROVE  /\ src \in Nat /\ last \in Nat /\ mem \in Nat /\ issued \in Nat
         /\ \A c \in Callers : call[c].tok \in Nat /\ call[c].tok \in Tokens /\ call[c].pc \in Pcs
         /\ \A t \in Tokens : t \in Nat
BY CallFields DEF TypeOK, Tokens

LEMMA InvInit == Init => IInv
<1> SUFFICES ASSUME Init PROVE IInv
  OBVIOUS
<1>1. 0 \in Tokens
  BY DEF Tokens
<1>2. TypeOK
  <2>1. call \in [Callers -> Call] /\ disk \in Contents
    BY <1>1, IdleFields, ContentsDiffer DEF Init
  <2>2. temp \in [Callers -> Contents]
    BY ContentsDiffer DEF Init, NoTemp
  <2>3. notified \subseteq Tokens /\ crashes \in 0..MaxCrashes
    BY DEF Init
  <2> QED BY <1>1, <2>1, <2>2, <2>3 DEF Init, TypeOK
<1>3. TokenInv
  BY DEF Init, TokenInv, DownIsQuiet, SourceIsNewest, NotifiedInTime, MergedInTime,
         WrittenInTime
<1>4. FileInv
  <2>1. disk # Torn /\ ~up /\ ~(crashes > 0)
    BY <1>1, ContentsDiffer DEF Init
  <2>2. \A c \in Callers : call[c].pc = "idle"
    BY IdleFields DEF Init
  <2> QED BY <2>1, <2>2 DEF FileInv, FileSurvives, TempsAreWhole
<1> QED BY <1>2, <1>3, <1>4 DEF IInv

\* A start from the file, or from the environment.
LEMMA InvAuthenticate == IInv /\ Authenticate => IInv'
<1> SUFFICES ASSUME IInv, Authenticate PROVE IInv'
  OBVIOUS
<1> DEFINE tok == IF disk = NoFile THEN 0 ELSE disk
<1>1. tok \in Tokens /\ tok \in Nat
  <2>1. tok \in Tokens
    BY 0 \in Tokens DEF IInv, TypeOK, Contents, Authenticate, Tokens
  <2> QED BY <2>1 DEF Tokens
<1>2. disk' = tok /\ src' = tok /\ last' = tok /\ mem' = tok
  BY DEF Authenticate
<1> HIDE DEF tok
<1>3. TypeOK'
  BY <1>1, <1>2, ContentsDiffer DEF IInv, TypeOK, Authenticate
<1>4. \A c \in Callers : call'[c] = Idle
  BY DEF IInv, TokenInv, DownIsQuiet, Authenticate
<1>5. Untouched'
  BY <1>2, <1>4, IdleFields DEF Untouched
<1>6. SourceIsNewest'
  BY <1>1, <1>2, <1>4, IdleFields DEF SourceIsNewest
<1>7. FileInv'
  BY <1>1, <1>2, <1>4, IdleFields, ContentsDiffer DEF FileInv, FileSurvives, TempsAreWhole
<1>8. TokenInv'
  BY <1>2, <1>4, <1>5, <1>6
  DEF TokenInv, DownIsQuiet, NotifiedInTime, MergedInTime, WrittenInTime
<1> QED BY <1>3, <1>7, <1>8 DEF IInv

\* A request is given the token there is.
LEMMA InvCurrent ==
  ASSUME IInv, NEW c \in Callers, up, call[c].pc = "idle", Becomes(c, "compare", src),
         UNCHANGED <<up, src, last, mem, files, issued, notified, late, failed, crashes>>,
         expired' = expired
  PROVE  IInv'
<1>1. TypeOK'
  BY DEF IInv, TypeOK, Becomes, files
<1>2. SourceIsNewest'
  BY TokenOrder DEF IInv, TokenInv, SourceIsNewest, Becomes
<1>3. NotifiedInTime'
  BY DEF IInv, TokenInv, NotifiedInTime, Untouched, Noticing, Becomes
<1>4. MergedInTime'
  BY DEF IInv, TokenInv, MergedInTime, Noticing, Merging, Becomes
<1>5. WrittenInTime'
  BY DEF IInv, TokenInv, WrittenInTime, Noticing, Merging, Writing, Becomes, files
<1>6. FileInv'
  BY FilesKept DEF IInv, Pcs
<1> QED
  BY <1>1, <1>2, <1>3, <1>4, <1>5, <1>6 DEF IInv, TokenInv, DownIsQuiet

\* A request refreshes it: the new token is newer than all there is.
LEMMA InvRefreshed ==
  ASSUME IInv, NEW c \in Callers, up, call[c].pc = "idle", src = issued, issued < MaxToken,
         src' = issued + 1, issued' = issued + 1, expired' = FALSE,
         Becomes(c, "compare", issued + 1),
         UNCHANGED <<up, last, mem, files, notified, late, failed, crashes>>
  PROVE  IInv'
<1>1. issued + 1 \in Tokens
  BY DEF IInv, TokenInv, TypeOK, Tokens
<1>2. TypeOK'
  BY <1>1 DEF IInv, TypeOK, Becomes, files
<1>3. last' # src' /\ SourceIsNewest'
  BY TokenOrder DEF IInv, TokenInv, SourceIsNewest, Becomes
<1>4. Noticing(c)'
  BY <1>3 DEF Noticing, Becomes
<1>5. FileInv'
  BY FilesKept DEF IInv, Pcs
<1> QED
  BY <1>2, <1>3, <1>4, <1>5
  DEF IInv, TokenInv, DownIsQuiet, NotifiedInTime, MergedInTime, WrittenInTime

LEMMA InvBaseToken == ASSUME IInv, NEW c \in Callers, BaseToken(c) PROVE IInv'
<1> USE DEF BaseToken
<1>1. call \in [Callers -> Call] /\ src \in Tokens /\ issued \in Tokens
  BY DEF IInv, TokenInv, TypeOK
<1>2. CASE ~expired /\ call' = [call EXCEPT ![c] = [pc |-> "compare", tok |-> src]]
           /\ UNCHANGED <<src, expired, issued>>
  <2>1. Becomes(c, "compare", src)
    BY <1>1, <1>2, ReplacedFields DEF Pcs
  <2> QED BY <1>2, <2>1, InvCurrent
<1>3. CASE expired /\ src = issued /\ issued < MaxToken /\ issued' = issued + 1
           /\ src' = issued + 1 /\ expired' = FALSE
           /\ call' = [call EXCEPT ![c] = [pc |-> "compare", tok |-> issued + 1]]
  <2>1. issued + 1 \in Tokens
    BY <1>1, <1>3 DEF Tokens
  <2>2. Becomes(c, "compare", issued + 1)
    BY <1>1, <1>3, <2>1, ReplacedFields DEF Pcs
  <2> QED BY <1>3, <2>2, InvRefreshed
<1> QED BY <1>2, <1>3

\* A request finds its token new, and notifies it ...
LEMMA InvChanged ==
  ASSUME IInv, NEW c \in Callers, NEW tok \in Tokens, call[c].pc = "compare",
         call[c].tok = tok, Changed(tok), last' = tok,
         notified' = notified \cup {tok}, Becomes(c, "merge", tok),
         UNCHANGED <<up, src, expired, mem, files, issued, late, failed, crashes>>
  PROVE  IInv'
<1>1. tok \in notified' /\ notified' \subseteq Tokens /\ notified \subseteq notified'
  BY DEF IInv, TokenInv, TypeOK
<1>2. TypeOK'
  BY <1>1 DEF IInv, TypeOK, Becomes, files
<1>3. DownIsQuiet' /\ up
  BY IdleFields DEF IInv, TokenInv, DownIsQuiet
<1>4. SourceIsNewest'
  BY <1>3 DEF IInv, TokenInv, SourceIsNewest, Becomes
<1>7. FileInv'
  BY FilesKept DEF IInv, Pcs
<1>5. CASE tok = src
  <2>1. src' \in notified'
    BY <1>1, <1>5
  <2>2. Merging(c)'
    BY <1>5 DEF Merging, Becomes
  <2> QED
    BY <1>2, <1>3, <1>4, <1>7, <2>1, <2>2
    DEF IInv, TokenInv, NotifiedInTime, MergedInTime, WrittenInTime
<1>6. CASE tok # src
  <2>1. src \in Tokens /\ \A d \in Callers : Noticing(d) => Noticing(d)'
    BY <1>6 DEF IInv, TokenInv, TypeOK, Noticing, Becomes
  <2>2. NotifiedInTime'
    BY <1>1, <1>6, <2>1 DEF IInv, TokenInv, NotifiedInTime, Untouched
  <2>3. \A d \in Callers : Merging(d) => Merging(d)'
    BY DEF Merging, Becomes
  <2>4. MergedInTime'
    BY <2>1, <2>3 DEF IInv, TokenInv, MergedInTime
  <2>5. \A d \in Callers : Writing(d) => Writing(d)'
    BY DEF Writing, Becomes
  <2>6. WrittenInTime'
    BY <2>1, <2>3, <2>5 DEF IInv, TokenInv, WrittenInTime, files
  <2> QED BY <1>2, <1>3, <1>4, <1>7, <2>2, <2>4, <2>6 DEF IInv, TokenInv
<1> QED BY <1>5, <1>6

\* ... or finds it the last one.
LEMMA InvUnchanged ==
  ASSUME IInv, NEW c \in Callers, call[c].pc = "compare", ~Changed(call[c].tok),
         Becomes(c, "idle", 0), call'[c] = Idle,
         UNCHANGED <<up, src, last, notified, expired, mem, files, issued, late, failed, crashes>>
  PROVE  IInv'
<1>1. TypeOK'
  BY DEF IInv, TypeOK, Becomes, files
<1>2. DownIsQuiet'
  BY DEF IInv, TokenInv, DownIsQuiet, Becomes
<1>3. SourceIsNewest'
  BY TokenOrder DEF IInv, TokenInv, SourceIsNewest, Becomes
<1>4. \A d \in Callers : Noticing(d) => Noticing(d)'
  BY DEF Noticing, Becomes, Changed
<1>5. \A d \in Callers : (Merging(d) => Merging(d)') /\ (Writing(d) => Writing(d)')
  BY DEF Merging, Writing, Becomes
<1>6. NotifiedInTime'
  BY <1>4 DEF IInv, TokenInv, NotifiedInTime, Untouched, Becomes
<1>7. MergedInTime' /\ WrittenInTime'
  BY <1>4, <1>5 DEF IInv, TokenInv, MergedInTime, WrittenInTime, files
<1>8. FileInv'
  BY FilesKept DEF IInv, Pcs
<1> QED BY <1>1, <1>2, <1>3, <1>6, <1>7, <1>8 DEF IInv, TokenInv

LEMMA InvCompare == ASSUME IInv, NEW c \in Callers, Compare(c) PROVE IInv'
<1> DEFINE tok == call[c].tok
<1>1. call \in [Callers -> Call] /\ tok \in Tokens
  BY TokenOrder DEF IInv, TokenInv, TypeOK
<1>2. CASE Changed(tok)
  <2>1. Becomes(c, "merge", tok)
    BY <1>1, <1>2, MovedFields DEF Compare, Pcs
  <2> QED BY <1>1, <1>2, <2>1, InvChanged DEF Compare
<1>3. CASE ~Changed(tok)
  <2>1. Becomes(c, "idle", 0) /\ call'[c] = Idle
    BY <1>1, <1>3, EndedFields DEF Compare
  <2> QED BY <1>3, <2>1, InvUnchanged DEF Compare
<1> QED BY <1>2, <1>3

\* A merge of an older token than the map holds is a cause, unless it was one before.
LEMMA InvMerge == ASSUME IInv, NEW c \in Callers, Merge(c) PROVE IInv'
<1> USE DEF Merge
<1> DEFINE tok == call[c].tok
<1>1. tok \in Tokens /\ Becomes(c, "marshal", tok)
  BY TokenOrder, MovedFields DEF IInv, TokenInv, TypeOK, Pcs
<1>2. TypeOK'
  BY <1>1 DEF IInv, TypeOK, Becomes, files
<1>3. up /\ DownIsQuiet'
  BY IdleFields DEF IInv, TokenInv, DownIsQuiet
<1>4. SourceIsNewest'
  BY <1>1, <1>3, TokenOrder DEF IInv, TokenInv, SourceIsNewest, Becomes
<1>5. NotifiedInTime'
  <2>1. ~Untouched
    BY DEF Untouched
  <2>2. \A d \in Callers : Noticing(d) => Noticing(d)'
    BY <1>1 DEF Noticing, Becomes
  <2> QED BY <1>3, <2>1, <2>2 DEF IInv, TokenInv, NotifiedInTime
<1>7. ~Noticing(c) /\ (Merging(c) => tok = src)
  BY DEF Noticing, Merging
<1>8. tok <= src /\ mem <= src /\ (~late' => ~(tok < mem))
  BY <1>3 DEF IInv, TokenInv, SourceIsNewest
<1>9. tok \in Nat /\ mem \in Nat /\ src \in Nat
  BY TokenOrder DEF IInv, TokenInv
<1>10. /\ ~late' => ~late
       /\ ~late' /\ mem = src => mem' = src
  <2>1. late \in BOOLEAN
    BY DEF IInv, TokenInv, TypeOK
  <2> QED BY <1>8, <1>9, <2>1
<1>11. ASSUME NEW d \in Callers, Noticing(d) \/ Merging(d), tok # src
       PROVE  Noticing(d)' \/ Merging(d)'
  <2>1. d # c
    BY <1>7, <1>11
  <2> QED BY <1>1, <1>11, <2>1 DEF Noticing, Merging, Becomes
<1>12. MergedInTime'
  <2>1. CASE tok = src
    BY <2>1 DEF MergedInTime
  <2>2. CASE tok # src
    <3>1. ~late' => mem = src \/ \E d \in Callers : Noticing(d) \/ Merging(d)
      BY <1>3, <1>10 DEF IInv, TokenInv, MergedInTime
    <3>2. \A d \in Callers : Noticing(d) \/ Merging(d) => Noticing(d)' \/ Merging(d)'
      BY <1>11, <2>2
    <3> QED BY <1>10, <3>1, <3>2 DEF MergedInTime
  <2> QED BY <2>1, <2>2
<1>13. WrittenInTime'
  <2>1. CASE tok = src
    <3>1. Writing(c)'
      BY <1>1, <2>1 DEF Writing, Becomes
    <3> QED BY <3>1 DEF WrittenInTime
  <2>2. CASE tok # src
    <3>1. \A d \in Callers : ~late' /\ Writing(d) => Writing(d)'
      BY <1>1, <1>10 DEF Writing, Becomes
    <3>2. ~late' /\ ~failed' =>
            disk \in {src, NoFile}
            \/ \E d \in Callers : Noticing(d) \/ Merging(d) \/ Writing(d)
      BY <1>3, <1>10 DEF IInv, TokenInv, WrittenInTime
    <3>3. \A d \in Callers : Noticing(d) \/ Merging(d) => Noticing(d)' \/ Merging(d)'
      BY <1>11, <2>2
    <3> QED BY <3>1, <3>2, <3>3 DEF WrittenInTime, files
  <2> QED BY <2>1, <2>2
<1>14. FileInv'
  BY <1>1, FilesKept DEF IInv, Pcs
<1> QED BY <1>2, <1>3, <1>4, <1>5, <1>12, <1>13, <1>14 DEF IInv, TokenInv

LEMMA InvMarshal == ASSUME IInv, NEW c \in Callers, Marshal(c) PROVE IInv'
<1> USE DEF Marshal
<1>1. mem \in Tokens /\ Becomes(c, "write", mem)
  BY ReplacedFields DEF IInv, TokenInv, TypeOK, Pcs
<1>2. TypeOK'
  BY <1>1 DEF IInv, TypeOK, Becomes, files
<1>3. up /\ DownIsQuiet'
  BY IdleFields DEF IInv, TokenInv, DownIsQuiet
<1>4. SourceIsNewest'
  BY <1>1, <1>3 DEF IInv, TokenInv, SourceIsNewest, Becomes
<1>5. ~Untouched /\ \A d \in Callers : Noticing(d) => Noticing(d)'
  BY <1>1 DEF Untouched, Noticing, Becomes
<1>6. NotifiedInTime'
  BY <1>3, <1>5 DEF IInv, TokenInv, NotifiedInTime
<1>7. \A d \in Callers : (Merging(d) => Merging(d)') /\ (Writing(d) => Writing(d)')
  BY <1>1 DEF Merging, Writing, Becomes
<1>8. MergedInTime' /\ WrittenInTime'
  BY <1>3, <1>5, <1>7 DEF IInv, TokenInv, MergedInTime, WrittenInTime, files
<1>9. FileInv'
  BY <1>1, FilesKept DEF IInv, Pcs
<1> QED BY <1>2, <1>3, <1>4, <1>6, <1>8, <1>9 DEF IInv, TokenInv

(***************************************************************************)
(* A request that goes on with its write has the token it is to write.     *)
(***************************************************************************)
LEMMA TokensMoved ==
  ASSUME TypeOK, TokenInv, NEW c \in Callers, call[c].pc \in {"write", "fill", "remove"},
         NEW pc \in {"fill", "remove", "rename"}, Becomes(c, pc, call[c].tok),
         UNCHANGED <<up, src, last, mem, notified, late, failed>>, disk' \in {disk, NoFile}
  PROVE  TokenInv'
<1>1. up /\ DownIsQuiet'
  BY IdleFields DEF TokenInv, DownIsQuiet
<1>2. SourceIsNewest'
  BY <1>1 DEF TokenInv, SourceIsNewest, Becomes
<1>3. ~Untouched
  BY DEF Untouched
<1>4. \A d \in Callers : Noticing(d) => Noticing(d)'
  BY DEF Noticing, Becomes
<1>5. \A d \in Callers : Merging(d) => Merging(d)'
  BY DEF Merging, Becomes
<1>6. ASSUME NEW d \in Callers, Writing(d) PROVE Writing(d)'
  <2>1. CASE d = c
    BY <1>6, <2>1 DEF Writing, Becomes
  <2>2. CASE d # c
    <3>1. call'[d] = call[d]
      BY <2>2 DEF Becomes
    <3> QED BY <1>6, <3>1 DEF Writing
  <2> QED BY <2>1, <2>2
<1>7. NotifiedInTime'
  BY <1>1, <1>3, <1>4 DEF TokenInv, NotifiedInTime
<1>8. MergedInTime'
  BY <1>4, <1>5 DEF TokenInv, MergedInTime
<1>9. WrittenInTime'
  BY <1>4, <1>5, <1>6 DEF TokenInv, WrittenInTime
<1> QED BY <1>1, <1>2, <1>7, <1>8, <1>9 DEF TokenInv

LEMMA InvOpen == ASSUME IInv, NEW c \in Callers, Open(c) PROVE IInv'
<1>1. call \in [Callers -> Call] /\ call[c].pc = "write"
  BY DEF IInv, TypeOK, Open
<1>2. Becomes(c, "fill", call[c].tok)
  BY <1>1, MovedFields DEF Open, Pcs
<1>3. temp' \in [Callers -> Contents] /\ \A d \in Callers : d # c => temp'[d] = temp[d]
  BY ContentsDiffer DEF IInv, TypeOK, Open, Opened
<1>4. TypeOK'
  BY <1>2, <1>3 DEF IInv, TypeOK, Becomes, Open
<1>5. TokenInv'
  BY <1>1, <1>2, TokensMoved DEF IInv, Open
<1>6. FileInv'
  BY <1>1, <1>2, <1>3, FilesMoved DEF IInv, Open, Pcs
<1> QED BY <1>4, <1>5, <1>6 DEF IInv

LEMMA InvFill == ASSUME IInv, NEW c \in Callers, Fill(c) PROVE IInv'
<1> DEFINE pc == IF windows THEN "remove" ELSE "rename"
           tok == call[c].tok
<1>1. call \in [Callers -> Call] /\ call[c].pc = "fill" /\ tok \in Tokens
  BY TokenOrder DEF IInv, TypeOK, Fill
<1>2. pc \in {"remove", "rename"} /\ pc \in Pcs /\ (pc = "remove" => windows)
  BY DEF Pcs
<1>3. Becomes(c, pc, tok)
  <2>1. call' = [call EXCEPT ![c].pc = pc]
    BY DEF Fill
  <2> HIDE DEF pc
  <2> QED BY <1>1, <1>2, <2>1, MovedFields
<1>4. /\ temp' \in [Callers -> Contents] /\ temp'[c] = tok
      /\ \A d \in Callers : d # c => temp'[d] = temp[d]
  BY <1>1, ContentsDiffer DEF IInv, TypeOK, Fill
<1>5. UNCHANGED <<up, src, expired, last, mem, disk, windows, issued, notified, late, failed,
                 crashes>>
  BY DEF Fill
<1> HIDE DEF pc, tok
<1>6. TypeOK'
  BY <1>3, <1>4, <1>5 DEF IInv, TypeOK, Becomes
<1>7. TokenInv'
  BY <1>1, <1>2, <1>3, <1>5, TokensMoved DEF IInv, tok
<1>8. FileInv'
  BY <1>1, <1>2, <1>3, <1>4, <1>5, FilesMoved DEF IInv
<1> QED BY <1>6, <1>7, <1>8 DEF IInv

\* The write that removes the file is the one that is about to rename.
LEMMA InvRemove == ASSUME IInv, NEW c \in Callers, Remove(c) PROVE IInv'
<1>1. call \in [Callers -> Call] /\ call[c].pc = "remove"
  BY DEF IInv, TypeOK, Remove
<1>2. Becomes(c, "rename", call[c].tok)
  BY <1>1, MovedFields DEF Remove, Pcs
<1>3. TypeOK'
  BY <1>2, ContentsDiffer DEF IInv, TypeOK, Becomes, Remove
<1>4. TokenInv'
  BY <1>1, <1>2, TokensMoved DEF IInv, Remove
<1>5. windows /\ temp[c] = call[c].tok
  BY <1>1 DEF IInv, FileInv, TempsAreWhole
<1>6. call'[c].pc = "rename" /\ call'[c].tok = call[c].tok /\ windows' /\ temp' = temp
  BY <1>2, <1>5 DEF Becomes, Remove
<1>7. FileSurvives'
  BY <1>6, ContentsDiffer DEF IInv, FileInv, FileSurvives, Remove
<1>8. TempsAreWhole'
  <2> SUFFICES ASSUME NEW d \in Callers
               PROVE  /\ call'[d].pc \in {"remove", "rename"} => temp'[d] = call'[d].tok
                      /\ call'[d].pc = "remove" => windows'
    BY DEF TempsAreWhole
  <2>1. CASE d = c
    BY <1>5, <1>6, <2>1
  <2>2. CASE d # c
    <3>1. call'[d] = call[d]
      BY <1>2, <2>2 DEF Becomes
    <3> QED BY <1>6, <3>1 DEF IInv, FileInv, TempsAreWhole
  <2> QED BY <2>1, <2>2
<1> QED BY <1>3, <1>4, <1>7, <1>8 DEF IInv, FileInv

(***************************************************************************)
(* A write is over.  What one that came late has done is undone by one of  *)
(* the token in use.                                                       *)
(***************************************************************************)
LEMMA TokensEnded ==
  ASSUME IInv, NEW c \in Callers, call[c].pc \in {"write", "fill", "rename"},
         Becomes(c, "idle", 0), call'[c] = Idle, UNCHANGED <<up, src, last, mem, notified>>,
         \/ failed' = TRUE /\ late' = late
         \/ /\ disk' = call[c].tok
            /\ late' = (call[c].tok # mem \/ (late /\ mem # src))
  PROVE  TokenInv'
<1>1. up /\ DownIsQuiet'
  BY IdleFields DEF IInv, TokenInv, DownIsQuiet
<1>2. SourceIsNewest'
  BY <1>1, TokenOrder DEF IInv, TokenInv, SourceIsNewest, Becomes
<1>3. ~Untouched
  BY DEF Untouched
<1>4. \A d \in Callers : Noticing(d) => Noticing(d)'
  BY DEF Noticing, Becomes
<1>5. \A d \in Callers : Merging(d) => Merging(d)'
  BY DEF Merging, Becomes
<1>6. NotifiedInTime'
  BY <1>1, <1>3, <1>4 DEF IInv, TokenInv, NotifiedInTime
<1>7. CASE failed' = TRUE /\ late' = late
  <2>1. MergedInTime'
    BY <1>4, <1>5, <1>7 DEF IInv, TokenInv, MergedInTime
  <2>2. WrittenInTime'
    BY <1>7 DEF WrittenInTime
  <2> QED BY <1>1, <1>2, <1>6, <2>1, <2>2 DEF TokenInv
<1>8. CASE disk' = call[c].tok /\ late' = (call[c].tok # mem \/ (late /\ mem # src))
  <2>1. MergedInTime'
    BY <1>1, <1>4, <1>5, <1>8 DEF IInv, TokenInv, MergedInTime
  <2>2. ~late' => disk' = mem'
    BY <1>8
  <2>3. WrittenInTime'
    BY <2>1, <2>2 DEF MergedInTime, WrittenInTime
  <2> QED BY <1>1, <1>2, <1>6, <2>1, <2>3 DEF TokenInv
<1> QED BY <1>7, <1>8

LEMMA InvRename == ASSUME IInv, NEW c \in Callers, Rename(c) PROVE IInv'
<1>1. call \in [Callers -> Call] /\ call[c].pc = "rename" /\ failed \in BOOLEAN
  BY DEF IInv, TypeOK, Rename
<1>2. Becomes(c, "idle", 0) /\ call'[c] = Idle
  BY <1>1, EndedFields DEF Rename
<1>3. disk' = temp[c] /\ temp[c] = call[c].tok
  BY <1>1 DEF IInv, FileInv, TempsAreWhole, Rename
<1>4. FileInv' /\ disk' \in Contents /\ temp' \in [Callers -> Contents]
  BY <1>1, <1>2, FilesEnded DEF IInv, Rename
<1>5. TypeOK'
  <2>1. late' \in BOOLEAN /\ failed' \in BOOLEAN
    BY DEF Rename
  <2> QED BY <1>2, <1>4, <2>1 DEF IInv, TypeOK, Becomes, Rename
<1>6. TokenInv'
  BY <1>1, <1>2, <1>3, TokensEnded DEF Rename
<1> QED BY <1>4, <1>5, <1>6 DEF IInv

LEMMA InvWriteFails == ASSUME IInv, NEW c \in Callers, WriteFails(c) PROVE IInv'
<1>1. call \in [Callers -> Call]
  BY DEF IInv, TypeOK
<1>2. Becomes(c, "idle", 0) /\ call'[c] = Idle
  BY <1>1, EndedFields DEF WriteFails
<1>3. FileInv' /\ disk' \in Contents /\ temp' \in [Callers -> Contents]
  BY <1>2, FilesEnded DEF IInv, WriteFails
<1>4. TypeOK'
  BY <1>2, <1>3 DEF IInv, TypeOK, Becomes, WriteFails
<1>5. TokenInv'
  BY <1>2, TokensEnded DEF WriteFails
<1> QED BY <1>3, <1>4, <1>5 DEF IInv

LEMMA InvCrash == IInv /\ Crash => IInv'
<1> SUFFICES ASSUME IInv, Crash PROVE IInv'
  OBVIOUS
<1>1. \A c \in Callers : call'[c] = Idle
  BY DEF Crash
<1>2. TypeOK'
  <2>1. crashes' \in 0..MaxCrashes
    BY DEF IInv, TypeOK, Crash
  <2>2. call' \in [Callers -> Call]
    BY IdleFields, 0 \in Tokens DEF Crash, Tokens
  <2>3. temp' \in [Callers -> Contents]
    BY ContentsDiffer DEF Crash, NoTemp
  <2> QED BY <2>1, <2>2, <2>3 DEF IInv, TypeOK, Crash
<1>3. TokenInv'
  BY <1>1 DEF Crash, TokenInv, DownIsQuiet, SourceIsNewest, NotifiedInTime, MergedInTime,
              WrittenInTime
<1>4. FileInv'
  BY <1>1, IdleFields DEF IInv, FileInv, FileSurvives, TempsAreWhole, Crash
<1> QED BY <1>2, <1>3, <1>4 DEF IInv

LEMMA InvOther == IInv /\ (Expire \/ UNCHANGED vars) => IInv'
<1> SUFFICES ASSUME IInv, Expire \/ UNCHANGED vars PROVE IInv'
  OBVIOUS
<1>1. /\ UNCHANGED <<up, src, last, mem, files, issued, call, notified, late, failed, crashes>>
      /\ expired' = TRUE \/ expired' = expired
  BY DEF Expire, vars
<1>2. TypeOK'
  BY <1>1 DEF IInv, TypeOK, files
<1>3. DownIsQuiet' /\ SourceIsNewest'
  BY <1>1 DEF IInv, TokenInv, DownIsQuiet, SourceIsNewest
<1>4. NotifiedInTime'
  BY <1>1 DEF IInv, TokenInv, NotifiedInTime, Untouched, Noticing
<1>5. MergedInTime' /\ WrittenInTime'
  BY <1>1 DEF IInv, TokenInv, MergedInTime, WrittenInTime, Noticing, Merging, Writing, files
<1>6. FileInv'
  BY <1>1 DEF IInv, FileInv, FileSurvives, TempsAreWhole, files
<1> QED BY <1>2, <1>3, <1>4, <1>5, <1>6 DEF IInv, TokenInv

LEMMA InvStep == ASSUME IInv, NEW c \in Callers, Step(c) PROVE IInv'
BY InvBaseToken, InvCompare, InvMerge, InvMarshal, InvOpen, InvFill, InvRemove, InvRename,
   InvWriteFails DEF Step

LEMMA InvNext == IInv /\ [Next]_vars => IInv'
BY InvAuthenticate, InvCrash, InvOther, InvStep DEF Next
-----------------------------------------------------------------------------
LEMMA Invariance == Spec => []IInv
BY InvInit, InvNext, PTL DEF Spec

(***************************************************************************)
(* No refresh goes unnoticed, however many requests ask for the token at   *)
(* once: onRefresh has been called with the token in use, or nothing has   *)
(* been refreshed since the start.                                         *)
(***************************************************************************)
THEOREM RefreshesAreNotified == Spec => []RefreshIsNotified
<1>1. IInv => RefreshIsNotified
  BY DEF IInv, TokenInv, NotifiedInTime, RefreshIsNotified, Untouched, Noticing, Quiet
<1> QED BY <1>1, Invariance, PTL

(***************************************************************************)
(* The auth file is behind the token in use only if a write failed, or a   *)
(* superseded token was merged or written after the newer one; and every   *)
(* variable has its type.                                                  *)
(***************************************************************************)
THEOREM FileBehindHasACause == Spec => []BehindHasACause
<1>1. IInv => BehindHasACause
  <2> SUFFICES ASSUME IInv, up, Quiet, disk # src, ~late, ~failed PROVE FALSE
    BY DEF BehindHasACause, IInv
  <2>1. \A c \in Callers : ~Noticing(c) /\ ~Merging(c) /\ ~Writing(c)
    BY DEF Quiet, Noticing, Merging, Writing
  <2>2. disk # NoFile
    BY DEF IInv, FileInv, FileSurvives, Quiet
  <2> QED BY <2>1, <2>2 DEF IInv, TokenInv, WrittenInTime
<1> QED BY <1>1, Invariance, PTL

(***************************************************************************)
(* Whatever step of whichever write a crash or a failure comes after, and  *)
(* however the writes overlap, the auth file is whole; it is there once it *)
(* was, but for the gap that the Windows build has between the removal and *)
(* the rename.                                                             *)
(***************************************************************************)
THEOREM FilesSurvive == Spec => []FileSurvives
<1>1. IInv => FileSurvives
  BY DEF IInv, FileInv
<1> QED BY <1>1, Invariance, PTL
=============================================================================
