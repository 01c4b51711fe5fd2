--------------------------- MODULE Uploads_proofs ---------------------------
(***************************************************************************)
(* Theorems about Uploads, for any number of concurrent uploads, sets,     *)
(* names and chunks: what a directory shows is somebody's whole file, and  *)
(* a label stands for the one file it was given to.                        *)
(*                                                                         *)
(* The invariant follows an inode: it has one home, a set and a name; it   *)
(* is never both the .part file and the file; and whoever is alone with a  *)
(* name writes to the .part file that is there.                            *)
(***************************************************************************)
EXTENDS Uploads, TLAPS, FiniteSetTheorems

Types ==
  /\ part \in [Sets -> [Names -> Inode]] /\ final \in [Sets -> [Names -> Inode]]
  /\ content \in [Requests -> Bytes]
  /\ request \in [Requests -> Request]

\* Where inode i is or is being written for.
Writes(r, i, s, n) ==
  At(r, "writing") /\ request[r].inode = i /\ request[r].set = s /\ request[r].name = n
IsHome(i, s, n) ==
  part[s][n] = i \/ final[s][n] = i \/ \E r \in Requests : Writes(r, i, s, n)

WritesSomewhere ==
  \A r \in Requests : request[r].pc \in {"writing", "renamed", "recorded"} =>
    request[r].set \in Sets /\ request[r].name \in Names /\ request[r].inode \in Requests

OneHome ==
  \A i \in Requests : \A s, t \in Sets : \A n, m \in Names :
    IsHome(i, s, n) /\ IsHome(i, t, m) => s = t /\ n = m

PartIsNotFinal == \A s \in Sets, n \in Names : part[s][n] # None => part[s][n] # final[s][n]

IdleOwnNothing ==
  \A r \in Requests : At(r, "idle") => \A s \in Sets, n \in Names : ~IsHome(r, s, n)

UnderWayOn(r, s, n) ==
  request[r].pc \in {"writing", "renamed", "recorded"} /\ request[r].set = s /\ request[r].name = n

\* Two uploads of one name that are under way overlapped.
OverlapIsRecorded ==
  \A s \in Sets, n \in Names : \A r, q \in Requests :
    UnderWayOn(r, s, n) /\ UnderWayOn(q, s, n) /\ r # q => ~Untouched(s, n)

WriterHoldsPart ==
  \A s \in Sets, n \in Names : \A r \in Requests : \A i \in Requests :
    Writes(r, i, s, n) /\ Untouched(s, n) =>
      part[s][n] = i /\ \A c \in 1..request[r].chunk : content[i][c] = r

IInv ==
  /\ Types /\ WritesSomewhere /\ OneHome /\ PartIsNotFinal /\ IdleOwnNothing
  /\ OverlapIsRecorded /\ WriterHoldsPart /\ WholeFileOrNone

-----------------------------------------------------------------------------
LEMMA InitIInv == Init => IInv
<1> SUFFICES ASSUME Init PROVE IInv
  OBVIOUS
<1>1. /\ \A s \in Sets, n \in Names : part[s][n] = None /\ final[s][n] = None
      /\ \A r \in Requests : request[r] = Idle
      /\ None \notin Requests
  BY NoneAssumption DEF Init
<1>2. \A r \in Requests : request[r].pc = "idle"
  BY <1>1 DEF Idle
<1>3. 0 \in 0..Chunks
  BY BoundAssumption
<1>4. Idle \in Request
  BY <1>3 DEF Idle, Request, Inode
<1>5. Types
  BY <1>4 DEF Init, Types, Inode, Bytes, Blank
<1>6. \A r \in Requests, i \in Requests : \A s \in Sets, n \in Names :
        ~UnderWayOn(r, s, n) /\ ~Writes(r, i, s, n) /\ ~IsHome(i, s, n)
  BY <1>1, <1>2 DEF IsHome, Writes, At, UnderWayOn
<1> QED
  BY <1>1, <1>2, <1>5, <1>6 DEF IInv, WritesSomewhere, OneHome, PartIsNotFinal, IdleOwnNothing,
     OverlapIsRecorded, WriterHoldsPart, WholeFileOrNone

\* Nobody's file is behind the inode an upload opens.
LEMMA OpenedIsNobodysFile ==
  ASSUME IInv, NEW r \in Requests, NEW s \in Sets, NEW n \in Names, At(r, "idle"),
         NEW i \in Requests, i = IF part[s][n] = None THEN r ELSE part[s][n]
  PROVE  \A t \in Sets, m \in Names : final[t][m] # i
<1> SUFFICES ASSUME NEW t \in Sets, NEW m \in Names, final[t][m] = i PROVE FALSE
  OBVIOUS
<1>1. IsHome(i, t, m)
  BY DEF IsHome
<1>2. i # r /\ part[s][n] = i
  BY <1>1 DEF IInv, IdleOwnNothing
<1>3. t = s /\ m = n
  BY <1>1, <1>2 DEF IInv, OneHome, IsHome
<1>4. i # None
  BY NoneAssumption
<1> QED BY <1>2, <1>3, <1>4 DEF IInv, PartIsNotFinal

\* An upload opens its .part file.  If there is one, its home is here and nobody's file is
\* behind it; if there is none, the new inode has no home yet.
LEMMA OpenPreservesIInv ==
  ASSUME IInv, NEW r \in Requests, NEW s \in Sets, NEW n \in Names,
         NEW label \in Labels \cup {None}, NEW key \in Keys \cup {None},
         At(r, "idle"), Open(r, s, n, label, key), UNCHANGED final
  PROVE  IInv'
<1>1. Types /\ None \notin Requests
  BY NoneAssumption DEF IInv, Types, Inode
<1>0. PICK i \in Requests : i = IF part[s][n] = None THEN r ELSE part[s][n]
  BY <1>1 DEF Types, Inode
<1> DEFINE new == [pc |-> "writing", set |-> s, name |-> n, label |-> label, key |-> key,
                   inode |-> i, chunk |-> 0]
<1>2. 0 \in 0..Chunks /\ 1..0 = {}
  BY BoundAssumption
<1>3. new \in Request
  BY <1>1, <1>2 DEF Request, Inode
<1>4. /\ part' = [part EXCEPT ![s][n] = i]
      /\ content' = [content EXCEPT ![i] = Blank]
      /\ request' = [request EXCEPT ![r] = new]
      /\ overlapped' = overlapped \cup {<<s, n, request[q].name>> : q \in UnderWay(s)}
  BY <1>0 DEF Open
<1>5. /\ new.pc = "writing" /\ new.inode = i /\ new.set = s /\ new.name = n /\ new.chunk = 0
  OBVIOUS
<1>6. /\ \A t \in Sets, m \in Names : part'[t][m] = IF t = s /\ m = n THEN i ELSE part[t][m]
      /\ \A j \in Requests : j # i => content'[j] = content[j]
      /\ request'[r] = new
      /\ \A q \in Requests : q # r => request'[q] = request[q]
  BY <1>1, <1>4 DEF Types
<1>7. Types'
  BY <1>1, <1>3, <1>4 DEF Types, Bytes, Blank, Inode
<1> HIDE DEF new
<1>8. /\ \A q \in Requests : q # r => /\ \A pc : At(q, pc)' = At(q, pc)
                                      /\ \A t, m : UnderWayOn(q, t, m)' = UnderWayOn(q, t, m)
                                      /\ \A j, t, m : Writes(q, j, t, m)' = Writes(q, j, t, m)
      /\ ~At(r, "idle")' /\ At(r, "writing")'
      /\ \A t, m : UnderWayOn(r, t, m)' <=> t = s /\ m = n
      /\ \A j, t, m : Writes(r, j, t, m)' <=> j = i /\ t = s /\ m = n
      /\ \A j, t, m : ~Writes(r, j, t, m)
  BY <1>5, <1>6 DEF At, UnderWayOn, Writes
<1>9. \A t \in Sets, m \in Names : i # r => (IsHome(i, t, m) <=> t = s /\ m = n)
  BY <1>0, <1>1 DEF IInv, OneHome, IsHome
<1>10. \A t \in Sets, m \in Names : i = r => ~IsHome(i, t, m)
  BY DEF IInv, IdleOwnNothing
<1>11. ASSUME NEW j \in Requests, NEW t \in Sets, NEW m \in Names
       PROVE  IsHome(j, t, m)' => IF j = i THEN t = s /\ m = n ELSE IsHome(j, t, m)
  <2>1. CASE j = i
    <3>1. i = r => ~IsHome(i, t, m)
      BY <1>10
    <3>2. i # r => (IsHome(i, t, m) <=> t = s /\ m = n)
      BY <1>9
    <3>3. IsHome(i, t, m)' => IsHome(i, t, m) \/ (t = s /\ m = n)
      BY <1>6, <1>8 DEF IsHome
    <3> QED BY <2>1, <3>1, <3>2, <3>3
  <2>2. CASE j # i
    BY <1>1, <1>6, <1>8, <2>2 DEF IsHome
  <2> QED BY <2>1, <2>2
<1>12. OneHome'
  BY <1>11 DEF IInv, OneHome
<1>13. \A t \in Sets, m \in Names : final[t][m] # i
  BY <1>0, OpenedIsNobodysFile
<1>14. PartIsNotFinal'
  BY <1>6, <1>13 DEF IInv, PartIsNotFinal
<1>15. IdleOwnNothing'
  <2> SUFFICES ASSUME NEW q \in Requests, At(q, "idle")', NEW t \in Sets, NEW m \in Names, IsHome(q, t, m)'
               PROVE  FALSE
    BY DEF IdleOwnNothing
  <2>1. q # r /\ At(q, "idle") /\ ~IsHome(q, t, m)
    BY <1>8 DEF IInv, IdleOwnNothing
  <2>2. q = i
    BY <1>11, <2>1
  <2>3. IsHome(i, s, n)
    BY <1>9, <2>1, <2>2
  <2> QED BY <2>1, <2>2, <2>3 DEF IInv, IdleOwnNothing
<1>16. WritesSomewhere'
  BY <1>1, <1>5, <1>6 DEF IInv, WritesSomewhere
<1>17. \A t \in Sets, m \in Names : Untouched(t, m)' => Untouched(t, m)
  BY <1>4 DEF Untouched
<1>18. \A q \in Requests : q # r /\ UnderWayOn(q, s, n) => ~Untouched(s, n)'
  BY <1>4 DEF Untouched, UnderWay, UnderWayOn
<1>19. OverlapIsRecorded'
  BY <1>8, <1>17, <1>18 DEF IInv, OverlapIsRecorded
<1>20. WriterHoldsPart'
  <2> SUFFICES ASSUME NEW t \in Sets, NEW m \in Names, NEW q \in Requests, NEW j \in Requests,
                      Writes(q, j, t, m)', Untouched(t, m)'
               PROVE  part'[t][m] = j /\ \A c \in 1..request'[q].chunk : content'[j][c] = q
    BY DEF WriterHoldsPart
  <2>1. CASE q = r
    BY <1>2, <1>5, <1>6, <1>8, <2>1
  <2>2. CASE q # r
    <3>1. Writes(q, j, t, m) /\ UnderWayOn(q, t, m) /\ IsHome(j, t, m)
      BY <1>8, <2>2 DEF Writes, UnderWayOn, At, IsHome
    <3>2. ~(t = s /\ m = n)
      BY <1>18, <2>2, <3>1
    <3>3. j # i
      BY <1>9, <1>10, <3>1, <3>2
    <3> QED BY <1>6, <1>17, <2>2, <3>1, <3>2, <3>3 DEF IInv, WriterHoldsPart
  <2> QED BY <2>1, <2>2
<1>21. WholeFileOrNone'
  <2> SUFFICES ASSUME NEW t \in Sets, NEW m \in Names, final[t][m] # None, Untouched(t, m)'
               PROVE  \E q \in Requests : content'[final[t][m]] = [c \in 1..Chunks |-> q]
    BY DEF WholeFileOrNone
  <2>1. final[t][m] \in Requests /\ final[t][m] # i
    BY <1>1, <1>13 DEF Types, Inode
  <2> QED BY <1>6, <1>17, <2>1 DEF IInv, WholeFileOrNone
<1> QED
  BY <1>7, <1>12, <1>14, <1>15, <1>16, <1>19, <1>20, <1>21 DEF IInv

\* A chunk goes to the inode the upload opened: nobody's file, unless two uploads of that
\* name overlapped.
LEMMA WriteChunkPreservesIInv ==
  ASSUME IInv, NEW r \in Requests, WriteChunk(r)
  PROVE  IInv'
<1> DEFINE i == request[r].inode
           s == request[r].set
           n == request[r].name
           d == request[r].chunk
<1>1. /\ Types /\ None \notin Requests /\ i \in Requests /\ s \in Sets /\ n \in Names
      /\ d \in 0..Chunks /\ d < Chunks /\ Chunks \in Nat /\ At(r, "writing")
      /\ content' = [content EXCEPT ![i][d + 1] = r]
      /\ request' = [request EXCEPT ![r].chunk = d + 1]
      /\ UNCHANGED <<part, final, overlapped>>
  BY NoneAssumption, BoundAssumption DEF IInv, WriteChunk, Types, Request, WritesSomewhere, At
<1>2. /\ d + 1 \in 1..Chunks /\ d + 1 \in 0..Chunks /\ 1..(d + 1) = 1..d \cup {d + 1}
  BY <1>1
<1>3. /\ content' \in [Requests -> Bytes] /\ request' \in [Requests -> Request]
  <2>1. [content[i] EXCEPT ![d + 1] = r] \in Bytes
    BY <1>1, <1>2 DEF Types, Bytes, Inode
  <2>2. [request[r] EXCEPT !.chunk = d + 1] \in Request
    BY <1>1, <1>2 DEF Types, Request
  <2>3. content' = [content EXCEPT ![i] = [content[i] EXCEPT ![d + 1] = r]]
    BY <1>1
  <2>4. request' = [request EXCEPT ![r] = [request[r] EXCEPT !.chunk = d + 1]]
    BY <1>1
  <2> HIDE DEF i, d
  <2> QED BY <1>1, <2>1, <2>2, <2>3, <2>4 DEF Types
<1>4. Types'
  BY <1>1, <1>3 DEF Types
<1>5. /\ \A j \in Requests : j # i => content'[j] = content[j]
      /\ content'[i][d + 1] = r
      /\ \A c \in 1..Chunks : c # d + 1 => content'[i][c] = content[i][c]
  BY <1>1, <1>2 DEF Types, Bytes
<1>6. /\ \A q \in Requests : /\ request'[q].pc = request[q].pc /\ request'[q].inode = request[q].inode
                             /\ request'[q].set = request[q].set /\ request'[q].name = request[q].name
                             /\ q # r => request'[q].chunk = request[q].chunk
      /\ request'[r].chunk = d + 1
  BY <1>1 DEF Types, Request
<1> HIDE DEF i, s, n, d
<1>7. \A q \in Requests : /\ \A pc : At(q, pc)' <=> At(q, pc)
                          /\ \A t, m : UnderWayOn(q, t, m)' <=> UnderWayOn(q, t, m)
                          /\ \A j, t, m : Writes(q, j, t, m)' <=> Writes(q, j, t, m)
  BY <1>6 DEF At, UnderWayOn, Writes
<1>8. /\ \A j, t, m : IsHome(j, t, m)' <=> IsHome(j, t, m)
      /\ \A t, m : Untouched(t, m)' <=> Untouched(t, m)
  BY <1>1, <1>7 DEF IsHome, Untouched
<1>9. /\ WritesSomewhere' /\ OneHome' /\ PartIsNotFinal' /\ IdleOwnNothing' /\ OverlapIsRecorded'
  <2>1. WritesSomewhere'
    BY <1>6 DEF IInv, WritesSomewhere
  <2>2. OneHome'
    BY <1>8 DEF IInv, OneHome
  <2>3. PartIsNotFinal'
    BY <1>1 DEF IInv, PartIsNotFinal
  <2>4. IdleOwnNothing'
    BY <1>7, <1>8 DEF IInv, IdleOwnNothing
  <2>5. OverlapIsRecorded'
    BY <1>7, <1>8 DEF IInv, OverlapIsRecorded
  <2> QED BY <2>1, <2>2, <2>3, <2>4, <2>5
<1>10. Writes(r, i, s, n) /\ IsHome(i, s, n) /\ UnderWayOn(r, s, n)
  BY <1>1 DEF Writes, IsHome, UnderWayOn, At, i, s, n
<1>11. WriterHoldsPart'
  <2> SUFFICES ASSUME NEW t \in Sets, NEW m \in Names, NEW q \in Requests, NEW j \in Requests,
                      Writes(q, j, t, m), Untouched(t, m)
               PROVE  part[t][m] = j /\ \A c \in 1..request'[q].chunk : content'[j][c] = q
    BY <1>1, <1>7, <1>8 DEF WriterHoldsPart
  <2>1. part[t][m] = j /\ \A c \in 1..request[q].chunk : content[j][c] = q
    BY DEF IInv, WriterHoldsPart
  <2>2. CASE j # i
    <3>1. q # r
      BY <1>10, <2>2 DEF Writes
    <3> QED BY <1>5, <1>6, <2>1, <2>2, <3>1
  <2>3. CASE j = i
    <3>1. IsHome(j, t, m) /\ UnderWayOn(q, t, m)
      BY DEF IsHome, Writes, UnderWayOn, At
    <3>2. t = s /\ m = n
      BY <1>1, <1>10, <2>3, <3>1 DEF IInv, OneHome
    <3>3. q = r
      BY <1>10, <3>1, <3>2 DEF IInv, OverlapIsRecorded
    <3>4. \A c \in 1..d : content[i][c] = r /\ c # d + 1 /\ c \in 1..Chunks
      BY <1>1, <2>1, <2>3, <3>3 DEF d
    <3> QED BY <1>2, <1>5, <1>6, <2>1, <2>3, <3>3, <3>4
  <2> QED BY <2>2, <2>3
<1>12. WholeFileOrNone'
  <2> SUFFICES ASSUME NEW t \in Sets, NEW m \in Names, final[t][m] # None, Untouched(t, m)
               PROVE  \E q \in Requests : content'[final[t][m]] = [c \in 1..Chunks |-> q]
    BY <1>1, <1>8 DEF WholeFileOrNone
  <2>1. final[t][m] \in Requests
    BY <1>1 DEF Types, Inode
  <2>2. ASSUME final[t][m] = i PROVE FALSE
    <3>1. t = s /\ m = n
      BY <1>1, <1>10, <2>2 DEF IInv, OneHome, IsHome
    <3>2. part[t][m] = i
      BY <1>1, <1>10, <3>1 DEF IInv, WriterHoldsPart
    <3> QED BY <1>1, <2>2, <3>2 DEF IInv, PartIsNotFinal
  <2> QED BY <1>5, <2>1, <2>2 DEF IInv, WholeFileOrNone
<1> QED
  BY <1>4, <1>9, <1>11, <1>12 DEF IInv

\* A step of a request that leaves the directories alone.
Recedes(q) ==
  \/ request'[q] = request[q]
  \/ request[q].pc = "idle" /\ request'[q].pc = "idle"
  \/ request'[q].pc = "done"
  \/ /\ request[q].pc = "renamed" /\ request'[q].pc = "recorded" /\ request'[q].inode = request[q].inode
     /\ request'[q].set = request[q].set /\ request'[q].name = request[q].name

LEMMA DiskAlonePreservesIInv ==
  ASSUME IInv, UNCHANGED <<part, final, content, overlapped>>,
         request' \in [Requests -> Request], \A q \in Requests : Recedes(q)
  PROVE  IInv'
<1>1. Types'
  BY DEF IInv, Types
<1>2. /\ \A q \in Requests : /\ At(q, "idle")' => At(q, "idle")
                             /\ \A t, m : UnderWayOn(q, t, m)' => UnderWayOn(q, t, m)
                             /\ \A j, t, m : Writes(q, j, t, m)' =>
                                  Writes(q, j, t, m) /\ request'[q].chunk = request[q].chunk
  BY DEF Recedes, At, UnderWayOn, Writes
<1>3. \A j, t, m : IsHome(j, t, m)' => IsHome(j, t, m)
  BY <1>2 DEF IsHome
<1>4. \A t, m : Untouched(t, m)' <=> Untouched(t, m)
  BY DEF Untouched
<1>5. WritesSomewhere'
  BY DEF Recedes, IInv, WritesSomewhere
<1>6. OneHome' /\ IdleOwnNothing'
  BY <1>2, <1>3 DEF IInv, OneHome, IdleOwnNothing
<1>7. PartIsNotFinal' /\ WholeFileOrNone'
  BY <1>4 DEF IInv, PartIsNotFinal, WholeFileOrNone
<1>8. OverlapIsRecorded'
  BY <1>2, <1>4 DEF IInv, OverlapIsRecorded
<1>9. WriterHoldsPart'
  BY <1>2, <1>4 DEF IInv, WriterHoldsPart
<1> QED
  BY <1>1, <1>5, <1>6, <1>7, <1>8, <1>9 DEF IInv

\* What is at the .part file of an upload that gives up is unlinked; another upload of
\* that name has overlapped.
LEMMA AbortPreservesIInv ==
  ASSUME IInv, NEW r \in Requests, Abort(r)
  PROVE  IInv'
<1> DEFINE s == request[r].set
           n == request[r].name
<1>1. /\ Types /\ None \notin Requests /\ s \in Sets /\ n \in Names /\ At(r, "writing")
      /\ part' = [part EXCEPT ![s][n] = None] /\ request' = [request EXCEPT ![r] = Done]
      /\ UNCHANGED <<final, content, overlapped>>
  BY NoneAssumption DEF IInv, Abort, WritesSomewhere, At
<1>2. UnderWayOn(r, s, n)
  BY <1>1 DEF UnderWayOn, At
<1> HIDE DEF s, n
<1>3. Done \in Request /\ Done.pc = "done"
  <2>1. 0 \in 0..Chunks
    BY BoundAssumption
  <2>2. Idle \in Request
    BY <2>1 DEF Idle, Request, Inode
  <2> QED BY <2>2 DEF Done, Request
<1>4. /\ \A q \in Requests : q # r => request'[q] = request[q]
      /\ request'[r].pc = "done"
      /\ request' \in [Requests -> Request]
  BY <1>1, <1>3 DEF Types
<1>5. /\ part' \in [Sets -> [Names -> Inode]]
      /\ \A t \in Sets, m \in Names : part'[t][m] = IF t = s /\ m = n THEN None ELSE part[t][m]
  BY <1>1 DEF Types, Inode
<1>6. Types'
  BY <1>1, <1>4, <1>5 DEF Types
<1>7. \A q \in Requests : /\ At(q, "idle")' => At(q, "idle")
                          /\ \A t, m : UnderWayOn(q, t, m)' => UnderWayOn(q, t, m) /\ q # r
                          /\ \A j, t, m : Writes(q, j, t, m)' =>
                               Writes(q, j, t, m) /\ q # r /\ request'[q] = request[q]
  BY <1>4 DEF At, UnderWayOn, Writes
<1>8. \A j \in Requests : \A t \in Sets, m \in Names : IsHome(j, t, m)' => IsHome(j, t, m)
  BY <1>1, <1>5, <1>7 DEF IsHome
<1>9. \A t, m : Untouched(t, m)' <=> Untouched(t, m)
  BY <1>1 DEF Untouched
<1>10. WritesSomewhere'
  BY <1>4 DEF IInv, WritesSomewhere
<1>11. OneHome' /\ IdleOwnNothing'
  BY <1>7, <1>8 DEF IInv, OneHome, IdleOwnNothing
<1>12. PartIsNotFinal'
  BY <1>1, <1>5 DEF IInv, PartIsNotFinal
<1>13. OverlapIsRecorded'
  BY <1>7, <1>9 DEF IInv, OverlapIsRecorded
<1>14. WriterHoldsPart'
  <2> SUFFICES ASSUME NEW t \in Sets, NEW m \in Names, NEW q \in Requests, NEW j \in Requests,
                      Writes(q, j, t, m)', Untouched(t, m)
               PROVE  part'[t][m] = j /\ \A c \in 1..request'[q].chunk : content[j][c] = q
    BY <1>1, <1>9 DEF WriterHoldsPart
  <2>1. Writes(q, j, t, m) /\ q # r /\ request'[q] = request[q]
    BY <1>7
  <2>2. UnderWayOn(q, t, m)
    BY <2>1 DEF Writes, UnderWayOn, At
  <2>3. ~(t = s /\ m = n)
    BY <1>1, <1>2, <2>1, <2>2 DEF IInv, OverlapIsRecorded
  <2> QED BY <1>5, <2>1, <2>3 DEF IInv, WriterHoldsPart
<1>15. WholeFileOrNone'
  BY <1>1, <1>9 DEF IInv, WholeFileOrNone
<1> QED
  BY <1>6, <1>10, <1>11, <1>12, <1>13, <1>14, <1>15 DEF IInv

\* The .part file takes its name.  Of an upload that was alone with the name, it is the
\* inode the upload wrote every chunk of.
LEMMA RenamePreservesIInv ==
  ASSUME IInv, NEW r \in Requests, Rename(r)
  PROVE  IInv'
<1> DEFINE s == request[r].set
           n == request[r].name
           renamed == [request[r] EXCEPT !.pc = "renamed"]
<1>1. /\ Types /\ None \notin Requests /\ s \in Sets /\ n \in Names /\ At(r, "writing")
      /\ request[r].chunk = Chunks /\ UNCHANGED <<content, overlapped>>
  BY NoneAssumption DEF IInv, Rename, WritesSomewhere, At
<1>2. CASE part[s][n] = None
  <2>1. request' = [request EXCEPT ![r] = Done] /\ UNCHANGED <<part, final>>
    BY <1>2 DEF Rename
  <2>2. Done \in Request /\ Done.pc = "done"
    <3>1. 0 \in 0..Chunks
      BY BoundAssumption
    <3>2. Idle \in Request
      BY <3>1 DEF Idle, Request, Inode
    <3> QED BY <3>2 DEF Done, Request
  <2>3. request' \in [Requests -> Request] /\ \A q \in Requests : Recedes(q)
    BY <1>1, <2>1, <2>2 DEF Types, Recedes
  <2> QED BY <1>1, <2>1, <2>3, DiskAlonePreservesIInv
<1>3. CASE part[s][n] # None
  <2>1. PICK i \in Requests : part[s][n] = i
    BY <1>1, <1>3 DEF Types, Inode
  <2>2. /\ final' = [final EXCEPT ![s][n] = i] /\ part' = [part EXCEPT ![s][n] = None]
        /\ request' = [request EXCEPT ![r] = renamed]
    BY <1>3, <2>1 DEF Rename
  <2>3. /\ renamed \in Request /\ renamed.pc = "renamed" /\ renamed.inode = request[r].inode
        /\ renamed.set = s /\ renamed.name = n
    BY <1>1 DEF Types, Request
  <2>4. UnderWayOn(r, s, n) /\ Writes(r, request[r].inode, s, n) /\ request[r].inode \in Requests
    BY <1>1 DEF UnderWayOn, Writes, At, IInv, WritesSomewhere
  <2> HIDE DEF renamed
  <2>5. /\ \A q \in Requests : q # r => request'[q] = request[q]
        /\ request'[r] = renamed /\ request' \in [Requests -> Request]
    BY <1>1, <2>2, <2>3 DEF Types
  <2>6. /\ WritesSomewhere'
        /\ \A q \in Requests : /\ At(q, "idle")' => At(q, "idle")
                               /\ \A t, m : UnderWayOn(q, t, m)' => UnderWayOn(q, t, m)
                               /\ \A j, t, m : Writes(q, j, t, m)' =>
                                    Writes(q, j, t, m) /\ q # r /\ request'[q] = request[q]
    <3>1. WritesSomewhere'
      BY <1>1, <2>3, <2>4, <2>5 DEF IInv, WritesSomewhere
    <3>2. UnderWayOn(r, s, n) /\ request'[r].set = s /\ request'[r].name = n /\ request'[r].pc = "renamed"
      BY <2>3, <2>4, <2>5
    <3> HIDE DEF s, n
    <3> QED BY <2>5, <3>1, <3>2 DEF At, UnderWayOn, Writes
  <2> HIDE DEF s, n
  <2>7. /\ part' \in [Sets -> [Names -> Inode]] /\ final' \in [Sets -> [Names -> Inode]]
        /\ \A t \in Sets, m \in Names : part'[t][m] = IF t = s /\ m = n THEN None ELSE part[t][m]
        /\ \A t \in Sets, m \in Names : final'[t][m] = IF t = s /\ m = n THEN i ELSE final[t][m]
    BY <1>1, <2>2 DEF Types, Inode
  <2>8. Types'
    BY <1>1, <2>5, <2>7 DEF Types
  <2>9. \A j \in Requests : \A t \in Sets, m \in Names : IsHome(j, t, m)' => IsHome(j, t, m)
    BY <1>1, <2>1, <2>6, <2>7 DEF IsHome
  <2>10. \A t, m : Untouched(t, m)' <=> Untouched(t, m)
    BY <1>1 DEF Untouched
  <2>11. OneHome' /\ IdleOwnNothing'
    BY <2>6, <2>9 DEF IInv, OneHome, IdleOwnNothing
  <2>12. PartIsNotFinal'
    <3>1. \A t \in Sets, m \in Names : part[t][m] # None => part[t][m] # final[t][m]
      BY DEF IInv, PartIsNotFinal
    <3> QED BY <2>7, <3>1 DEF PartIsNotFinal
  <2>13. OverlapIsRecorded'
    BY <2>6, <2>10 DEF IInv, OverlapIsRecorded
  <2>14. WriterHoldsPart'
    <3> SUFFICES ASSUME NEW t \in Sets, NEW m \in Names, NEW q \in Requests, NEW j \in Requests,
                        Writes(q, j, t, m)', Untouched(t, m)
                 PROVE  part'[t][m] = j /\ \A c \in 1..request'[q].chunk : content[j][c] = q
      BY <1>1, <2>10 DEF WriterHoldsPart
    <3>1. Writes(q, j, t, m) /\ q # r /\ request'[q] = request[q]
      BY <2>6
    <3>2. UnderWayOn(q, t, m)
      BY <3>1 DEF Writes, UnderWayOn, At
    <3>3. ~(t = s /\ m = n)
      BY <1>1, <2>4, <3>1, <3>2 DEF IInv, OverlapIsRecorded
    <3> QED BY <2>7, <3>1, <3>3 DEF IInv, WriterHoldsPart
  <2>15. WholeFileOrNone'
    <3> SUFFICES ASSUME NEW t \in Sets, NEW m \in Names, final'[t][m] # None, Untouched(t, m)
                 PROVE  \E q \in Requests : content[final'[t][m]] = [c \in 1..Chunks |-> q]
      BY <1>1, <2>10 DEF WholeFileOrNone
    <3>1. CASE ~(t = s /\ m = n)
      BY <2>7, <3>1 DEF IInv, WholeFileOrNone
    <3>2. CASE t = s /\ m = n
      <4>1. request[r].inode = i /\ \A c \in 1..Chunks : content[i][c] = r
        BY <1>1, <2>1, <2>4, <3>2 DEF IInv, WriterHoldsPart
      <4>2. content[i] = [c \in 1..Chunks |-> r]
        BY <1>1, <4>1 DEF Types, Bytes
      <4>3. final'[t][m] = i
        BY <2>7, <3>2
      <4> QED BY <4>2, <4>3
    <3> QED BY <3>1, <3>2
  <2> QED
    BY <2>6, <2>8, <2>11, <2>12, <2>13, <2>14, <2>15 DEF IInv
<1> QED BY <1>2, <1>3

\* A restart, and the steps of an upload and of POST .../label that touch only the
\* registry.
LEMMA RegistryPreservesIInv ==
  ASSUME IInv,
         \/ \E r \in Requests : PostAgain(r) \/ RecordFile(r) \/ LabelInline(r)
         \/ \E s \in Sets, n \in Names, label \in Labels : PostLabel(s, n, label)
         \/ Restart
  PROVE  IInv'
<1>1. Idle \in Request /\ Idle.pc = "idle" /\ Done \in Request /\ Done.pc = "done"
  <2>1. 0 \in 0..Chunks
    BY BoundAssumption
  <2>2. Idle \in Request /\ Idle.pc = "idle"
    BY <2>1 DEF Idle, Request, Inode
  <2> QED BY <2>2 DEF Done, Request
<1>2. Types
  BY DEF IInv
<1>3. ASSUME NEW r \in Requests, request' = [request EXCEPT ![r] = Done]
      PROVE  request' \in [Requests -> Request] /\ \A q \in Requests : Recedes(q)
  BY <1>1, <1>2, <1>3 DEF Types, Recedes
<1>4. ASSUME NEW r \in Requests, At(r, "renamed"), request' = [request EXCEPT ![r].pc = "recorded"]
      PROVE  request' \in [Requests -> Request] /\ \A q \in Requests : Recedes(q)
  <2> DEFINE recorded == [request[r] EXCEPT !.pc = "recorded"]
  <2>1. /\ recorded \in Request /\ recorded.pc = "recorded" /\ recorded.inode = request[r].inode
        /\ recorded.set = request[r].set /\ recorded.name = request[r].name
    BY <1>2 DEF Types, Request
  <2>2. request' = [request EXCEPT ![r] = recorded]
    BY <1>4
  <2> HIDE DEF recorded
  <2> QED BY <1>2, <1>4, <2>1, <2>2 DEF Types, Recedes, At
<1>5. ASSUME NEW r \in Requests, PostAgain(r) \/ RecordFile(r) \/ LabelInline(r)
      PROVE  IInv'
  <2>1. /\ UNCHANGED <<part, final, content, overlapped>>
        /\ \/ request' = [request EXCEPT ![r] = Done]
           \/ At(r, "renamed") /\ request' = [request EXCEPT ![r].pc = "recorded"]
    BY <1>5 DEF PostAgain, RecordFile, LabelInline, Respond, disk
  <2> QED BY <1>3, <1>4, <2>1, DiskAlonePreservesIInv
<1>6. ASSUME NEW s \in Sets, NEW n \in Names, NEW label \in Labels, PostLabel(s, n, label)
      PROVE  IInv'
  <2>1. UNCHANGED <<part, final, content, overlapped, request>>
    BY <1>6 DEF PostLabel, disk
  <2>2. request' \in [Requests -> Request] /\ \A q \in Requests : Recedes(q)
    BY <1>2, <2>1 DEF Types, Recedes
  <2> QED BY <2>1, <2>2, DiskAlonePreservesIInv
<1>7. CASE Restart
  <2>1. /\ UNCHANGED <<part, final, content, overlapped>>
        /\ request' = [r \in Requests |-> IF At(r, "idle") THEN Idle ELSE Done]
    BY <1>7 DEF Restart, disk
  <2>2. request' \in [Requests -> Request] /\ \A q \in Requests : Recedes(q)
    BY <1>1, <2>1 DEF Recedes, At
  <2> QED BY <2>1, <2>2, DiskAlonePreservesIInv
<1> QED BY <1>5, <1>6, <1>7

-----------------------------------------------------------------------------
(* What the registry knows of the directories                              *)

RegistryTypes ==
  /\ sets \in Seq(Sets) /\ Range(sets) \subseteq dirs
  /\ DOMAIN files = Sets /\ DOMAIN subject = Sets
  /\ \A s \in Sets : /\ DOMAIN files[s] \subseteq Names /\ IsFiniteSet(DOMAIN files[s])
                     /\ DOMAIN subject[s] = Names
                     /\ s \notin Range(sets) => DOMAIN files[s] = {}

\* A file that is recorded, or about to be, is there.
RecordedIsThere ==
  /\ \A s \in Sets : \A n \in DOMAIN files[s] : final[s][n] \in Requests
  /\ \A r \in Requests : request[r].pc \in {"renamed", "recorded"} =>
       final[request[r].set][request[r].name] \in Requests

LabelsAreDistinct ==
  \A s \in Sets : \A n \in DOMAIN files[s] : files[s][n] # None =>
    \A m \in DOMAIN files[s] \ {n} : files[s][m] # files[s][n]

Awaits(s, n) == \E r \in Requests : At(r, "renamed") /\ request[r].set = s /\ request[r].name = n

LabelsFitTheirFiles ==
  \A s \in Sets : \A n \in DOMAIN files[s] : files[s][n] # None =>
    subject[s][n] = content[final[s][n]] \/ ~Untouched(s, n) \/ Awaits(s, n)

Quiet(s) == \A n, m \in Names : <<s, n, m>> \notin overlapped

\* Without an overlap there is room for the one upload that is under way.
QuietSetsHaveRoom ==
  \A s \in Sets : Quiet(s) =>
    /\ Cardinality(DOMAIN files[s]) <= MaxFiles
    /\ \A r \in Requests, n \in Names : UnderWayOn(r, s, n) => HasRoom(s, n)
    /\ \A r, q \in Requests : \A n, m \in Names : UnderWayOn(r, s, n) /\ UnderWayOn(q, s, m) => r = q

SInv == RegistryTypes /\ RecordedIsThere /\ LabelsAreDistinct /\ LabelsFitTheirFiles /\ QuietSetsHaveRoom

LEMMA NoFilesHaveRoom == Cardinality({}) = 0 /\ 0 <= MaxFiles /\ 0 < MaxFiles /\ IsFiniteSet({})
BY FS_EmptySet, BoundAssumption

LEMMA InitSInv == Init => SInv
<1> SUFFICES ASSUME Init PROVE SInv
  OBVIOUS
<1>1. \A s \in Sets : files[s] = <<>> /\ DOMAIN files[s] = {} /\ DOMAIN subject[s] = Names
  BY DEF Init
<1>2. sets \in Seq(Sets) /\ Range(sets) = {} /\ DOMAIN files = Sets /\ DOMAIN subject = Sets
  BY DEF Init, Range
<1>3. \A r \in Requests : request[r].pc = "idle"
  BY DEF Init, Idle
<1>4. RegistryTypes
  BY <1>1, <1>2, NoFilesHaveRoom DEF RegistryTypes
<1>5. QuietSetsHaveRoom
  BY <1>1, <1>3, NoFilesHaveRoom DEF QuietSetsHaveRoom, UnderWayOn
<1> QED
  BY <1>1, <1>3, <1>4, <1>5 DEF SInv, RecordedIsThere, LabelsAreDistinct, LabelsFitTheirFiles

\* Eviction keeps members only.
LEMMA YoungestAreMembers ==
  ASSUME NEW s \in Sets, sets \in Seq(Sets)
  PROVE  LET kept == Youngest(Append(sets, s), MaxSets)
         IN kept \in Seq(Sets) /\ Range(kept) \subseteq Range(sets) \cup {s}
<1> DEFINE all == Append(sets, s)
<1>1. /\ all \in Seq(Sets) /\ Len(all) \in Nat /\ MaxSets \in Nat \ {0}
      /\ \A k \in 1..Len(all) : all[k] \in Range(sets) \cup {s}
  BY BoundAssumption DEF Range
<1> HIDE DEF all
<1>2. CASE Len(all) > MaxSets
  <2> DEFINE kept == SubSeq(all, Len(all) - MaxSets + 1, Len(all))
  <2>1. /\ kept \in Seq(Sets) /\ Len(kept) = MaxSets
        /\ \A k \in 1..MaxSets : kept[k] = all[Len(all) - MaxSets + k] /\ Len(all) - MaxSets + k \in 1..Len(all)
    BY <1>1, <1>2
  <2>2. Range(kept) \subseteq Range(sets) \cup {s}
    BY <1>1, <2>1 DEF Range
  <2> QED BY <1>2, <2>1, <2>2 DEF Youngest, all
<1>3. CASE ~(Len(all) > MaxSets)
  <2>1. Range(all) \subseteq Range(sets) \cup {s}
    BY <1>1 DEF Range
  <2> QED BY <1>1, <1>3, <2>1 DEF Youngest, all
<1> QED BY <1>2, <1>3

\* A step that leaves the registry alone, starts no upload and takes no file away.
LEMMA RegistryAlonePreservesSInv ==
  ASSUME SInv, UNCHANGED <<sets, files, subject, overlapped>>, dirs \subseteq dirs',
         \A r \in Requests : \A t \in Sets, m \in Names : UnderWayOn(r, t, m)' => UnderWayOn(r, t, m),
         \A t \in Sets, m \in Names : final[t][m] \in Requests => final'[t][m] \in Requests,
         \A r \in Requests : request'[r].pc \in {"renamed", "recorded"} =>
           final'[request'[r].set][request'[r].name] \in Requests,
         \A t \in Sets : \A m \in DOMAIN files[t] : Awaits(t, m) => Awaits(t, m)',
         \A t \in Sets, m \in Names : final[t][m] \in Requests =>
           content'[final'[t][m]] = content[final[t][m]] \/ ~Untouched(t, m) \/ Awaits(t, m)'
  PROVE  SInv'
<1>1. RegistryTypes'
  BY DEF SInv, RegistryTypes
<1>2. RecordedIsThere'
  BY DEF SInv, RegistryTypes, RecordedIsThere
<1>3. LabelsAreDistinct'
  BY DEF SInv, LabelsAreDistinct
<1>4. LabelsFitTheirFiles'
  <2> SUFFICES ASSUME NEW s \in Sets, NEW n \in DOMAIN files[s], files[s][n] # None
               PROVE  subject[s][n] = content'[final'[s][n]] \/ ~Untouched(s, n)' \/ Awaits(s, n)'
    BY DEF LabelsFitTheirFiles
  <2>1. n \in Names /\ final[s][n] \in Requests
    BY DEF SInv, RegistryTypes, RecordedIsThere
  <2>2. Untouched(s, n)' <=> Untouched(s, n)
    BY DEF Untouched
  <2> QED BY <2>1, <2>2 DEF SInv, LabelsFitTheirFiles
<1>5. \A s \in Sets : /\ Quiet(s)' <=> Quiet(s)
                      /\ \A n \in Names : HasRoom(s, n)' <=> HasRoom(s, n)
  BY DEF Quiet, HasRoom
<1>6. QuietSetsHaveRoom'
  BY <1>5 DEF SInv, QuietSetsHaveRoom
<1> QED BY <1>1, <1>2, <1>3, <1>4, <1>6 DEF SInv

\* The content of a file changes only if uploads of its name overlap.
LEMMA WriteChunkPreservesSInv ==
  ASSUME IInv, SInv, NEW r \in Requests, WriteChunk(r)
  PROVE  SInv'
<1> DEFINE i == request[r].inode
           s == request[r].set
           n == request[r].name
<1>1. /\ Types /\ None \notin Requests /\ i \in Requests /\ s \in Sets /\ n \in Names /\ At(r, "writing")
      /\ content' = [content EXCEPT ![i] = [content[i] EXCEPT ![request[r].chunk + 1] = r]]
      /\ request' = [request EXCEPT ![r] = [request[r] EXCEPT !.chunk = @ + 1]]
      /\ UNCHANGED <<part, final, overlapped, sets, files, subject, dirs>>
  BY NoneAssumption DEF IInv, WriteChunk, Types, Request, WritesSomewhere, At
<1>2. Writes(r, i, s, n) /\ IsHome(i, s, n)
  BY <1>1 DEF Writes, IsHome
<1>3. \A q \in Requests : /\ request'[q].pc = request[q].pc
                          /\ request'[q].set = request[q].set /\ request'[q].name = request[q].name
  BY <1>1 DEF Types, Request
<1>4. \A j \in Requests : j # i => content'[j] = content[j]
  BY <1>1 DEF Types
<1> HIDE DEF i, s, n
<1>5. ASSUME NEW t \in Sets, NEW m \in Names, final[t][m] = i, Untouched(t, m) PROVE FALSE
  <2>1. t = s /\ m = n
    BY <1>1, <1>2, <1>5 DEF IInv, OneHome, IsHome
  <2>2. part[t][m] = i
    BY <1>1, <1>2, <1>5, <2>1 DEF IInv, WriterHoldsPart
  <2> QED BY <1>1, <1>5, <2>2 DEF IInv, PartIsNotFinal
<1>6. /\ \A q \in Requests : \A t, m : UnderWayOn(q, t, m)' <=> UnderWayOn(q, t, m)
      /\ \A t, m : Awaits(t, m)' <=> Awaits(t, m)
  BY <1>3 DEF UnderWayOn, Awaits, At
<1>7. \A q \in Requests : request'[q].pc \in {"renamed", "recorded"} =>
        final'[request'[q].set][request'[q].name] \in Requests
  BY <1>1, <1>3 DEF SInv, RecordedIsThere
<1>8. \A t \in Sets, m \in Names : final[t][m] \in Requests =>
        content'[final'[t][m]] = content[final[t][m]] \/ ~Untouched(t, m) \/ Awaits(t, m)'
  BY <1>1, <1>4, <1>5
<1> QED BY <1>1, <1>6, <1>7, <1>8, RegistryAlonePreservesSInv

LEMMA AbortPreservesSInv ==
  ASSUME IInv, SInv, NEW r \in Requests, Abort(r)
  PROVE  SInv'
<1>1. /\ Types /\ At(r, "writing") /\ request' = [request EXCEPT ![r] = Done] /\ Done.pc = "done"
      /\ UNCHANGED <<final, content, overlapped, sets, files, subject, dirs>>
  BY DEF IInv, Abort, Done, Idle
<1>2. /\ \A q \in Requests : q # r => request'[q] = request[q]
      /\ request'[r].pc = "done"
  BY <1>1 DEF Types
<1>3. /\ \A q \in Requests : \A t, m : UnderWayOn(q, t, m)' => UnderWayOn(q, t, m)
      /\ \A t, m : Awaits(t, m) => Awaits(t, m)'
      /\ \A q \in Requests : request'[q].pc \in {"renamed", "recorded"} =>
           final'[request'[q].set][request'[q].name] \in Requests
  BY <1>1, <1>2 DEF UnderWayOn, Awaits, At, SInv, RecordedIsThere
<1> QED BY <1>1, <1>3, RegistryAlonePreservesSInv

\* The file that takes the place of a labelled one is about to be recorded.
LEMMA RenamePreservesSInv ==
  ASSUME IInv, SInv, NEW r \in Requests, Rename(r)
  PROVE  SInv'
<1>0. PICK s \in Sets, n \in Names : request[r].set = s /\ request[r].name = n
  BY DEF IInv, Rename, WritesSomewhere, At
<1>1. /\ Types /\ At(r, "writing") /\ Done.pc = "done"
      /\ UNCHANGED <<content, overlapped, sets, files, subject, dirs>>
  BY DEF IInv, Rename, Done, Idle
<1>2. CASE part[s][n] = None
  <2>1. request' = [request EXCEPT ![r] = Done] /\ UNCHANGED final
    BY <1>0, <1>2 DEF Rename
  <2>2. /\ \A q \in Requests : q # r => request'[q] = request[q]
        /\ request'[r].pc = "done"
    BY <1>1, <2>1 DEF Types
  <2>3. /\ \A q \in Requests : \A t, m : UnderWayOn(q, t, m)' => UnderWayOn(q, t, m)
        /\ \A t, m : Awaits(t, m) => Awaits(t, m)'
        /\ \A q \in Requests : request'[q].pc \in {"renamed", "recorded"} =>
             final'[request'[q].set][request'[q].name] \in Requests
    BY <1>1, <2>1, <2>2 DEF UnderWayOn, Awaits, At, SInv, RecordedIsThere
  <2> QED BY <1>1, <2>1, <2>3, RegistryAlonePreservesSInv
<1>3. CASE part[s][n] # None
  <2>1. PICK i \in Requests : part[s][n] = i
    BY <1>1, <1>3 DEF Types, Inode
  <2>2. /\ final' = [final EXCEPT ![s][n] = i]
        /\ request' = [request EXCEPT ![r] = [request[r] EXCEPT !.pc = "renamed"]]
    BY <1>0, <1>3, <2>1 DEF Rename
  <2>3. \A t \in Sets, m \in Names : final'[t][m] = IF t = s /\ m = n THEN i ELSE final[t][m]
    BY <1>1, <2>2 DEF Types
  <2>4. /\ \A q \in Requests : q # r => request'[q] = request[q]
        /\ request'[r].pc = "renamed" /\ request'[r].set = s /\ request'[r].name = n
    BY <1>0, <1>1, <2>2 DEF Types, Request
  <2>5. UnderWayOn(r, s, n)
    BY <1>0, <1>1 DEF UnderWayOn, At
  <2>6. /\ \A q \in Requests : \A t, m : UnderWayOn(q, t, m)' => UnderWayOn(q, t, m)
        /\ Awaits(s, n)'
        /\ \A t, m : Awaits(t, m) => Awaits(t, m)'
    <3>1. ASSUME NEW q \in Requests, NEW t, NEW m, UnderWayOn(q, t, m)' PROVE UnderWayOn(q, t, m)
      BY <2>4, <2>5, <3>1 DEF UnderWayOn
    <3>2. Awaits(s, n)'
      BY <2>4 DEF Awaits, At
    <3>3. ASSUME NEW t, NEW m, Awaits(t, m) PROVE Awaits(t, m)'
      <4>1. PICK q \in Requests : At(q, "renamed") /\ request[q].set = t /\ request[q].name = m
        BY <3>3 DEF Awaits
      <4>2. q # r
        BY <1>1, <4>1 DEF At
      <4> QED BY <2>4, <4>1, <4>2 DEF Awaits, At
    <3> QED BY <3>1, <3>2, <3>3
  <2>7. ASSUME NEW q \in Requests, request'[q].pc \in {"renamed", "recorded"}
        PROVE  final'[request'[q].set][request'[q].name] \in Requests
    <3>1. CASE q = r
      BY <1>1, <2>3, <2>4, <3>1
    <3>2. CASE q # r
      <4>1. /\ request[q].set \in Sets /\ request[q].name \in Names
            /\ final[request[q].set][request[q].name] \in Requests
        BY <2>4, <2>7, <3>2 DEF IInv, WritesSomewhere, SInv, RecordedIsThere
      <4> QED BY <2>3, <2>4, <3>2, <4>1
    <3> QED BY <3>1, <3>2
  <2>8. \A t \in Sets, m \in Names : final[t][m] \in Requests =>
          content'[final'[t][m]] = content[final[t][m]] \/ ~Untouched(t, m) \/ Awaits(t, m)'
    <3>1. ASSUME NEW t \in Sets, NEW m \in Names, ~(t = s /\ m = n)
          PROVE  content'[final'[t][m]] = content[final[t][m]]
      BY <1>1, <2>3, <3>1
    <3> QED BY <2>6, <3>1
  <2> QED BY <1>1, <2>3, <2>6, <2>7, <2>8, RegistryAlonePreservesSInv
<1> QED BY <1>2, <1>3

\* An upload starts: the set has room for its file, and no other upload is under way in it
\* unless that is an overlap.  A set may lose its record.
LEMMA OpenPreservesSInv ==
  ASSUME IInv, SInv, NEW r \in Requests, NEW s \in Sets, NEW n \in Names,
         NEW label \in Labels \cup {None}, NEW key \in Keys \cup {None},
         At(r, "idle"), Open(r, s, n, label, key), UNCHANGED final,
         RegistryTypes', HasRoom(s, n)',
         \A t \in Sets : (files'[t] = files[t] /\ subject'[t] = subject[t]) \/ DOMAIN files'[t] = {}
  PROVE  SInv'
<1>1. Types /\ None \notin Requests
  BY NoneAssumption DEF IInv, Types
<1>2. PICK i \in Requests : i = IF part[s][n] = None THEN r ELSE part[s][n]
  BY <1>1 DEF Types, Inode
<1> DEFINE new == [pc |-> "writing", set |-> s, name |-> n, label |-> label, key |-> key,
                   inode |-> i, chunk |-> 0]
<1>3. /\ content' = [content EXCEPT ![i] = Blank]
      /\ request' = [request EXCEPT ![r] = new]
      /\ overlapped' = overlapped \cup {<<s, n, request[q].name>> : q \in UnderWay(s)}
  BY <1>2 DEF Open
<1>4. /\ \A j \in Requests : j # i => content'[j] = content[j]
      /\ request'[r].pc = "writing" /\ request'[r].set = s /\ request'[r].name = n
      /\ \A q \in Requests : q # r => request'[q] = request[q]
  BY <1>1, <1>3 DEF Types
<1> HIDE DEF new
<1>5. \A t \in Sets, m \in Names : final[t][m] # i
  BY <1>2, OpenedIsNobodysFile
<1>6. \A q \in Requests : \A t, m : UnderWayOn(q, t, m)' <=> IF q = r THEN t = s /\ m = n ELSE UnderWayOn(q, t, m)
  BY <1>4 DEF UnderWayOn
<1>7. RecordedIsThere'
  <2>1. ASSUME NEW t \in Sets, NEW m \in DOMAIN files'[t] PROVE final'[t][m] \in Requests
    <3>1. files'[t] = files[t]
      BY <2>1
    <3> QED BY <2>1, <3>1 DEF SInv, RecordedIsThere
  <2>2. ASSUME NEW q \in Requests, request'[q].pc \in {"renamed", "recorded"}
        PROVE  final'[request'[q].set][request'[q].name] \in Requests
    <3>1. request'[q] = request[q]
      BY <1>4, <2>2
    <3> QED BY <2>2, <3>1 DEF SInv, RecordedIsThere
  <2> QED BY <2>1, <2>2 DEF RecordedIsThere
<1>8. LabelsAreDistinct'
  <2> SUFFICES ASSUME NEW t \in Sets, NEW m \in DOMAIN files'[t], files'[t][m] # None,
                      NEW x \in DOMAIN files'[t] \ {m}
               PROVE  files'[t][x] # files'[t][m]
    BY DEF LabelsAreDistinct
  <2>1. files'[t] = files[t]
    OBVIOUS
  <2> QED BY <2>1 DEF SInv, LabelsAreDistinct
<1>9. LabelsFitTheirFiles'
  <2> SUFFICES ASSUME NEW t \in Sets, NEW m \in DOMAIN files'[t], files'[t][m] # None,
                      Untouched(t, m)', ~Awaits(t, m)'
               PROVE  subject'[t][m] = content'[final'[t][m]]
    BY DEF LabelsFitTheirFiles
  <2>1. files'[t] = files[t] /\ subject'[t] = subject[t] /\ m \in Names
    BY DEF RegistryTypes
  <2>2. final[t][m] \in Requests /\ final[t][m] # i
    BY <1>5, <2>1 DEF SInv, RecordedIsThere
  <2>3. Untouched(t, m)
    BY <1>3 DEF Untouched
  <2>4. ~Awaits(t, m)
    <3> SUFFICES ASSUME NEW q \in Requests, At(q, "renamed"), request[q].set = t, request[q].name = m
                 PROVE  FALSE
      BY DEF Awaits
    <3>1. q # r
      BY DEF At
    <3> QED BY <1>4, <3>1 DEF Awaits, At
  <2>5. subject[t][m] = content[final[t][m]]
    BY <2>1, <2>3, <2>4 DEF SInv, LabelsFitTheirFiles
  <2> QED BY <1>4, <2>1, <2>2, <2>5
<1>10. QuietSetsHaveRoom'
  <2> SUFFICES ASSUME NEW t \in Sets, Quiet(t)'
               PROVE  /\ Cardinality(DOMAIN files'[t]) <= MaxFiles
                      /\ \A q \in Requests, m \in Names : UnderWayOn(q, t, m)' => HasRoom(t, m)'
                      /\ \A q, p \in Requests : \A m, x \in Names :
                           UnderWayOn(q, t, m)' /\ UnderWayOn(p, t, x)' => q = p
    BY DEF QuietSetsHaveRoom
  <2>1. Quiet(t)
    BY <1>3 DEF Quiet
  <2>2. t = s => \A q \in Requests, m \in Names : ~UnderWayOn(q, s, m)
    <3> SUFFICES ASSUME t = s, NEW q \in Requests, NEW m \in Names, UnderWayOn(q, s, m) PROVE FALSE
      OBVIOUS
    <3>1. q \in UnderWay(s) /\ request[q].name = m
      BY DEF UnderWay, UnderWayOn
    <3>2. <<s, n, m>> \in overlapped'
      BY <1>3, <3>1
    <3> QED BY <3>2 DEF Quiet
  <2>3. Cardinality(DOMAIN files'[t]) <= MaxFiles
    BY <2>1, NoFilesHaveRoom DEF SInv, QuietSetsHaveRoom
  <2>4. ASSUME NEW q \in Requests, NEW m \in Names, UnderWayOn(q, t, m)' PROVE HasRoom(t, m)'
    <3>1. CASE q = r
      BY <1>6, <2>4, <3>1
    <3>2. CASE q # r
      <4>1. UnderWayOn(q, t, m) /\ HasRoom(t, m)
        BY <1>6, <2>1, <2>4, <3>2 DEF SInv, QuietSetsHaveRoom
      <4> QED BY <4>1, NoFilesHaveRoom DEF HasRoom
    <3> QED BY <3>1, <3>2
  <2>5. ASSUME NEW q \in Requests, NEW p \in Requests, NEW m \in Names, NEW x \in Names,
               UnderWayOn(q, t, m)', UnderWayOn(p, t, x)'
        PROVE  q = p
    <3>1. CASE t = s
      BY <1>6, <2>2, <2>5, <3>1
    <3>2. CASE t # s
      BY <1>6, <2>1, <2>5, <3>2 DEF SInv, QuietSetsHaveRoom
    <3> QED BY <3>1, <3>2
  <2> QED BY <2>3, <2>4, <2>5
<1> QED BY <1>7, <1>8, <1>9, <1>10 DEF SInv

LEMMA PostPreservesSInv ==
  ASSUME IInv, SInv, NEW r \in Requests, NEW s \in Sets, NEW n \in Names,
         NEW label \in Labels \cup {None}, NEW key \in Keys \cup {None},
         PostNew(r, s, n, label, key) \/ PostInto(r, s, n, label, key)
  PROVE  SInv'
<1>1. At(r, "idle") /\ Open(r, s, n, label, key) /\ UNCHANGED final
  BY DEF PostNew, PostInto
<1>2. CASE PostNew(r, s, n, label, key)
  <2>1. /\ s \notin dirs /\ dirs' = dirs \cup {s}
        /\ sets' = Youngest(Append(sets, s), MaxSets)
        /\ files' = [t \in Sets |-> IF t \in Range(sets') THEN files[t] ELSE <<>>]
        /\ subject' = [t \in Sets |-> IF t \in Range(sets') THEN subject[t] ELSE [x \in Names |-> Blank]]
    BY <1>2 DEF PostNew
  <2>2. sets' \in Seq(Sets) /\ Range(sets') \subseteq dirs'
    BY <2>1, YoungestAreMembers DEF SInv, RegistryTypes
  <2>3. \A t \in Sets : (files'[t] = files[t] /\ subject'[t] = subject[t]) \/ DOMAIN files'[t] = {}
    BY <2>1
  <2>4. RegistryTypes'
    <3>1. \A t \in Sets : DOMAIN subject'[t] = Names /\ (t \notin Range(sets') => DOMAIN files'[t] = {})
      BY <2>1 DEF SInv, RegistryTypes
    <3>2. \A t \in Sets : DOMAIN files'[t] \subseteq Names /\ IsFiniteSet(DOMAIN files'[t])
      BY <2>3, NoFilesHaveRoom DEF SInv, RegistryTypes
    <3>3. DOMAIN files' = Sets /\ DOMAIN subject' = Sets
      BY <2>1
    <3> QED BY <2>2, <3>1, <3>2, <3>3 DEF RegistryTypes
  <2>5. DOMAIN files'[s] = {}
    BY <2>1, <2>3 DEF SInv, RegistryTypes
  <2>6. HasRoom(s, n)'
    BY <2>5, NoFilesHaveRoom DEF HasRoom
  <2> QED BY <1>1, <2>3, <2>4, <2>6, OpenPreservesSInv
<1>3. CASE PostInto(r, s, n, label, key)
  <2>1. UNCHANGED <<sets, files, dirs, subject>> /\ HasRoom(s, n)
    BY <1>3 DEF PostInto
  <2>2. RegistryTypes' /\ HasRoom(s, n)'
    BY <2>1 DEF SInv, RegistryTypes, HasRoom
  <2> QED BY <1>1, <2>1, <2>2, OpenPreservesSInv
<1> QED BY <1>2, <1>3

\* The record of a file starts without a label, and without an overlap there was room for it.
LEMMA RecordFilePreservesSInv ==
  ASSUME IInv, SInv, NEW r \in Requests, RecordFile(r)
  PROVE  SInv'
<1> DEFINE s == request[r].set
           n == request[r].name
<1>1. /\ Types /\ s \in Sets /\ n \in Names /\ At(r, "renamed") /\ Done.pc = "done"
      /\ final[s][n] \in Requests /\ UnderWayOn(r, s, n)
      /\ UNCHANGED <<sets, dirs, part, final, content, overlapped>>
  BY DEF IInv, SInv, RecordedIsThere, RecordFile, WritesSomewhere, At, Done, Idle, UnderWayOn, disk
<1>2. /\ \A q \in Requests : q # r => request'[q] = request[q]
      /\ \/ request'[r].pc = "done"
         \/ request'[r].pc = "recorded" /\ request'[r].set = s /\ request'[r].name = n
  <2>1. \/ request' = [request EXCEPT ![r] = Done]
        \/ request' = [request EXCEPT ![r] = [request[r] EXCEPT !.pc = "recorded"]]
    BY DEF RecordFile, Respond
  <2>2. [request[r] EXCEPT !.pc = "recorded"].pc = "recorded"
    BY <1>1 DEF Types, Request
  <2> QED BY <1>1, <2>1, <2>2 DEF Types, Request
<1> HIDE DEF s, n
<1>3. \A q \in Requests : \A t, m : UnderWayOn(q, t, m)' => UnderWayOn(q, t, m)
  BY <1>1, <1>2 DEF UnderWayOn
<1>4. ASSUME NEW t, NEW m, Awaits(t, m), ~(t = s /\ m = n) PROVE Awaits(t, m)'
  <2>1. PICK q \in Requests : At(q, "renamed") /\ request[q].set = t /\ request[q].name = m
    BY <1>4 DEF Awaits
  <2>2. q # r
    BY <1>4, <2>1 DEF s, n
  <2> QED BY <1>2, <2>1, <2>2 DEF Awaits, At
<1>5. ASSUME NEW q \in Requests, request'[q].pc \in {"renamed", "recorded"}
      PROVE  final'[request'[q].set][request'[q].name] \in Requests
  <2>1. CASE q = r
    BY <1>1, <1>2, <1>5, <2>1
  <2>2. CASE q # r
    BY <1>1, <1>2, <1>5, <2>2 DEF SInv, RecordedIsThere
  <2> QED BY <2>1, <2>2
<1>6. CASE s \notin Range(sets)
  <2>1. UNCHANGED <<files, subject>> /\ DOMAIN files[s] = {}
    BY <1>1, <1>6 DEF RecordFile, SInv, RegistryTypes, s
  <2>2. \A t \in Sets : \A m \in DOMAIN files[t] : Awaits(t, m) => Awaits(t, m)'
    BY <1>4, <2>1
  <2> QED BY <1>1, <1>3, <1>5, <2>1, <2>2, RegistryAlonePreservesSInv
<1>7. CASE s \in Range(sets)
  <2>1. /\ files' = [files EXCEPT ![s] = Recorded(s, n)]
        /\ subject' = [subject EXCEPT ![s] = [subject[s] EXCEPT ![n] = Blank]]
    BY <1>7 DEF RecordFile, s, n
  <2>2. /\ DOMAIN files' = Sets /\ DOMAIN subject' = Sets
        /\ \A t \in Sets : t # s => files'[t] = files[t] /\ subject'[t] = subject[t]
        /\ DOMAIN files'[s] = DOMAIN files[s] \cup {n} /\ files'[s][n] = None
        /\ \A x \in DOMAIN files[s] : x # n => files'[s][x] = files[s][x]
        /\ DOMAIN subject'[s] = Names /\ \A x \in Names : x # n => subject'[s][x] = subject[s][x]
    BY <1>1, <2>1 DEF SInv, RegistryTypes, Recorded
  <2>3. /\ IsFiniteSet(DOMAIN files'[s])
        /\ Cardinality(DOMAIN files'[s]) =
             IF n \in DOMAIN files[s] THEN Cardinality(DOMAIN files[s]) ELSE Cardinality(DOMAIN files[s]) + 1
        /\ Cardinality(DOMAIN files[s]) \in Nat
    BY <1>1, <2>2, FS_AddElement, FS_CardinalityType DEF SInv, RegistryTypes
  <2>4. RegistryTypes'
    <3>1. ASSUME NEW t \in Sets
          PROVE  /\ DOMAIN files'[t] \subseteq Names /\ IsFiniteSet(DOMAIN files'[t])
                 /\ DOMAIN subject'[t] = Names
                 /\ t \notin Range(sets) => DOMAIN files'[t] = {}
      <4>1. CASE t = s
        BY <1>1, <1>7, <2>2, <2>3, <4>1 DEF SInv, RegistryTypes
      <4>2. CASE t # s
        BY <2>2, <4>2 DEF SInv, RegistryTypes
      <4> QED BY <4>1, <4>2
    <3> QED BY <1>1, <2>2, <3>1 DEF SInv, RegistryTypes
  <2>5. RecordedIsThere'
    <3>1. ASSUME NEW t \in Sets, NEW m \in DOMAIN files'[t] PROVE final'[t][m] \in Requests
      <4>1. m \in DOMAIN files[t] \/ (t = s /\ m = n)
        BY <2>2, <3>1
      <4> QED BY <1>1, <4>1 DEF SInv, RecordedIsThere
    <3> QED BY <1>5, <3>1 DEF RecordedIsThere
  <2>6. ASSUME NEW t \in Sets, NEW m \in DOMAIN files'[t], files'[t][m] # None
        PROVE  m \in DOMAIN files[t] /\ files'[t][m] = files[t][m] /\ ~(t = s /\ m = n)
    BY <2>2, <2>6
  <2>7. LabelsAreDistinct'
    <3> SUFFICES ASSUME NEW t \in Sets, NEW m \in DOMAIN files'[t], files'[t][m] # None,
                        NEW x \in DOMAIN files'[t] \ {m}, files'[t][x] = files'[t][m]
                 PROVE  FALSE
      BY DEF LabelsAreDistinct
    <3>1. /\ m \in DOMAIN files[t] /\ x \in DOMAIN files[t]
          /\ files'[t][m] = files[t][m] /\ files'[t][x] = files[t][x]
      BY <2>6
    <3> QED BY <3>1 DEF SInv, LabelsAreDistinct
  <2>8. LabelsFitTheirFiles'
    <3> SUFFICES ASSUME NEW t \in Sets, NEW m \in DOMAIN files'[t], files'[t][m] # None
                 PROVE  subject'[t][m] = content'[final'[t][m]] \/ ~Untouched(t, m)' \/ Awaits(t, m)'
      BY DEF LabelsFitTheirFiles
    <3>1. m \in DOMAIN files[t] /\ files[t][m] # None /\ ~(t = s /\ m = n) /\ m \in Names
      BY <2>6 DEF SInv, RegistryTypes
    <3>2. subject'[t][m] = subject[t][m] /\ (Untouched(t, m)' <=> Untouched(t, m))
      BY <1>1, <2>2, <3>1 DEF Untouched
    <3>3. subject[t][m] = content[final[t][m]] \/ ~Untouched(t, m) \/ Awaits(t, m)
      BY <3>1 DEF SInv, LabelsFitTheirFiles
    <3> QED BY <1>1, <1>4, <3>1, <3>2, <3>3
  <2>9. QuietSetsHaveRoom'
    <3> SUFFICES ASSUME NEW t \in Sets, Quiet(t)
                 PROVE  /\ Cardinality(DOMAIN files'[t]) <= MaxFiles
                        /\ \A q \in Requests, m \in Names : UnderWayOn(q, t, m) => HasRoom(t, m)'
                        /\ \A q, p \in Requests : \A m, x \in Names :
                             UnderWayOn(q, t, m) /\ UnderWayOn(p, t, x) => q = p
      BY <1>1, <1>3 DEF QuietSetsHaveRoom, Quiet
    <3>1. /\ Cardinality(DOMAIN files[t]) <= MaxFiles
          /\ \A q \in Requests, m \in Names : UnderWayOn(q, t, m) => HasRoom(t, m)
          /\ \A q, p \in Requests : \A m, x \in Names :
               UnderWayOn(q, t, m) /\ UnderWayOn(p, t, x) => q = p
      BY DEF SInv, QuietSetsHaveRoom
    <3>2. CASE t # s
      BY <2>2, <3>1, <3>2 DEF HasRoom
    <3>3. CASE t = s
      <4>1. n \in DOMAIN files[s] \/ Cardinality(DOMAIN files[s]) < MaxFiles
        BY <1>1, <3>1, <3>3 DEF HasRoom
      <4>2. Cardinality(DOMAIN files'[s]) <= MaxFiles
        BY <2>3, <3>1, <3>3, <4>1, BoundAssumption
      <4>3. ASSUME NEW q \in Requests, NEW m \in Names, UnderWayOn(q, t, m) PROVE HasRoom(t, m)'
        <5>1. q = r
          BY <1>1, <3>1, <3>3, <4>3
        <5>2. m = n
          BY <1>1, <4>3, <5>1 DEF UnderWayOn
        <5> QED BY <2>2, <3>3, <5>2 DEF HasRoom
      <4> QED BY <3>1, <3>3, <4>2, <4>3
    <3> QED BY <3>2, <3>3
  <2> QED BY <2>4, <2>5, <2>7, <2>8, <2>9 DEF SInv
<1> QED BY <1>6, <1>7

\* A request that records nothing more, and opens nothing.
Concludes(q) == request'[q] = request[q] \/ (request[q].pc # "renamed" /\ request'[q].pc \in {"idle", "done"})

LEMMA ConcludesKeeps ==
  ASSUME SInv, UNCHANGED final, \A q \in Requests : Concludes(q)
  PROVE  /\ \A q \in Requests : \A t, m : UnderWayOn(q, t, m)' => UnderWayOn(q, t, m)
         /\ \A t, m : Awaits(t, m) => Awaits(t, m)'
         /\ \A q \in Requests : request'[q].pc \in {"renamed", "recorded"} =>
              final'[request'[q].set][request'[q].name] \in Requests
<1>1. \A q \in Requests : \A t, m : UnderWayOn(q, t, m)' => UnderWayOn(q, t, m)
  BY DEF Concludes, UnderWayOn
<1>2. ASSUME NEW t, NEW m, Awaits(t, m) PROVE Awaits(t, m)'
  <2>1. PICK q \in Requests : At(q, "renamed") /\ request[q].set = t /\ request[q].name = m
    BY <1>2 DEF Awaits
  <2> QED BY <2>1 DEF Awaits, At, Concludes
<1>3. ASSUME NEW q \in Requests, request'[q].pc \in {"renamed", "recorded"}
      PROVE  final'[request'[q].set][request'[q].name] \in Requests
  <2>1. request'[q] = request[q]
    BY <1>3 DEF Concludes
  <2> QED BY <1>3, <2>1 DEF SInv, RecordedIsThere
<1> QED BY <1>1, <1>2, <1>3

LEMMA ConcludesPreservesSInv ==
  ASSUME SInv, UNCHANGED <<sets, files, subject, disk, overlapped>>, \A q \in Requests : Concludes(q)
  PROVE  SInv'
<1>1. UNCHANGED <<dirs, final, content>>
  BY DEF disk
<1>2. /\ \A q \in Requests : \A t, m : UnderWayOn(q, t, m)' => UnderWayOn(q, t, m)
      /\ \A t, m : Awaits(t, m) => Awaits(t, m)'
      /\ \A q \in Requests : request'[q].pc \in {"renamed", "recorded"} =>
           final'[request'[q].set][request'[q].name] \in Requests
  BY <1>1, ConcludesKeeps
<1> QED BY <1>1, <1>2, RegistryAlonePreservesSInv

\* A label that is free goes to the file that is there.
LEMMA SetLabelPreservesSInv ==
  ASSUME SInv, NEW s \in Sets, NEW n \in Names, NEW label \in Labels \cup {None},
         IsFree(s, n, label), SetLabel(s, n, label),
         UNCHANGED <<sets, disk, overlapped>>, \A q \in Requests : Concludes(q)
  PROVE  SInv'
<1>1. UNCHANGED <<dirs, final, content>>
  BY DEF disk
<1>2. /\ \A q \in Requests : \A t, m : UnderWayOn(q, t, m)' => UnderWayOn(q, t, m)
      /\ \A t, m : Awaits(t, m) => Awaits(t, m)'
      /\ \A q \in Requests : request'[q].pc \in {"renamed", "recorded"} =>
           final'[request'[q].set][request'[q].name] \in Requests
  BY <1>1, ConcludesKeeps
<1>3. /\ n \in DOMAIN files[s] /\ \A x \in DOMAIN files[s] \ {n} : files[s][x] # label
      /\ files' = [files EXCEPT ![s] = [files[s] EXCEPT ![n] = label]]
      /\ subject' = [subject EXCEPT ![s] = [subject[s] EXCEPT ![n] = content[final[s][n]]]]
  BY DEF IsFree, SetLabel
<1>4. /\ DOMAIN files' = Sets /\ DOMAIN subject' = Sets
      /\ \A t \in Sets : DOMAIN files'[t] = DOMAIN files[t] /\ DOMAIN subject'[t] = DOMAIN subject[t]
      /\ files'[s][n] = label /\ subject'[s][n] = content[final[s][n]]
      /\ \A t \in Sets : \A x \in DOMAIN files[t] : ~(t = s /\ x = n) =>
           files'[t][x] = files[t][x] /\ subject'[t][x] = subject[t][x]
  BY <1>3 DEF SInv, RegistryTypes
<1>5. RegistryTypes'
  BY <1>1, <1>4 DEF SInv, RegistryTypes
<1>6. RecordedIsThere'
  BY <1>1, <1>2, <1>4 DEF SInv, RecordedIsThere
<1>7. LabelsAreDistinct'
  <2> SUFFICES ASSUME NEW t \in Sets, NEW m \in DOMAIN files[t], files'[t][m] # None,
                      NEW x \in DOMAIN files[t] \ {m}
               PROVE  files'[t][x] # files'[t][m]
    BY <1>4 DEF LabelsAreDistinct
  <2>1. CASE t = s /\ (m = n \/ x = n)
    BY <1>3, <1>4, <2>1
  <2>2. CASE ~(t = s /\ (m = n \/ x = n))
    BY <1>4, <2>2 DEF SInv, LabelsAreDistinct
  <2> QED BY <2>1, <2>2
<1>8. LabelsFitTheirFiles'
  <2> SUFFICES ASSUME NEW t \in Sets, NEW m \in DOMAIN files[t], files'[t][m] # None
               PROVE  subject'[t][m] = content'[final'[t][m]] \/ ~Untouched(t, m)' \/ Awaits(t, m)'
    BY <1>4 DEF LabelsFitTheirFiles
  <2>1. CASE t = s /\ m = n
    BY <1>1, <1>4, <2>1
  <2>2. CASE ~(t = s /\ m = n)
    <3>1. files[t][m] # None /\ subject'[t][m] = subject[t][m] /\ (Untouched(t, m)' <=> Untouched(t, m))
      BY <1>4, <2>2 DEF Untouched
    <3>2. subject[t][m] = content[final[t][m]] \/ ~Untouched(t, m) \/ Awaits(t, m)
      BY <3>1 DEF SInv, LabelsFitTheirFiles
    <3> QED BY <1>1, <1>2, <3>1, <3>2
  <2> QED BY <2>1, <2>2
<1>9. \A t \in Sets : /\ Quiet(t)' <=> Quiet(t)
                      /\ \A m \in Names : HasRoom(t, m)' <=> HasRoom(t, m)
  BY <1>4 DEF Quiet, HasRoom
<1>10. QuietSetsHaveRoom'
  BY <1>2, <1>4, <1>9 DEF SInv, QuietSetsHaveRoom
<1> QED BY <1>5, <1>6, <1>7, <1>8, <1>10 DEF SInv

LEMMA LabelInlinePreservesSInv ==
  ASSUME IInv, SInv, NEW r \in Requests, LabelInline(r)
  PROVE  SInv'
<1> DEFINE s == request[r].set
           n == request[r].name
           label == request[r].label
<1>1. /\ Types /\ s \in Sets /\ n \in Names /\ label \in Labels \cup {None} /\ At(r, "recorded")
      /\ request' = [request EXCEPT ![r] = Done] /\ Done.pc = "done"
      /\ UNCHANGED <<sets, disk, overlapped>>
  BY DEF IInv, LabelInline, Respond, WritesSomewhere, Types, Request, At, Done, Idle
<1>2. \A q \in Requests : Concludes(q)
  BY <1>1 DEF Concludes, At, Types
<1>3. CASE IsFree(s, n, label)
  <2>1. SetLabel(s, n, label)
    BY <1>3 DEF LabelInline
  <2> HIDE DEF s, n, label
  <2> QED BY <1>1, <1>2, <1>3, <2>1, SetLabelPreservesSInv
<1>4. CASE ~IsFree(s, n, label)
  <2>1. UNCHANGED <<files, subject>>
    BY <1>4 DEF LabelInline
  <2> QED BY <1>1, <1>2, <2>1, ConcludesPreservesSInv
<1> QED BY <1>3, <1>4

\* A restarted server knows no set.
LEMMA RestartPreservesSInv ==
  ASSUME SInv, Restart
  PROVE  SInv'
<1>1. \A s \in Sets : files'[s] = <<>> /\ DOMAIN files'[s] = {} /\ DOMAIN subject'[s] = Names
  BY DEF Restart
<1>2. sets' \in Seq(Sets) /\ Range(sets') = {} /\ DOMAIN files' = Sets /\ DOMAIN subject' = Sets
  BY DEF Restart, Range
<1>3. \A r \in Requests : request'[r].pc \in {"idle", "done"}
  BY DEF Restart, Idle, Done
<1>4. RegistryTypes'
  BY <1>1, <1>2, NoFilesHaveRoom DEF RegistryTypes
<1>5. QuietSetsHaveRoom'
  BY <1>1, <1>3, NoFilesHaveRoom DEF QuietSetsHaveRoom, UnderWayOn
<1> QED
  BY <1>1, <1>3, <1>4, <1>5 DEF SInv, RecordedIsThere, LabelsAreDistinct, LabelsFitTheirFiles

-----------------------------------------------------------------------------
(* Theorems *)

\* The inductive invariant of the upload directories.
THEOREM InductiveInvariant == Spec => []IInv
<1>1. Init => IInv
  BY InitIInv
<1>2. IInv /\ [Next]_vars => IInv'
  <2> SUFFICES ASSUME IInv, [Next]_vars PROVE IInv'
    OBVIOUS
  <2>1. ASSUME NEW r \in Requests, NEW s \in Sets, NEW n \in Names,
               NEW label \in Labels \cup {None}, NEW key \in Keys \cup {None},
               PostNew(r, s, n, label, key) \/ PostInto(r, s, n, label, key)
        PROVE  IInv'
    <3>1. At(r, "idle") /\ Open(r, s, n, label, key) /\ UNCHANGED final
      BY <2>1 DEF PostNew, PostInto
    <3> QED BY <3>1, OpenPreservesIInv
  <2>2. ASSUME NEW r \in Requests, WriteChunk(r) PROVE IInv'
    BY <2>2, WriteChunkPreservesIInv
  <2>3. ASSUME NEW r \in Requests, Abort(r) PROVE IInv'
    BY <2>3, AbortPreservesIInv
  <2>4. ASSUME NEW r \in Requests, Rename(r) PROVE IInv'
    BY <2>4, RenamePreservesIInv
  <2>5. CASE \/ \E r \in Requests : PostAgain(r) \/ RecordFile(r) \/ LabelInline(r)
             \/ \E s \in Sets, n \in Names, label \in Labels : PostLabel(s, n, label)
             \/ Restart
    BY <2>5, RegistryPreservesIInv
  <2>6. CASE UNCHANGED vars
    <3>1. UNCHANGED <<part, final, content, overlapped, request>>
      BY <2>6 DEF vars, disk
    <3>2. request' \in [Requests -> Request] /\ \A q \in Requests : Recedes(q)
      BY <3>1 DEF IInv, Types, Recedes
    <3> QED BY <3>1, <3>2, DiskAlonePreservesIInv
  <2> QED
    BY <2>1, <2>2, <2>3, <2>4, <2>5, <2>6 DEF Next
<1> QED
  BY <1>1, <1>2, PTL DEF Spec

\* WholeFileOrNone, for any number of uploads at a time: a name shows one client's whole
\* file, unless two uploads of that name overlapped.
THEOREM NobodySeesHalfAFile == Spec => []WholeFileOrNone
<1>1. IInv => WholeFileOrNone
  BY DEF IInv
<1> QED
  BY <1>1, InductiveInvariant, PTL

\* SetIsOneSource, for any number of sets, files and labels: a label stands for the file it
\* was given to and for no other, and a set outgrows its limit only through an overlap.
THEOREM LabelsStandForTheirFiles == Spec => []SetIsOneSource
<1>1. Init => SInv
  BY InitSInv
<1>2. IInv /\ SInv /\ [Next]_vars => SInv'
  <2> SUFFICES ASSUME IInv, SInv, [Next]_vars PROVE SInv'
    OBVIOUS
  <2>1. ASSUME NEW r \in Requests, PostAgain(r) PROVE SInv'
    <3>1. /\ UNCHANGED <<sets, files, subject, disk, overlapped>>
          /\ At(r, "idle") /\ request' = [request EXCEPT ![r] = Done] /\ Done.pc = "done"
      BY <2>1 DEF PostAgain, Done, Idle
    <3>2. \A q \in Requests : Concludes(q)
      BY <3>1 DEF Concludes, At, IInv, Types
    <3> QED BY <3>1, <3>2, ConcludesPreservesSInv
  <2>2. ASSUME NEW r \in Requests, NEW s \in Sets, NEW n \in Names,
               NEW label \in Labels \cup {None}, NEW key \in Keys \cup {None},
               PostNew(r, s, n, label, key) \/ PostInto(r, s, n, label, key)
        PROVE  SInv'
    BY <2>2, PostPreservesSInv
  <2>3. ASSUME NEW r \in Requests, WriteChunk(r) PROVE SInv'
    BY <2>3, WriteChunkPreservesSInv
  <2>4. ASSUME NEW r \in Requests, Abort(r) PROVE SInv'
    BY <2>4, AbortPreservesSInv
  <2>5. ASSUME NEW r \in Requests, Rename(r) PROVE SInv'
    BY <2>5, RenamePreservesSInv
  <2>6. ASSUME NEW r \in Requests, RecordFile(r) PROVE SInv'
    BY <2>6, RecordFilePreservesSInv
  <2>7. ASSUME NEW r \in Requests, LabelInline(r) PROVE SInv'
    BY <2>7, LabelInlinePreservesSInv
  <2>8. ASSUME NEW s \in Sets, NEW n \in Names, NEW label \in Labels, PostLabel(s, n, label)
        PROVE  SInv'
    <3>1. /\ IsFree(s, n, label) /\ SetLabel(s, n, label)
          /\ UNCHANGED <<sets, disk, overlapped, request>>
      BY <2>8 DEF PostLabel
    <3>2. \A q \in Requests : Concludes(q)
      BY <3>1 DEF Concludes
    <3> QED BY <3>1, <3>2, SetLabelPreservesSInv
  <2>9. CASE Restart
    BY <2>9, RestartPreservesSInv
  <2>10. CASE UNCHANGED vars
    <3>1. UNCHANGED <<sets, files, subject, disk, overlapped, request>>
      BY <2>10 DEF vars
    <3>2. \A q \in Requests : Concludes(q)
      BY <3>1 DEF Concludes
    <3> QED BY <3>1, <3>2, ConcludesPreservesSInv
  <2> QED
    BY <2>1, <2>2, <2>3, <2>4, <2>5, <2>6, <2>7, <2>8, <2>9, <2>10 DEF Next
<1>3. SInv => SetIsOneSource
  <2> SUFFICES ASSUME SInv, NEW s \in Range(sets) PROVE
        /\ \A n \in DOMAIN files[s] : files[s][n] # None =>
             /\ \A m \in DOMAIN files[s] \ {n} : files[s][m] # files[s][n]
             /\ subject[s][n] = content[final[s][n]] \/ ~Untouched(s, n) \/ Awaits(s, n)
        /\ Cardinality(DOMAIN files[s]) > MaxFiles => ~Quiet(s)
    BY DEF SetIsOneSource, Awaits, Quiet
  <2>1. s \in Sets
    BY DEF SInv, RegistryTypes, Range
  <2>2. Cardinality(DOMAIN files[s]) \in Nat /\ MaxFiles \in Nat
    BY <2>1, BoundAssumption, FS_CardinalityType DEF SInv, RegistryTypes
  <2> QED BY <2>1, <2>2 DEF SInv, LabelsAreDistinct, LabelsFitTheirFiles, QuietSetsHaveRoom
<1> QED
  BY <1>1, <1>2, <1>3, InductiveInvariant, PTL DEF Spec
=============================================================================
