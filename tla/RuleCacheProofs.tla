--------------------------- MODULE RuleCacheProofs ---------------------------
(***************************************************************************)
(* Proofs about RuleCache, for any processes, hooks and sizes.             *)
(*                                                                         *)
(* The inductive invariant follows an inode: it belongs to one key, that   *)
(* of the names and descriptors that reach it; what is written there is    *)
(* under that key; what is not yet written there is being written.         *)
(***************************************************************************)
EXTENDS RuleCache, TLAPS

\* An inode is reached for a key by a name of the key, or by the descriptor of
\* a call with it.
Belongs(i, k) ==
  \/ tmp[k] = i \/ final[k] = i
  \/ \E p \in Procs : fd[p] = i /\ Key(p) = k

Allocated ==
  \A i \in Inodes, k \in Keys : Belongs(i, k) => i <= made

Descriptors ==
  \A p \in Procs : fd[p] # None <=> pc[p] \in {"read", "write"}

OneKey ==
  \A i \in Inodes : \A k1, k2 \in Keys :
    Belongs(i, k1) /\ Belongs(i, k2) => k1 = k2

WrittenUnderKey ==
  \A i \in Inodes, k \in Keys, c \in Positions :
    Belongs(i, k) /\ content[i][c] # None => Signature[content[i][c]] = k

ReadUnderKey ==
  \A p \in Procs, c \in Positions :
    pc[p] = "read" /\ got[p][c] # None => Signature[got[p][c]] = Key(p)

\* TornOnlyByWriters, of every inode and not only the published ones.
Unwritten ==
  \A i \in Inodes, c \in Positions :
    i <= made /\ i \notin torn /\ content[i][c] = None =>
      \E p \in Procs : pc[p] = "write" /\ fd[p] = i /\ pos[p] < c

\* A store that has opened the temporary file finds it there, or renamed.
StoreNamed ==
  \A p \in Procs : pc[p] \in {"write", "rename"} =>
    tmp[Key(p)] # None \/ final[Key(p)] # None

IInv ==
  /\ TypeOK /\ Allocated /\ Descriptors /\ OneKey /\ WrittenUnderKey
  /\ ReadUnderKey /\ LoadsAreWhole /\ Unwritten /\ StoreNamed
  /\ RaisesOnlyWhenStored

-----------------------------------------------------------------------------
LEMMA InitEstablishes == Init => IInv
<1> SUFFICES ASSUME Init PROVE IInv
  OBVIOUS
<1> USE ChunksArePositive, BoundsAreNat, NoneIsNothing, SignatureIsAFunction
<1>1. TypeOK
  BY DEF Init, TypeOK, Blank, Idle, Inodes, Positions
<1>2. \A i \in Inodes, k \in Keys : ~ Belongs(i, k)
  BY DEF Init, Belongs, Inodes
<1>3. Allocated /\ OneKey /\ WrittenUnderKey
  BY <1>2 DEF Allocated, OneKey, WrittenUnderKey
<1>4. Descriptors /\ ReadUnderKey /\ StoreNamed
  BY DEF Init, Descriptors, ReadUnderKey, StoreNamed
<1>5. LoadsAreWhole /\ RaisesOnlyWhenStored
  BY DEF Init, LoadsAreWhole, RaisesOnlyWhenStored, Idle
<1>6. Unwritten
  BY DEF Init, Unwritten, Inodes
<1> QED BY <1>1, <1>3, <1>4, <1>5, <1>6 DEF IInv

-----------------------------------------------------------------------------
\* Steps that write no file and move no name: an inode is reached by no more
\* than before, and holds what it held.
LEMMA ReadersKeep ==
  ASSUME TypeOK, Allocated, OneKey, WrittenUnderKey, UNCHANGED fileVars,
         \A i \in Inodes, k \in Keys : Belongs(i, k)' => Belongs(i, k)
  PROVE  (Allocated /\ OneKey /\ WrittenUnderKey)'
<1>1. Allocated'
  BY DEF Allocated, fileVars
<1>2. OneKey'
  BY DEF OneKey
<1>3. WrittenUnderKey'
  BY DEF WrittenUnderKey, fileVars
<1> QED BY <1>1, <1>2, <1>3

LEMMA CallPreserves ==
  ASSUME NEW p \in Procs, IInv, Call(p) PROVE IInv'
<1> USE ChunksArePositive, BoundsAreNat, NoneIsNothing, SignatureIsAFunction
<1> USE DEF IInv
<1>1. TypeOK'
  BY DEF TypeOK, Call, Idle, fileVars
<1>2. fd[p] = None
  BY DEF Descriptors, Call
<1>3. \A q \in Procs : q # p => Key(q)' = Key(q)
  BY DEF Call, Key, TypeOK
<1>4. \A i \in Inodes, k \in Keys : Belongs(i, k)' => Belongs(i, k)
  <2> SUFFICES ASSUME NEW i \in Inodes, NEW k \in Keys, Belongs(i, k)'
               PROVE  Belongs(i, k)
    OBVIOUS
  <2>1. CASE \E q \in Procs : fd'[q] = i /\ Key(q)' = k
    <3>1. PICK q \in Procs : fd'[q] = i /\ Key(q)' = k
      BY <2>1
    <3>2. q # p
      BY <1>2, <3>1 DEF Call, Inodes
    <3> QED BY <1>3, <3>1, <3>2 DEF Belongs, Call
  <2>2. CASE tmp'[k] = i \/ final'[k] = i
    BY <2>2 DEF Belongs, Call, fileVars
  <2> QED BY <2>1, <2>2 DEF Belongs
<1>5. (Allocated /\ OneKey /\ WrittenUnderKey)'
  BY <1>4, ReadersKeep DEF Call
<1>6. Descriptors'
  BY DEF Descriptors, Call, TypeOK
<1>7. ReadUnderKey'
  BY <1>3 DEF ReadUnderKey, Call, TypeOK
<1>8. LoadsAreWhole'
  BY <1>3 DEF LoadsAreWhole, Call, TypeOK, Idle
<1>9. Unwritten'
  BY DEF Unwritten, Call, TypeOK, fileVars
<1>10. StoreNamed'
  BY <1>3 DEF StoreNamed, Call, TypeOK, fileVars
<1>11. RaisesOnlyWhenStored'
  BY <1>3 DEF RaisesOnlyWhenStored, Call, TypeOK, Idle, fileVars
<1> QED BY <1>1, <1>5, <1>6, <1>7, <1>8, <1>9, <1>10, <1>11

\* The steps of a load, a derivation and a failed rename.
Reads(p) ==
  NoFile(p) \/ OpenToRead(p) \/ ReadChunk(p) \/ Load(p) \/ Derive(p) \/ RenameFails(p)

LEMMA ReadsPreserve ==
  ASSUME NEW p \in Procs, IInv, Reads(p) PROVE IInv'
<1> USE ChunksArePositive, BoundsAreNat, NoneIsNothing, SignatureIsAFunction
<1> USE DEF IInv
<1>0. \A q \in Procs : Key(q) \in Keys
  BY DEF Key, TypeOK
<1>1. UNCHANGED <<parents, fileVars, boundVars>>
  BY DEF Reads, NoFile, OpenToRead, ReadChunk, Load, Derive, RenameFails
<1>2. \A q \in Procs : Key(q)' = Key(q)
  BY <1>1 DEF Key
<1>3. Load(p) /\ Complete(got[p]) =>
        /\ got[p] \in [Positions -> Hooks]
        /\ \A c \in Positions : got[p][c] \in Hooks /\ Signature[got[p][c]] = Key(p)
  BY DEF Complete, Load, ReadUnderKey, TypeOK
<1>4. TypeOK'
  <2>1. CASE NoFile(p) \/ Derive(p)
    BY <2>1 DEF TypeOK, NoFile, Derive, fileVars, boundVars
  <2>2. CASE OpenToRead(p)
    BY <1>0, <2>2 DEF TypeOK, OpenToRead, fileVars, boundVars, Blank
  <2>3. CASE ReadChunk(p)
    <3>1. pos'[p] \in Positions /\ pos' \in [Procs -> 0 .. Chunks]
      BY <2>3 DEF TypeOK, ReadChunk, Positions
    <3>2. fd[p] \in Inodes
      BY <2>3 DEF TypeOK, ReadChunk, Descriptors
    <3>3. content[fd[p]][pos'[p]] \in Hooks \cup {None}
      BY <3>1, <3>2 DEF TypeOK
    <3>4. got' \in [Procs -> [Positions -> Hooks \cup {None}]]
      BY <2>3, <3>1, <3>3 DEF TypeOK, ReadChunk
    <3> QED BY <2>3, <3>1, <3>4 DEF TypeOK, ReadChunk, fileVars, boundVars
  <2>4. CASE Load(p)
    <3>1. CASE outcome' = outcome
      BY <2>4, <3>1 DEF TypeOK, Load, fileVars, boundVars
    <3>2. CASE /\ Complete(got[p])
               /\ outcome' = [outcome EXCEPT ![p] = [kind |-> "hit", rules |-> got[p]]]
      <4>1. got[p] \in [Positions -> Hooks]
        BY <1>3, <2>4, <3>2
      <4>2. /\ pc' \in [Procs -> {"idle", "load", "read", "derive", "open", "write", "rename"}]
            /\ fd' = [fd EXCEPT ![p] = None]
            /\ UNCHANGED <<parents, pos, got, fileVars, boundVars>>
        BY <2>4 DEF Load, TypeOK
      <4> QED BY <3>2, <4>1, <4>2 DEF TypeOK, fileVars, boundVars
    <3> QED BY <2>4, <3>1, <3>2 DEF Load
  <2>5. CASE RenameFails(p)
    BY <2>5 DEF TypeOK, RenameFails, fileVars, boundVars
  <2> QED BY <2>1, <2>2, <2>3, <2>4, <2>5 DEF Reads
<1>5. \A i \in Inodes, k \in Keys : Belongs(i, k)' => Belongs(i, k)
  <2>1. CASE OpenToRead(p)
    BY <1>0, <1>1, <1>2, <2>1 DEF OpenToRead, Belongs, TypeOK, fileVars
  <2>2. CASE Load(p)
    BY <1>1, <1>2, <2>2 DEF Load, Belongs, TypeOK, fileVars, Inodes
  <2>3. CASE fd' = fd
    BY <1>1, <1>2, <2>3 DEF Belongs, fileVars
  <2> QED BY <2>1, <2>2, <2>3 DEF Reads, NoFile, ReadChunk, Derive, RenameFails
<1>6. (Allocated /\ OneKey /\ WrittenUnderKey)'
  BY <1>1, <1>5, ReadersKeep
<1>7. Descriptors'
  BY <1>0 DEF Descriptors, Reads, NoFile, OpenToRead, ReadChunk, Load, Derive,
              RenameFails, TypeOK
<1>8. ReadUnderKey'
  <2>1. CASE ReadChunk(p)
    <3>1. fd[p] \in Inodes /\ Belongs(fd[p], Key(p))
      BY <2>1 DEF ReadChunk, Descriptors, TypeOK, Belongs
    <3>2. pos'[p] \in Positions
      BY <2>1 DEF ReadChunk, TypeOK, Positions
    <3>3. content[fd[p]][pos'[p]] # None
            => Signature[content[fd[p]][pos'[p]]] = Key(p)
      BY <1>0, <3>1, <3>2 DEF WrittenUnderKey
    <3> QED BY <1>2, <2>1, <3>2, <3>3 DEF ReadUnderKey, ReadChunk, TypeOK
  <2>2. CASE OpenToRead(p)
    BY <1>2, <2>2 DEF ReadUnderKey, OpenToRead, TypeOK, Blank
  <2>3. CASE NoFile(p) \/ Load(p) \/ Derive(p) \/ RenameFails(p)
    BY <1>2, <2>3 DEF ReadUnderKey, NoFile, Load, Derive, RenameFails, TypeOK
  <2> QED BY <2>1, <2>2, <2>3 DEF Reads
<1>9. LoadsAreWhole'
  <2>1. CASE Load(p)
    <3>1. CASE outcome' = outcome
      BY <1>2, <3>1 DEF LoadsAreWhole
    <3>2. CASE /\ Complete(got[p])
               /\ outcome' = [outcome EXCEPT ![p] = [kind |-> "hit", rules |-> got[p]]]
      <4>1. \A c \in Positions : got[p][c] \in Hooks /\ Signature[got[p][c]] = Key(p)
        BY <1>3, <2>1, <3>2
      <4> QED BY <1>2, <3>2, <4>1 DEF LoadsAreWhole, TypeOK
    <3> QED BY <2>1, <3>1, <3>2 DEF Load
  <2>2. CASE RenameFails(p)
    BY <1>2, <2>2 DEF LoadsAreWhole, RenameFails, TypeOK
  <2>3. CASE outcome' = outcome
    BY <1>2, <2>3 DEF LoadsAreWhole
  <2> QED BY <2>1, <2>2, <2>3 DEF Reads, NoFile, OpenToRead, ReadChunk, Derive
<1>10. Unwritten'
  <2> SUFFICES ASSUME NEW q \in Procs, pc[q] = "write"
               PROVE  pc'[q] = "write" /\ fd'[q] = fd[q] /\ pos'[q] = pos[q]
    BY <1>1 DEF Unwritten, fileVars, boundVars
  <2> QED BY DEF Reads, NoFile, OpenToRead, ReadChunk, Load, Derive, RenameFails, TypeOK
<1>11. StoreNamed'
  BY <1>1, <1>2 DEF StoreNamed, Reads, NoFile, OpenToRead, ReadChunk, Load, Derive,
                    RenameFails, TypeOK, fileVars
<1>12. RaisesOnlyWhenStored'
  <2>1. CASE RenameFails(p)
    BY <1>1, <1>2, <2>1 DEF RaisesOnlyWhenStored, RenameFails, TypeOK, fileVars
  <2>2. CASE Load(p)
    BY <1>1, <1>2, <2>2 DEF RaisesOnlyWhenStored, Load, TypeOK, fileVars
  <2>3. CASE NoFile(p) \/ OpenToRead(p) \/ ReadChunk(p) \/ Derive(p)
    BY <1>1, <1>2, <2>3 DEF RaisesOnlyWhenStored, NoFile, OpenToRead, ReadChunk,
                            Derive, TypeOK, fileVars
  <2> QED BY <2>1, <2>2, <2>3 DEF Reads
<1> QED BY <1>4, <1>6, <1>7, <1>8, <1>9, <1>10, <1>11, <1>12

LEMMA OpenPreserves ==
  ASSUME NEW p \in Procs, IInv, OpenToWrite(p) PROVE IInv'
<1> USE ChunksArePositive, BoundsAreNat, NoneIsNothing, SignatureIsAFunction
<1> USE DEF IInv
<1> DEFINE i == IF tmp[Key(p)] = None THEN made + 1 ELSE tmp[Key(p)]
<1>1. Key(p) \in Keys /\ \A q \in Procs : Key(q)' = Key(q)
  BY DEF Key, TypeOK, OpenToWrite
<1>2. /\ i \in Inodes
      /\ tmp' = [tmp EXCEPT ![Key(p)] = i]
      /\ fd' = [fd EXCEPT ![p] = i]
      /\ content' = [content EXCEPT ![i] = Blank]
      /\ torn' = torn \ {fd'[p]}
      /\ made' = IF tmp[Key(p)] = None THEN made + 1 ELSE made
  BY DEF OpenToWrite
<1>3. torn' = torn \ {i}
  BY <1>2 DEF TypeOK
\* The inode is a new one, or the one the key already has.
<1>4. i <= made' /\ made <= made' /\ (i <= made => Belongs(i, Key(p)))
  BY <1>1 DEF OpenToWrite, TypeOK, Allocated, Belongs, Inodes
<1>5. /\ made' \in 0 .. MaxCalls
      /\ made' = made \/ (made' = made + 1 /\ i = made + 1)
  BY <1>1 DEF OpenToWrite, TypeOK, Allocated, Belongs, Inodes
<1> HIDE DEF i
<1>6. \A j \in Inodes, k \in Keys : Belongs(j, k)' => Belongs(j, k) \/ (j = i /\ k = Key(p))
  BY <1>1, <1>2 DEF Belongs, TypeOK, OpenToWrite
<1>7. \A k \in Keys : Belongs(i, k) => k = Key(p)
  BY <1>1, <1>2, <1>4 DEF Allocated, OneKey
<1>8. TypeOK'
  BY <1>1, <1>2, <1>5 DEF TypeOK, OpenToWrite, Blank
<1>9. Allocated'
  <2> SUFFICES ASSUME NEW j \in Inodes, NEW k \in Keys, Belongs(j, k)'
               PROVE  j <= made'
    BY DEF Allocated
  <2>1. CASE j = i
    BY <1>4, <2>1
  <2>2. CASE Belongs(j, k)
    BY <1>4, <1>8, <2>2 DEF Allocated, TypeOK, Inodes
  <2> QED BY <1>6, <2>1, <2>2
<1>10. OneKey'
  BY <1>6, <1>7 DEF OneKey
<1>11. WrittenUnderKey'
  BY <1>2, <1>6 DEF WrittenUnderKey, TypeOK, Blank
<1>12. Descriptors'
  BY <1>2 DEF Descriptors, OpenToWrite, TypeOK, Inodes
<1>13. ReadUnderKey'
  BY <1>1 DEF ReadUnderKey, OpenToWrite, TypeOK
<1>14. LoadsAreWhole'
  BY <1>1 DEF LoadsAreWhole, OpenToWrite
<1>15. Unwritten'
  <2> SUFFICES ASSUME NEW j \in Inodes, NEW c \in Positions,
                      j <= made', j \notin torn', content'[j][c] = None
               PROVE  \E q \in Procs : pc'[q] = "write" /\ fd'[q] = j /\ pos'[q] < c
    BY DEF Unwritten
  <2>1. CASE j = i
    <3>1. pc'[p] = "write" /\ fd'[p] = j /\ pos'[p] = 0
      BY <1>2, <2>1 DEF OpenToWrite, TypeOK
    <3> QED BY <3>1 DEF Positions
  <2>2. CASE j # i
    <3>1. j <= made /\ j \notin torn /\ content[j][c] = None
      BY <1>2, <1>3, <1>5, <2>2 DEF TypeOK, Inodes
    <3>2. PICK q \in Procs : pc[q] = "write" /\ fd[q] = j /\ pos[q] < c
      BY <3>1 DEF Unwritten
    <3>3. q # p
      BY <3>2 DEF OpenToWrite
    <3>4. pc'[q] = "write" /\ fd'[q] = j /\ pos'[q] < c
      BY <1>2, <3>2, <3>3 DEF OpenToWrite, TypeOK
    <3> QED BY <3>4
  <2> QED BY <2>1, <2>2
<1>16. StoreNamed'
  BY <1>1, <1>2 DEF StoreNamed, OpenToWrite, TypeOK, Inodes
<1>17. RaisesOnlyWhenStored'
  BY <1>1, <1>2 DEF RaisesOnlyWhenStored, OpenToWrite, TypeOK, Inodes
<1> QED BY <1>8, <1>9, <1>10, <1>11, <1>12, <1>13, <1>14, <1>15, <1>16, <1>17

LEMMA WritePreserves ==
  ASSUME NEW p \in Procs, IInv, WriteChunk(p) PROVE IInv'
<1> USE ChunksArePositive, BoundsAreNat, NoneIsNothing, SignatureIsAFunction
<1> USE DEF IInv
<1>1. Key(p) \in Keys /\ \A q \in Procs : Key(q)' = Key(q)
  BY DEF Key, TypeOK, WriteChunk
<1>2. /\ pos'[p] = pos[p] + 1 /\ pos'[p] \in Positions /\ fd[p] \in Inodes
      /\ pos' \in [Procs -> 0 .. Chunks]
      /\ content' = [content EXCEPT ![fd[p]][pos'[p]] = parents[p]]
      /\ parents[p] \in Hooks
  BY DEF WriteChunk, TypeOK, Positions, Descriptors
<1>3. \A j \in Inodes, c \in Positions :
        content'[j][c] = IF j = fd[p] /\ c = pos'[p] THEN parents[p] ELSE content[j][c]
  BY <1>2 DEF TypeOK
<1>4. \A j \in Inodes, k \in Keys : Belongs(j, k)' <=> Belongs(j, k)
  BY <1>1 DEF Belongs, WriteChunk
<1>5. TypeOK'
  <2>1. content' \in [Inodes -> [Positions -> Hooks \cup {None}]]
    BY <1>2 DEF TypeOK
  <2> QED BY <1>2, <2>1 DEF TypeOK, WriteChunk, boundVars
<1>6. Allocated' /\ OneKey'
  BY <1>4 DEF Allocated, OneKey, WriteChunk
<1>7. WrittenUnderKey'
  <2>1. Belongs(fd[p], Key(p))
    BY DEF Belongs
  <2>2. \A k \in Keys : Belongs(fd[p], k) => k = Signature[parents[p]]
    BY <1>1, <1>2, <2>1 DEF OneKey, Key
  <2> QED BY <1>3, <1>4, <2>2 DEF WrittenUnderKey
<1>8. Descriptors' /\ ReadUnderKey' /\ LoadsAreWhole'
  BY <1>1 DEF Descriptors, ReadUnderKey, LoadsAreWhole, WriteChunk
<1>9. Unwritten'
  <2> SUFFICES ASSUME NEW j \in Inodes, NEW c \in Positions,
                      j <= made', j \notin torn', content'[j][c] = None
               PROVE  \E q \in Procs : pc'[q] = "write" /\ fd'[q] = j /\ pos'[q] < c
    BY DEF Unwritten
  <2>1. content[j][c] = None /\ ~ (j = fd[p] /\ c = pos'[p])
    BY <1>2, <1>3
  <2>2. PICK q \in Procs : pc[q] = "write" /\ fd[q] = j /\ pos[q] < c
    BY <2>1 DEF Unwritten, WriteChunk, boundVars
  <2>3. pos'[q] < c
    <3>1. CASE q = p
      BY <1>2, <2>1, <2>2, <3>1 DEF TypeOK, Positions
    <3>2. CASE q # p
      BY <2>2, <3>2 DEF WriteChunk, TypeOK
    <3> QED BY <3>1, <3>2
  <2> QED BY <2>2, <2>3 DEF WriteChunk
<1>10. StoreNamed' /\ RaisesOnlyWhenStored'
  BY <1>1 DEF StoreNamed, RaisesOnlyWhenStored, WriteChunk
<1> QED BY <1>5, <1>6, <1>7, <1>8, <1>9, <1>10

LEMMA ClosePreserves ==
  ASSUME NEW p \in Procs, IInv, Close(p) PROVE IInv'
<1> USE ChunksArePositive, BoundsAreNat, NoneIsNothing, SignatureIsAFunction
<1> USE DEF IInv
<1>1. \A q \in Procs : Key(q) \in Keys /\ Key(q)' = Key(q)
  BY DEF Key, TypeOK, Close
<1>2. TypeOK'
  BY DEF TypeOK, Close, fileVars, boundVars
<1>3. \A i \in Inodes, k \in Keys : Belongs(i, k)' => Belongs(i, k)
  BY <1>1 DEF Belongs, Close, TypeOK, fileVars, Inodes
<1>4. (Allocated /\ OneKey /\ WrittenUnderKey)'
  BY <1>3, ReadersKeep DEF Close
<1>5. Descriptors' /\ ReadUnderKey' /\ LoadsAreWhole'
  BY <1>1 DEF Descriptors, ReadUnderKey, LoadsAreWhole, Close, TypeOK
<1>6. Unwritten'
  <2> SUFFICES ASSUME NEW j \in Inodes, NEW c \in Positions,
                      j <= made', j \notin torn', content'[j][c] = None
               PROVE  \E q \in Procs : pc'[q] = "write" /\ fd'[q] = j /\ pos'[q] < c
    BY DEF Unwritten
  <2>1. PICK q \in Procs : pc[q] = "write" /\ fd[q] = j /\ pos[q] < c
    BY DEF Unwritten, Close, fileVars, boundVars
  <2>2. q # p
    BY <2>1 DEF Close, TypeOK, Positions
  <2> QED BY <2>1, <2>2 DEF Close, TypeOK
<1>7. StoreNamed'
  BY <1>1 DEF StoreNamed, Close, TypeOK, fileVars
<1>8. RaisesOnlyWhenStored'
  BY <1>1 DEF RaisesOnlyWhenStored, StoreNamed, Close, TypeOK, fileVars
<1> QED BY <1>2, <1>4, <1>5, <1>6, <1>7, <1>8

LEMMA RenamePreserves ==
  ASSUME NEW p \in Procs, IInv, Rename(p) PROVE IInv'
<1> USE ChunksArePositive, BoundsAreNat, NoneIsNothing, SignatureIsAFunction
<1> USE DEF IInv
<1>1. \A q \in Procs : Key(q) \in Keys /\ Key(q)' = Key(q)
  BY DEF Key, TypeOK, Rename
<1>2. TypeOK'
  BY <1>1 DEF TypeOK, Rename, boundVars
\* The inode changes its name and keeps its key.
<1>3. \A i \in Inodes, k \in Keys : Belongs(i, k)' => Belongs(i, k)
  BY <1>1 DEF Belongs, Rename, TypeOK, Inodes
<1>4. Allocated' /\ OneKey' /\ WrittenUnderKey'
  BY <1>3 DEF Allocated, OneKey, WrittenUnderKey, Rename
<1>5. Descriptors' /\ ReadUnderKey'
  BY <1>1 DEF Descriptors, ReadUnderKey, Rename, TypeOK
<1>6. LoadsAreWhole'
  <2> DEFINE r == [c \in Positions |-> parents[p]]
  <2>1. \A c \in Positions : r[c] \in Hooks /\ Signature[r[c]] = Key(p)
    BY DEF TypeOK, Key
  <2>2. outcome' = [outcome EXCEPT ![p] = [kind |-> "derived", rules |-> r]]
    BY DEF Rename
  <2> HIDE DEF r
  <2> QED BY <1>1, <2>1, <2>2 DEF LoadsAreWhole, TypeOK
<1>7. Unwritten'
  <2> SUFFICES ASSUME NEW q \in Procs, pc[q] = "write"
               PROVE  pc'[q] = "write" /\ fd'[q] = fd[q] /\ pos'[q] = pos[q]
    BY DEF Unwritten, Rename, boundVars
  <2> QED BY DEF Rename, TypeOK
<1>8. /\ final'[Key(p)] # None
      /\ \A k \in Keys : k # Key(p) => tmp'[k] = tmp[k]
      /\ \A k \in Keys : final[k] # None => final'[k] # None
  BY <1>1 DEF Rename, TypeOK
<1>9. StoreNamed'
  BY <1>1, <1>8 DEF StoreNamed, Rename, TypeOK
<1>10. RaisesOnlyWhenStored'
  BY <1>1, <1>8 DEF RaisesOnlyWhenStored, Rename, TypeOK
<1> QED BY <1>2, <1>4, <1>5, <1>6, <1>7, <1>9, <1>10

LEMMA CrashPreserves ==
  ASSUME NEW p \in Procs, IInv, Crash(p) PROVE IInv'
<1> USE ChunksArePositive, BoundsAreNat, NoneIsNothing, SignatureIsAFunction
<1> USE DEF IInv
<1>1. \A q \in Procs : Key(q) \in Keys /\ Key(q)' = Key(q)
  BY DEF Key, TypeOK, Crash
<1>2. pc[p] = "write" => fd[p] \in Inodes
  BY DEF Descriptors, TypeOK
<1>3. TypeOK'
  <2>1. torn' \subseteq Inodes
    BY <1>2 DEF Crash, TypeOK
  <2> QED BY <2>1 DEF TypeOK, Crash, fileVars
<1>4. \A i \in Inodes, k \in Keys : Belongs(i, k)' => Belongs(i, k)
  BY <1>1 DEF Belongs, Crash, TypeOK, fileVars, Inodes
<1>5. (Allocated /\ OneKey /\ WrittenUnderKey)'
  BY <1>4, ReadersKeep DEF Crash
<1>6. Descriptors' /\ ReadUnderKey' /\ LoadsAreWhole'
  BY <1>1 DEF Descriptors, ReadUnderKey, LoadsAreWhole, Crash, TypeOK
\* What the killed process had not written is torn from now on.
<1>7. Unwritten'
  <2> SUFFICES ASSUME NEW j \in Inodes, NEW c \in Positions,
                      j <= made', j \notin torn', content'[j][c] = None
               PROVE  \E q \in Procs : pc'[q] = "write" /\ fd'[q] = j /\ pos'[q] < c
    BY DEF Unwritten
  <2>1. PICK q \in Procs : pc[q] = "write" /\ fd[q] = j /\ pos[q] < c
    BY DEF Unwritten, Crash, fileVars
  <2>2. q # p
    BY <2>1 DEF Crash
  <2> QED BY <2>1, <2>2 DEF Crash, TypeOK
<1>8. StoreNamed' /\ RaisesOnlyWhenStored'
  BY <1>1 DEF StoreNamed, RaisesOnlyWhenStored, Crash, TypeOK, fileVars
<1> QED BY <1>3, <1>5, <1>6, <1>7, <1>8

LEMMA StutterPreserves == ASSUME IInv, UNCHANGED vars PROVE IInv'
  BY DEF IInv, vars, procVars, fileVars, boundVars, TypeOK, Allocated, Descriptors,
         OneKey, WrittenUnderKey, ReadUnderKey, LoadsAreWhole, Unwritten,
         StoreNamed, RaisesOnlyWhenStored, Belongs, Key

-----------------------------------------------------------------------------
\* The inductive invariant holds in every reachable state, however many
\* processes call, race and are killed.
THEOREM Invariance == Spec => []IInv
<1>1. IInv /\ [Next]_vars => IInv'
  <2> SUFFICES ASSUME IInv, [Next]_vars PROVE IInv'
    OBVIOUS
  <2>1. ASSUME NEW p \in Procs, Call(p) \/ Step(p) \/ Crash(p) PROVE IInv'
    BY <2>1, CallPreserves, ReadsPreserve, OpenPreserves, WritePreserves,
       ClosePreserves, RenamePreserves, CrashPreserves DEF Step, Reads
  <2>2. CASE UNCHANGED vars
    BY <2>2, StutterPreserves
  <2> QED BY <2>1, <2>2 DEF Next
<1> QED BY InitEstablishes, <1>1, PTL DEF Spec

\* The state of processes and files is well formed.
THEOREM TypeCorrect == Spec => []TypeOK
<1>1. IInv => TypeOK
  BY DEF IInv
<1> QED BY Invariance, <1>1, PTL

\* A published file lacks only what a writer that opened it as the temporary
\* file is still writing, or what a killed writer left out.
THEOREM PublishedIsWhole == Spec => []TornOnlyByWriters
<1>1. IInv => TornOnlyByWriters
  <2> SUFFICES ASSUME IInv, NEW k \in Keys, NEW c \in Positions, final[k] # None,
                      final[k] \notin torn, content[final[k]][c] = None
               PROVE  \E p \in Procs :
                        pc[p] = "write" /\ fd[p] = final[k] /\ pos[p] < c
    BY DEF TornOnlyByWriters
  <2>1. final[k] \in Inodes /\ Belongs(final[k], k)
    BY DEF IInv, TypeOK, Belongs
  <2> QED BY <2>1 DEF IInv, Allocated, Unwritten
<1> QED BY Invariance, <1>1, PTL

\* A store that finds its temporary file gone has lost the race to a store of
\* the same key.
THEOREM LosersArePublished == Spec => []RaisesOnlyWhenStored
<1>1. IInv => RaisesOnlyWhenStored
  BY DEF IInv
<1> QED BY Invariance, <1>1, PTL

\* A call returns whole sets, and nothing of another key, however many writers
\* share the temporary file of a key and whichever hooks share the key.
THEOREM CallsReturnWholeSets == Spec => []LoadsAreWhole
<1>1. IInv => LoadsAreWhole
  BY DEF IInv
<1> QED BY Invariance, <1>1, PTL
=============================================================================
