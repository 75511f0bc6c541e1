-------------------------- MODULE ServerProcess_proofs --------------------------
(***************************************************************************)
(* Proofs about ServerProcess: every step of the process is a step of      *)
(* MultiNic or leaves its variables alone, so that its invariant holds of  *)
(* the process; and what is accepted as a configuration has one source.    *)
(* For any number of calls, stores, interfaces, signals, files and         *)
(* environments.                                                           *)
(***************************************************************************)
EXTENDS ServerProcess, WellFoundedInduction, TLAPS

-----------------------------------------------------------------------------
(* The steps of the callbacks: the inductive invariant of MultiNic.        *)

(* The inductive invariant, in parts.                                      *)
Sized(c) == opening[c] \in {"loading", "advancing", "binding"}
Started(c) == opening[c] = "advancing" \/ HasTurn(c)

(* A callback that no assignment overlaps sees one list, and the size it   *)
(* read is the size of that list.                                          *)
SeesOneList ==
  \A c \in Conns :
    /\ opening[c] \in {"closed", "entering", "sizing"} => numNics[c] = 0
    /\ InCallback(c) /\ ~overlapped => ~assigning /\ nicIPs # <<>>
    /\ Sized(c) /\ ~overlapped => numNics[c] = Len(nicIPs)

(* The index counts the advances, modulo the length of the list, and a     *)
(* callback starts where the index was when it loaded it.                  *)
IndexCounts ==
  Steady =>
    /\ advances = 0 => currentIndex = 0
    /\ nicIPs # <<>> => currentIndex = advances % Len(nicIPs)
    /\ \A c \in Conns : HasTurn(c) => numNics[c] = Len(nicIPs)
    /\ \A c \in Conns : Started(c) => startIndex[c] = loadedAt[c] % Len(nicIPs)

(* A callback loads the index before it advances it.                       *)
LoadsBeforeAdvance ==
  \A c \in Conns :
    /\ opening[c] = "advancing" => loadedAt[c] <= advances
    /\ HasTurn(c) => loadedAt[c] <= ticket[c] /\ ticket[c] < advances

(* What a callback has tried are the positions from its start on.          *)
Positions(start, n, k) == {(start + j) % n : j \in 0 .. k - 1}

TriesInTurn ==
  \A c \in Conns :
    /\ opening[c] \in {"closed", "entering", "sizing", "loading", "advancing"}
         => attempt[c] = 0 /\ refused[c] = {}
    /\ opening[c] = "binding" =>
         /\ attempt[c] <= numNics[c]
         /\ refused[c] = Positions(startIndex[c], numNics[c], attempt[c])
    /\ opening[c] # "open" => bound[c] = NoSocket

NicInv ==
  /\ NicTypeOK /\ SeesOneList /\ IndexCounts /\ LoadsBeforeAdvance
  /\ TriesInTurn /\ DefaultOnlyAsLastResort /\ StrayOnlyWhenAssigned

-----------------------------------------------------------------------------
(* Arithmetic of the round robin.                                          *)

(* Division with remainder.                                                *)
LEMMA DivMod ==
  ASSUME NEW k \in Nat, NEW n \in Nat, n > 0
  PROVE  k = n * (k \div n) + (k % n) /\ k \div n \in Nat /\ k % n \in 0 .. n - 1
  OBVIOUS

LEMMA Remainder ==
  ASSUME NEW n \in Nat, n > 0, NEW q \in Nat, NEW r \in 0 .. n - 1
  PROVE  (n * q + r) % n = r
  OBVIOUS

LEMMA ModMod ==
  ASSUME NEW k \in Nat, NEW n \in Nat, n > 0
  PROVE  (k % n) % n = k % n
<1>1. PICK r \in 0 .. n - 1 : r = k % n
  BY DivMod
<1>2. r = n * 0 + r /\ 0 \in Nat
  BY <1>1
<1> QED
  BY <1>1, <1>2, Remainder

(* The successor modulo n is the next position, or the first.              *)
LEMMA SuccessorCounts ==
  ASSUME NEW k \in Nat, NEW n \in Nat, n > 0
  PROVE  Successor(k % n, n) = (k + 1) % n
<1>1. PICK q \in Nat, r \in 0 .. n - 1 : k = n * q + r /\ k % n = r
  BY DivMod
<1>2. CASE r + 1 < n
  <2>1. k + 1 = n * q + (r + 1) /\ r + 1 \in 0 .. n - 1
    BY <1>1, <1>2
  <2>2. (k + 1) % n = r + 1
    BY <2>1, Remainder
  <2> QED
    BY <1>1, <1>2, <2>2 DEF Successor
<1>3. CASE r + 1 = n
  <2>1. k + 1 = n * (q + 1) + 0
    BY <1>1, <1>3
  <2>2. q + 1 \in Nat /\ 0 \in 0 .. n - 1 /\ k + 1 \in Nat
    BY <1>1
  <2>3. (k + 1) % n = 0
    BY <2>1, <2>2, Remainder
  <2> QED
    BY <1>1, <1>3, <2>3 DEF Successor
<1> QED
  BY <1>2, <1>3

(* Fewer than n steps apart is not the same position.                      *)
LEMMA ApartModulo ==
  ASSUME NEW i \in Nat, NEW j \in Nat, NEW n \in Nat, n > 0, i < j, j < i + n
  PROVE  i % n # j % n
<1>1. SUFFICES ASSUME i % n = j % n
               PROVE  FALSE
  OBVIOUS
<1>2. PICK p \in Nat, r \in 0 .. n - 1 : i = n * p + r /\ i % n = r
  BY DivMod
<1>3. PICK q \in Nat, s \in 0 .. n - 1 : j = n * q + s /\ j % n = s
  BY DivMod
<1>4. n * q - n * p > 0 /\ n * q - n * p < n
  BY <1>1, <1>2, <1>3
<1>5. n * (q - p) > 0 /\ n * (q - p) < n
  BY <1>4
<1>6. q - p > 0 /\ q - p < 1
  BY <1>5
<1> QED
  BY <1>6

(* n positions in turn are all of them, from wherever they start.          *)
LEMMA AllTried ==
  ASSUME NEW start \in Nat, NEW n \in Nat, n > 0
  PROVE  Positions(start, n, n) = 0 .. n - 1
<1>1. \A j \in 0 .. n - 1 : (start + j) % n \in 0 .. n - 1
  OBVIOUS
<1>2. ASSUME NEW i \in 0 .. n - 1
      PROVE  \E j \in 0 .. n - 1 : i = (start + j) % n
  <2>1. PICK q \in Nat, s \in 0 .. n - 1 : start = n * q + s
    BY DivMod
  <2>2. CASE i >= s
    <3>1. i - s \in 0 .. n - 1 /\ start + (i - s) = n * q + i
      BY <2>1, <2>2
    <3>2. (start + (i - s)) % n = i
      BY <3>1, Remainder
    <3> QED
      BY <3>1, <3>2
  <2>3. CASE i < s
    <3>1. i - s + n \in 0 .. n - 1
      BY <2>1, <2>3
    <3>2. start + (i - s + n) = n * (q + 1) + i /\ q + 1 \in Nat
      BY <2>1
    <3>3. (start + (i - s + n)) % n = i
      BY <3>2, Remainder
    <3> QED
      BY <3>1, <3>3
  <2> QED
    BY <2>1, <2>2, <2>3
<1> QED
  BY <1>1, <1>2 DEF Positions

(* One position more.                                                      *)
LEMMA OneMorePosition ==
  ASSUME NEW start \in Nat, NEW n \in Nat, NEW k \in Nat
  PROVE  Positions(start, n, k + 1) = Positions(start, n, k) \cup {(start + k) % n}
<1>1. 0 .. (k + 1) - 1 = (0 .. k - 1) \cup {k}
  OBVIOUS
<1> QED
  BY <1>1 DEF Positions

-----------------------------------------------------------------------------
(* The steps.                                                              *)

LEMMA NicInitInv == NicInit => NicInv
<1> SUFFICES ASSUME NicInit PROVE NicInv
  OBVIOUS
<1> USE NicAssumption DEF NicInit
<1>1. NicTypeOK
  <2>1. <<>> \in Seq(Addresses)
    OBVIOUS
  <2>2. assigning \in BOOLEAN /\ overlapped \in BOOLEAN /\ resized \in BOOLEAN
    OBVIOUS
  <2>3. refused \in [Conns -> SUBSET Nat]
    OBVIOUS
  <2> QED
    BY <2>1, <2>2, <2>3 DEF NicTypeOK
<1>2. SeesOneList /\ LoadsBeforeAdvance /\ IndexCounts
  BY DEF SeesOneList, LoadsBeforeAdvance, IndexCounts, InCallback, Sized, HasTurn, Started
<1>3. TriesInTurn /\ DefaultOnlyAsLastResort /\ StrayOnlyWhenAssigned
  BY DEF TriesInTurn, DefaultOnlyAsLastResort, StrayOnlyWhenAssigned, HasTurn
<1> QED
  BY <1>1, <1>2, <1>3 DEF NicInv

LEMMA AssignPreserves ==
  ASSUME NicInv, StartAssign \/ \E list \in NicLists : EndAssign(list)
  PROVE  NicInv'
<1> USE NicAssumption DEF NicInv, NicTypeOK, locals, history, InCallback,
        Sized, HasTurn, Started, Steady, Positions
<1>1. CASE StartAssign
  <2> USE <1>1 DEF StartAssign
  <2>1. NicTypeOK'
    OBVIOUS
  <2>2. (SeesOneList /\ LoadsBeforeAdvance)'
    BY DEF SeesOneList, LoadsBeforeAdvance
  <2>3. IndexCounts'
    BY DEF IndexCounts
  <2>4. (TriesInTurn /\ DefaultOnlyAsLastResort /\ StrayOnlyWhenAssigned)'
    BY DEF TriesInTurn, DefaultOnlyAsLastResort, StrayOnlyWhenAssigned
  <2> QED
    BY <2>1, <2>2, <2>3, <2>4
<1>2. ASSUME NEW list \in NicLists, EndAssign(list)
      PROVE  NicInv'
  <2> USE <1>2 DEF EndAssign
  <2>1. NicTypeOK' /\ list \in Seq(Addresses)
    OBVIOUS
  <2>2. (SeesOneList /\ LoadsBeforeAdvance)'
    BY DEF SeesOneList, LoadsBeforeAdvance
  <2>3. IndexCounts'
    <3> SUFFICES ASSUME Steady'
                 PROVE  /\ advances = 0 => currentIndex = 0
                        /\ list # <<>> => currentIndex = advances % Len(list)
                        /\ \A c \in Conns : HasTurn(c) => numNics[c] = Len(list)
                        /\ \A c \in Conns : Started(c) => startIndex[c] = loadedAt[c] % Len(list)
      BY DEF IndexCounts
    <3>1. Steady /\ (advances > 0 => Len(list) = Len(nicIPs))
      OBVIOUS
    <3>2. \A c \in Conns : ~InCallback(c)
      BY <3>1 DEF SeesOneList
    <3>3. \A c \in Conns : HasTurn(c) => advances > 0
      BY DEF LoadsBeforeAdvance
    <3>4. CASE advances = 0
      <4>1. list # <<>> => 0 % Len(list) = 0
        BY <2>1
      <4> QED
        BY <3>1, <3>2, <3>3, <3>4, <4>1 DEF IndexCounts
    <3>5. CASE advances > 0
      BY <2>1, <3>1, <3>2, <3>5 DEF IndexCounts
    <3> QED
      BY <3>4, <3>5
  <2>4. (TriesInTurn /\ DefaultOnlyAsLastResort /\ StrayOnlyWhenAssigned)'
    BY DEF TriesInTurn, DefaultOnlyAsLastResort, StrayOnlyWhenAssigned
  <2> QED
    BY <2>1, <2>2, <2>3, <2>4
<1> QED
  BY <1>1, <1>2

(* The transport makes the handle of a new connection.                     *)
LEMMA CurlCallbackPreserves ==
  ASSUME NicInv, NEW c \in Conns, MultiNicCurlCallback(c)
  PROVE  NicInv'
<1> USE NicAssumption DEF NicInv, NicTypeOK, locals, history, InCallback,
        Sized, HasTurn, Started, Steady, Positions, MultiNicCurlCallback,
        UnlessEmpty, Opened, Goto
<1>1. NicTypeOK'
  <2>1. overlapped' \in BOOLEAN
    OBVIOUS
  <2> QED
    BY <2>1
<1>2. \/ ~overlapped' /\ ~overlapped /\ ~assigning /\ SizeRead = {Len(nicIPs)}
      \/ overlapped'
  BY DEF SizeRead
<1>3. /\ \A d \in Conns : d # c => opening'[d] = opening[d] /\ bound'[d] = bound[d]
      /\ \/ opening'[c] = "open" /\ bound'[c] = Default
         \/ opening'[c] = "entering" /\ bound'[c] = NoSocket
  BY DEF TriesInTurn
<1>4. numNics[c] = 0
  BY DEF SeesOneList
<1>5. (opening'[c] = "entering" /\ ~overlapped') => nicIPs # <<>>
  BY <1>2
<1>6. SeesOneList' /\ LoadsBeforeAdvance'
  <2> HIDE DEF Positions
  <2>1. SeesOneList'
    BY <1>1, <1>2, <1>3, <1>4, <1>5 DEF SeesOneList
  <2>2. LoadsBeforeAdvance'
    BY <1>1, <1>2, <1>3, <1>4, <1>5 DEF LoadsBeforeAdvance
  <2> QED
    BY <2>1, <2>2
<1>7. \A d \in Conns : /\ HasTurn(d)' => HasTurn(d) /\ d # c
                       /\ Started(d)' => Started(d) /\ d # c
  BY <1>3, <1>4
<1>8. IndexCounts'
  <2> HIDE DEF HasTurn, Started
  <2> QED
    BY <1>2, <1>7 DEF IndexCounts
<1>9. TriesInTurn' /\ StrayOnlyWhenAssigned'
  <2> HIDE DEF Positions
  <2>1. TriesInTurn'
    BY <1>1, <1>2, <1>3, <1>4 DEF TriesInTurn
  <2>2. StrayOnlyWhenAssigned'
    BY <1>1, <1>2, <1>3, <1>4 DEF StrayOnlyWhenAssigned
  <2> QED
    BY <2>1, <2>2
<1>10. DefaultOnlyAsLastResort'
  <2> HIDE DEF HasTurn
  <2> QED
    BY <1>3, <1>7 DEF DefaultOnlyAsLastResort
<1> QED
  BY <1>1, <1>6, <1>8, <1>9, <1>10

(* The socket callback looks at the list and reads its size.               *)
LEMMA EnterPreserves ==
  ASSUME NicInv, NEW c \in Conns, EnterSocketCallback(c)
  PROVE  NicInv'
<1> USE NicAssumption DEF NicInv, NicTypeOK, locals, history, InCallback,
        Sized, HasTurn, Started, Steady, Positions, EnterSocketCallback,
        UnlessEmpty, Opened, Goto
<1>1. NicTypeOK'
  OBVIOUS
<1>2. ~overlapped => ~assigning /\ nicIPs # <<>>
  BY DEF SeesOneList
<1>3. /\ \A d \in Conns : d # c => opening'[d] = opening[d] /\ bound'[d] = bound[d]
      /\ \/ opening'[c] = "open" /\ bound'[c] = Default
         \/ opening'[c] = "sizing" /\ bound'[c] = NoSocket
  BY DEF TriesInTurn
<1>4. numNics[c] = 0
  BY DEF SeesOneList
<1>5. SeesOneList' /\ LoadsBeforeAdvance'
  <2>1. SeesOneList'
    BY <1>1, <1>2, <1>3, <1>4 DEF SeesOneList
  <2>2. LoadsBeforeAdvance'
    BY <1>3, <1>4 DEF LoadsBeforeAdvance
  <2> QED
    BY <2>1, <2>2
<1>6. \A d \in Conns : /\ HasTurn(d)' => HasTurn(d) /\ d # c
                       /\ Started(d)' => Started(d) /\ d # c
  BY <1>3, <1>4
<1>7. IndexCounts'
  <2> HIDE DEF HasTurn, Started
  <2> QED
    BY <1>6 DEF IndexCounts
<1>8. TriesInTurn' /\ StrayOnlyWhenAssigned'
  <2> HIDE DEF Positions
  <2>1. TriesInTurn'
    BY <1>1, <1>3, <1>4 DEF TriesInTurn
  <2>2. StrayOnlyWhenAssigned'
    BY <1>1, <1>3, <1>4 DEF StrayOnlyWhenAssigned
  <2> QED
    BY <2>1, <2>2
<1>9. DefaultOnlyAsLastResort'
  <2> HIDE DEF HasTurn
  <2> QED
    BY <1>3, <1>6 DEF DefaultOnlyAsLastResort
<1> QED
  BY <1>1, <1>5, <1>7, <1>8, <1>9

LEMMA ReadSizePreserves ==
  ASSUME NicInv, NEW c \in Conns, ReadSize(c)
  PROVE  NicInv'
<1> USE NicAssumption DEF NicInv, NicTypeOK, locals, history, InCallback,
        Sized, HasTurn, Started, Steady, Positions, ReadSize, SizeRead, Goto
<1>1. NicTypeOK'
  OBVIOUS
<1>2. ~overlapped => numNics'[c] = Len(nicIPs)
  BY DEF SeesOneList
<1>3. /\ \A d \in Conns : d # c => opening'[d] = opening[d] /\ numNics'[d] = numNics[d]
      /\ opening'[c] = "loading"
  OBVIOUS
<1>4. SeesOneList' /\ LoadsBeforeAdvance'
  <2> HIDE DEF Positions
  <2>1. SeesOneList'
    BY <1>1, <1>2, <1>3 DEF SeesOneList
  <2>2. LoadsBeforeAdvance'
    BY <1>1, <1>2, <1>3 DEF LoadsBeforeAdvance
  <2> QED
    BY <2>1, <2>2
<1>5. \A d \in Conns : /\ HasTurn(d)' => HasTurn(d) /\ d # c
                       /\ Started(d)' => Started(d) /\ d # c
  BY <1>3
<1>6. IndexCounts'
  <2> HIDE DEF HasTurn, Started
  <2> QED
    BY <1>3, <1>5 DEF IndexCounts
<1>7. TriesInTurn' /\ StrayOnlyWhenAssigned'
  <2> HIDE DEF Positions
  <2>1. TriesInTurn'
    BY <1>1, <1>3 DEF TriesInTurn
  <2>2. StrayOnlyWhenAssigned'
    BY <1>1, <1>3 DEF StrayOnlyWhenAssigned
  <2> QED
    BY <2>1, <2>2
<1>8. DefaultOnlyAsLastResort'
  <2> HIDE DEF HasTurn
  <2> QED
    BY <1>3, <1>5 DEF DefaultOnlyAsLastResort
<1> QED
  BY <1>1, <1>4, <1>6, <1>7, <1>8

(* The callback loads the index and advances it.                           *)
LEMMA LoadPreserves ==
  ASSUME NicInv, NEW c \in Conns, LoadIndex(c)
  PROVE  NicInv'
<1> USE NicAssumption DEF NicInv, NicTypeOK, locals, history, InCallback,
        Sized, HasTurn, Started, Steady, Positions, LoadIndex, Goto
<1>1. NicTypeOK'
  OBVIOUS
<1>2. /\ \A d \in Conns : d # c => /\ opening'[d] = opening[d]
                                   /\ loadedAt'[d] = loadedAt[d]
                                   /\ startIndex'[d] = startIndex[d]
      /\ opening'[c] = "advancing"
      /\ loadedAt'[c] = advances /\ startIndex'[c] = currentIndex
  OBVIOUS
<1>3. SeesOneList' /\ LoadsBeforeAdvance'
  <2> HIDE DEF Positions
  <2>1. SeesOneList'
    BY <1>1, <1>2 DEF SeesOneList
  <2>2. LoadsBeforeAdvance'
    BY SMTT(20), <1>1, <1>2 DEF LoadsBeforeAdvance
  <2> QED
    BY <2>1, <2>2
<1>4. \A d \in Conns : /\ HasTurn(d)' => HasTurn(d) /\ d # c
                       /\ Started(d)' => Started(d) \/ d = c
  BY <1>2
<1>5. Steady => startIndex'[c] = loadedAt'[c] % Len(nicIPs)
  BY <1>2 DEF SeesOneList, IndexCounts
<1>6. IndexCounts'
  <2> HIDE DEF HasTurn, Started
  <2> QED
    BY <1>2, <1>4, <1>5 DEF IndexCounts
<1>7. TriesInTurn' /\ StrayOnlyWhenAssigned'
  <2> HIDE DEF Positions
  <2>1. TriesInTurn'
    BY <1>1, <1>2 DEF TriesInTurn
  <2>2. StrayOnlyWhenAssigned'
    BY <1>1, <1>2 DEF StrayOnlyWhenAssigned
  <2> QED
    BY <2>1, <2>2
<1>8. DefaultOnlyAsLastResort'
  <2> HIDE DEF HasTurn
  <2> QED
    BY <1>2, <1>4 DEF DefaultOnlyAsLastResort
<1> QED
  BY <1>1, <1>3, <1>6, <1>7, <1>8

LEMMA AdvancePreserves ==
  ASSUME NicInv, NEW c \in Conns, AdvanceIndex(c)
  PROVE  NicInv'
<1> USE NicAssumption DEF NicInv, NicTypeOK, locals, history, InCallback,
        Sized, HasTurn, Started, Steady, Positions, AdvanceIndex, Goto
<1>1. NicTypeOK'
  <2>1. next(c) \in Nat
    BY DEF next, Successor
  <2> HIDE DEF SeesOneList, TriesInTurn
  <2> HIDE DEF IndexCounts, LoadsBeforeAdvance, DefaultOnlyAsLastResort,
             StrayOnlyWhenAssigned, next, Positions, Steady
  <2>2. CASE current[c] = currentIndex
    <3>1. currentIndex' \in Nat /\ advances' \in Nat /\ current' \in [Conns -> Nat]
      BY <2>1, <2>2
    <3>2. ticket' \in [Conns -> Nat]
      <4>1. ticket' = [ticket EXCEPT ![c] = advances]
        BY <2>2
      <4>2. ticket \in [Conns -> Nat] /\ advances \in Nat
        OBVIOUS
      <4> HIDE DEF NicInv, NicTypeOK, AdvanceIndex, HasTurn, Started
      <4> QED
        BY <4>1, <4>2
    <3> QED
      BY <2>2, <3>1, <3>2
  <2>3. CASE current[c] # currentIndex
    <3>1. current' \in [Conns -> Nat]
      BY <2>3
    <3> QED
      BY <2>3, <3>1
  <2> QED
    BY <2>2, <2>3
<1>2. CASE current[c] # currentIndex
  <2>1. UNCHANGED <<nicIPs, assigning, currentIndex, opening, numNics,
                    startIndex, attempt, bound, history>>
    BY <1>2
  <2>2. SeesOneList' /\ LoadsBeforeAdvance' /\ IndexCounts'
    BY <2>1 DEF SeesOneList, LoadsBeforeAdvance, IndexCounts
  <2>3. TriesInTurn' /\ StrayOnlyWhenAssigned' /\ DefaultOnlyAsLastResort'
    <3> HIDE DEF Positions, HasTurn, Started, Steady
    <3>1. TriesInTurn'
      BY <2>1 DEF TriesInTurn
    <3>2. StrayOnlyWhenAssigned' /\ DefaultOnlyAsLastResort'
      BY <2>1 DEF StrayOnlyWhenAssigned, DefaultOnlyAsLastResort, HasTurn
    <3> QED
      BY <3>1, <3>2
  <2> QED
    BY <1>1, <2>2, <2>3
<1>3. CASE current[c] = currentIndex
  <2>1. /\ \A d \in Conns : d # c => opening'[d] = opening[d] /\ ticket'[d] = ticket[d]
        /\ opening'[c] = "binding" /\ ticket'[c] = advances
        /\ advances' = advances + 1
        /\ currentIndex' = Successor(currentIndex, numNics[c])
    BY <1>3 DEF next
  <2>2. SeesOneList'
    BY <1>1, <2>1 DEF SeesOneList
  <2>3. LoadsBeforeAdvance'
    <3>1. ASSUME NEW d \in Conns
          PROVE  /\ opening'[d] = "advancing" => loadedAt'[d] <= advances'
                 /\ HasTurn(d)' => loadedAt'[d] <= ticket'[d] /\ ticket'[d] < advances'
      <4>1. loadedAt'[d] = loadedAt[d] /\ numNics'[d] = numNics[d]
            /\ loadedAt[d] \in Nat /\ advances \in Nat /\ ticket[d] \in Nat
        OBVIOUS
      <4>2. CASE d = c
        BY <2>1, <4>1, <4>2 DEF LoadsBeforeAdvance
      <4>3. CASE d # c
        BY SMTT(20), <2>1, <4>1, <4>3 DEF LoadsBeforeAdvance
      <4> QED
        BY <4>2, <4>3
    <3> QED
      BY <3>1 DEF LoadsBeforeAdvance
  <2>4. \A d \in Conns : /\ HasTurn(d)' => HasTurn(d) \/ d = c
                         /\ Started(d)' => Started(d)
    BY <2>1
  <2>5. Steady => /\ numNics[c] = Len(nicIPs) /\ nicIPs # <<>>
                  /\ currentIndex' = advances' % Len(nicIPs)
    <3>1. Steady => /\ numNics[c] = Len(nicIPs) /\ nicIPs # <<>>
                    /\ currentIndex = advances % Len(nicIPs)
      BY DEF SeesOneList, IndexCounts
    <3>2. nicIPs # <<>> => Len(nicIPs) \in Nat /\ Len(nicIPs) > 0
      OBVIOUS
    <3> QED
      BY <2>1, <3>1, <3>2, SuccessorCounts
  <2>6. IndexCounts'
    <3> HIDE DEF HasTurn, Started
    <3> QED
      BY <2>1, <2>4, <2>5 DEF IndexCounts
  <2>7. TriesInTurn'
    <3>1. attempt'[c] = 0 /\ refused'[c] = {} /\ bound'[c] = NoSocket
      BY DEF TriesInTurn
    <3>2. refused'[c] = Positions(startIndex[c], numNics[c], attempt[c])'
      BY <3>1
    <3>3. attempt'[c] <= numNics'[c]
      BY <3>1
    <3>4. \A d \in Conns : d # c =>
            /\ attempt'[d] = attempt[d] /\ refused'[d] = refused[d]
            /\ bound'[d] = bound[d] /\ opening'[d] = opening[d]
            /\ numNics'[d] = numNics[d] /\ startIndex'[d] = startIndex[d]
      BY <2>1
    <3> HIDE DEF Positions
    <3> QED
      BY SMTT(20), <2>1, <3>1, <3>2, <3>3, <3>4 DEF TriesInTurn
  <2>8. StrayOnlyWhenAssigned' /\ DefaultOnlyAsLastResort'
    <3>1. bound[c] = NoSocket
      BY DEF TriesInTurn
    <3> QED
      BY <1>1, <2>1, <3>1 DEF StrayOnlyWhenAssigned, DefaultOnlyAsLastResort
  <2> QED
    BY <1>1, <2>2, <2>3, <2>6, <2>7, <2>8
<1> QED
  BY <1>2, <1>3

(* The callback binds the socket, at the latest to no interface.           *)
LEMMA TryBindPreserves ==
  ASSUME NicInv, NEW c \in Conns, TryBind(c)
  PROVE  NicInv'
<1> USE NicAssumption DEF NicInv, NicTypeOK, locals, history, InCallback,
        Sized, HasTurn, Started, Steady, TryBind, Goto, Opened
<1>1. /\ attempt[c] \in Nat /\ numNics[c] \in Nat /\ attempt[c] < numNics[c]
      /\ startIndex[c] \in Nat
      /\ tryIndex(c) = (startIndex[c] + attempt[c]) % numNics[c]
      /\ tryIndex(c) \in 0 .. numNics[c] - 1
  <2>1. attempt[c] \in Nat /\ numNics[c] \in Nat /\ startIndex[c] \in Nat
    OBVIOUS
  <2>2. attempt[c] < numNics[c]
    BY DEF MoreToTry
  <2>3. (startIndex[c] + attempt[c]) % numNics[c] \in 0 .. numNics[c] - 1
    BY <2>1, <2>2, DivMod
  <2> QED
    BY <2>1, <2>2, <2>3 DEF tryIndex
<1>2. CASE \E address \in AddressRead(tryIndex(c)) : Opened(c, address) /\ UNCHANGED <<attempt, refused>>
  <2>1. PICK address \in AddressRead(tryIndex(c)) : Opened(c, address) /\ UNCHANGED <<attempt, refused>>
    BY <1>2
  <2>2. address \in Addresses \cup {Stray}
    BY <1>1, <2>1 DEF AddressRead
  <2>3. ~overlapped => address \in Addresses
    <3>1. ~overlapped => ~assigning /\ numNics[c] = Len(nicIPs)
      BY DEF SeesOneList
    <3> QED
      BY SMTT(20), <1>1, <2>1, <3>1 DEF AddressRead
  <2>4. /\ \A d \in Conns : d # c => opening'[d] = opening[d] /\ bound'[d] = bound[d]
        /\ opening'[c] = "open" /\ bound'[c] = address
    BY <2>1
  <2>5. NicTypeOK'
    BY <2>1, <2>2
  <2>6. SeesOneList' /\ LoadsBeforeAdvance'
    BY <2>4, <2>5 DEF SeesOneList, LoadsBeforeAdvance
  <2>7. \A d \in Conns : (HasTurn(d)' <=> HasTurn(d)) /\ (Started(d)' <=> Started(d))
    BY <2>4
  <2>8. IndexCounts'
    <3> HIDE DEF HasTurn, Started
    <3> QED
      BY <2>1, <2>7 DEF IndexCounts
  <2>9. TriesInTurn' /\ StrayOnlyWhenAssigned'
    BY <2>1, <2>3, <2>4, <2>5 DEF TriesInTurn, StrayOnlyWhenAssigned
  <2>10. DefaultOnlyAsLastResort'
    BY <2>1, <2>2, <2>4, <2>7 DEF DefaultOnlyAsLastResort
  <2> QED
    BY <2>5, <2>6, <2>8, <2>9, <2>10
<1>3. CASE /\ attempt' = [attempt EXCEPT ![c] = @ + 1]
           /\ refused' = [refused EXCEPT ![c] = @ \cup {tryIndex(c)}]
           /\ UNCHANGED <<opening, bound>>
  <2>1. NicTypeOK'
    BY SMTT(20), <1>1, <1>3
  <2>2. SeesOneList' /\ LoadsBeforeAdvance' /\ IndexCounts' /\ StrayOnlyWhenAssigned'
    BY <1>3 DEF SeesOneList, LoadsBeforeAdvance, IndexCounts, StrayOnlyWhenAssigned
  <2>3. /\ refused'[c] = Positions(startIndex[c], numNics[c], attempt[c] + 1)
        /\ attempt'[c] = attempt[c] + 1 /\ attempt'[c] <= numNics[c]
    <3>1. refused[c] = Positions(startIndex[c], numNics[c], attempt[c])
      BY DEF TriesInTurn
    <3> QED
      BY SMTT(20), <1>1, <1>3, <3>1, OneMorePosition
  <2>4. TriesInTurn'
    BY <1>3, <2>1, <2>3 DEF TriesInTurn
  <2>5. DefaultOnlyAsLastResort'
    <3>1. bound[c] = NoSocket
      BY DEF TriesInTurn
    <3> QED
      BY <1>3, <3>1 DEF DefaultOnlyAsLastResort
  <2> QED
    BY <2>1, <2>2, <2>4, <2>5
<1> QED
  BY <1>2, <1>3

LEMMA FallBackPreserves ==
  ASSUME NicInv, NEW c \in Conns, FallBack(c)
  PROVE  NicInv'
<1> USE NicAssumption DEF NicInv, NicTypeOK, locals, history, InCallback,
        Sized, HasTurn, Started, Steady, FallBack, Goto, Opened
<1>1. /\ \A d \in Conns : d # c => opening'[d] = opening[d] /\ bound'[d] = bound[d]
      /\ opening'[c] = "open" /\ bound'[c] = Default
  OBVIOUS
<1>2. NicTypeOK'
  OBVIOUS
<1>3. SeesOneList' /\ LoadsBeforeAdvance'
  <2> HIDE DEF Positions
  <2>1. SeesOneList'
    BY <1>1, <1>2 DEF SeesOneList
  <2>2. LoadsBeforeAdvance'
    BY <1>1, <1>2 DEF LoadsBeforeAdvance
  <2> QED
    BY <2>1, <2>2
<1>4. \A d \in Conns : (HasTurn(d)' <=> HasTurn(d)) /\ (Started(d)' <=> Started(d))
  BY <1>1
<1>5. IndexCounts'
  <2> HIDE DEF HasTurn, Started
  <2> QED
    BY <1>4 DEF IndexCounts
<1>6. TriesInTurn' /\ StrayOnlyWhenAssigned'
  <2> HIDE DEF Positions
  <2>1. TriesInTurn'
    BY <1>1, <1>2 DEF TriesInTurn
  <2>2. StrayOnlyWhenAssigned'
    BY <1>1, <1>2 DEF StrayOnlyWhenAssigned
  <2> QED
    BY <2>1, <2>2
<1>7. numNics[c] > 0 => refused[c] = 0 .. numNics[c] - 1
  <2>1. attempt[c] = numNics[c]
    BY DEF TriesInTurn, MoreToTry
  <2>2. refused[c] = Positions(startIndex[c], numNics[c], numNics[c])
    BY <2>1 DEF TriesInTurn
  <2> QED
    BY <2>2, AllTried
<1>8. DefaultOnlyAsLastResort'
  BY <1>1, <1>4, <1>7 DEF DefaultOnlyAsLastResort
<1> QED
  BY <1>2, <1>3, <1>5, <1>6, <1>8

LEMMA NicStepInv == NicInv /\ [NicNext]_nicVars => NicInv'
<1> SUFFICES ASSUME NicInv, [NicNext]_nicVars
             PROVE  NicInv'
  OBVIOUS
<1>1. CASE UNCHANGED nicVars
  BY <1>1 DEF nicVars, locals, history, NicInv, NicTypeOK, SeesOneList,
     IndexCounts, LoadsBeforeAdvance, TriesInTurn, DefaultOnlyAsLastResort,
     StrayOnlyWhenAssigned, Sized, Started, HasTurn, InCallback, Steady
<1>2. CASE NicNext
  BY <1>2, AssignPreserves, CurlCallbackPreserves, EnterPreserves,
     ReadSizePreserves, LoadPreserves, AdvancePreserves, TryBindPreserves,
     FallBackPreserves
     DEF NicNext, MultiNicSocketCallback
<1> QED
  BY <1>1, <1>2

(* What the invariant says of the properties.                              *)
LEMMA NicInvSpreads == NicInv => SpreadWhenApart /\ EveryAdvanceCounted
<1> SUFFICES ASSUME NicInv
             PROVE  SpreadWhenApart /\ EveryAdvanceCounted
  OBVIOUS
<1> USE DEF NicInv, NicTypeOK
<1>1. EveryAdvanceCounted
  BY DEF IndexCounts, EveryAdvanceCounted
<1>2. ASSUME NEW c \in Conns, NEW d \in Conns, Steady, HasTurn(c), HasTurn(d),
             ticket[c] < loadedAt[d], loadedAt[d] < loadedAt[c] + numNics[c]
      PROVE  First(c) # First(d)
  <2>1. /\ numNics[c] = Len(nicIPs) /\ numNics[d] = Len(nicIPs)
        /\ startIndex[c] = loadedAt[c] % Len(nicIPs)
        /\ startIndex[d] = loadedAt[d] % Len(nicIPs)
        /\ Len(nicIPs) \in Nat /\ Len(nicIPs) > 0
    BY SMTT(20), <1>2 DEF IndexCounts, Started, HasTurn
  <2>2. /\ loadedAt[c] \in Nat /\ loadedAt[d] \in Nat
        /\ loadedAt[c] < loadedAt[d] /\ loadedAt[d] < loadedAt[c] + Len(nicIPs)
    BY <1>2, <2>1 DEF LoadsBeforeAdvance
  <2>3. startIndex[c] # startIndex[d]
    BY <2>1, <2>2, ApartModulo
  <2>4. First(c) = startIndex[c] /\ First(d) = startIndex[d]
    <3>1. \A k \in Nat : (k % Len(nicIPs)) % Len(nicIPs) = k % Len(nicIPs)
      BY <2>1, ModMod
    <3> HIDE DEF NicInv, NicTypeOK
    <3> QED
      BY <2>1, <2>2, <3>1 DEF First
  <2> QED
    BY <2>3, <2>4
<1> QED
  BY <1>1, <1>2 DEF SpreadWhenApart


-----------------------------------------------------------------------------
(* The process, and what follows for it.                                   *)

(* The process runs its interfaces the way MultiNic says.                  *)
LEMMA ProcessStepIsNicStep == [Next]_vars => [NicNext]_nicVars
<1> SUFFICES ASSUME Next
             PROVE  [NicNext]_nicVars
  BY DEF vars
<1>1. ASSUME NEW c \in Conns, Arrive(c) \/ Serve(c)
      PROVE  NicNext \/ UNCHANGED nicVars
  <2>1. CASE Arrive(c) \/ OnDone(c)
    BY <2>1 DEF Arrive, OnDone
  <2>2. CASE ResolveStore(c)
    BY <2>2 DEF ResolveStore, NicNext
  <2>3. CASE CreateStore(c)
    BY <2>3 DEF CreateStore, NicNext
  <2>4. CASE OpenConnection(c)
    BY <2>4 DEF OpenConnection, NicNext
  <2> QED
    BY <1>1, <2>1, <2>2, <2>3, <2>4 DEF Serve
<1> QED
  BY <1>1 DEF Next

(* The process implements the sharing of interfaces.                       *)
THEOREM ProcessImplementsMultiNic == Spec => NicSpec
<1>1. Init => NicInit
  BY DEF Init
<1> QED
  BY <1>1, ProcessStepIsNicStep, PTL DEF Spec, NicSpec

LEMMA NicInvariant == Spec => []NicInv
<1>1. Init => NicInv
  BY NicInitInv DEF Init
<1>2. NicInv /\ [Next]_vars => NicInv'
  BY ProcessStepIsNicStep, NicStepInv
<1> QED
  BY <1>1, <1>2, PTL DEF Spec

(* Concurrent callbacks lose no step of the shared index.                  *)
THEOREM AdvancesAreCounted == Spec => []EveryAdvanceCounted
<1>1. NicInv => EveryAdvanceCounted
  BY NicInvSpreads
<1> QED
  BY <1>1, NicInvariant, PTL

(* Connections whose loads and advances do not overlap are spread over the *)
(* interfaces.                                                             *)
THEOREM Spreads == Spec => []SpreadWhenApart
<1>1. NicInv => SpreadWhenApart
  BY NicInvSpreads
<1> QED
  BY <1>1, NicInvariant, PTL

(* Every interface is tried before a connection goes without one.          *)
THEOREM TriesAllInterfaces == Spec => []DefaultOnlyAsLastResort
<1>1. NicInv => DefaultOnlyAsLastResort
  BY DEF NicInv
<1> QED
  BY <1>1, NicInvariant, PTL

(* Without an assignment during a callback, no socket is bound to anything *)
(* but an address of the list.                                             *)
THEOREM BindsToAddresses == Spec => []StrayOnlyWhenAssigned
<1>1. NicInv => StrayOnlyWhenAssigned
  BY DEF NicInv
<1> QED
  BY <1>1, NicInvariant, PTL

-----------------------------------------------------------------------------
(* The types of the process.                                               *)

LEMMA ServerTypeInit == Init => ServerTypeOK
<1> SUFFICES ASSUME Init
             PROVE  ServerTypeOK
  OBVIOUS
<1> USE ServerAssumption DEF Init
<1>1. NicTypeOK
  BY NicInitInv DEF NicInv
<1>2. DOMAIN config = {"file", "env", "service"} /\ DOMAIN config.service = Fields
  <2>1. PICK f \in Files, e \in Envs :
          config = [file |-> f, env |-> e, service |-> DefaultConfig]
    OBVIOUS
  <2>2. DOMAIN DefaultConfig = Fields
    BY DEF DefaultConfig
  <2> QED
    BY <2>1, <2>2
<1>3. call \in [Conns -> {"none", "resolving", "creating", "working", "done"}]
  OBVIOUS
<1>4. g_server \in BOOLEAN /\ enableMultiNic \in BOOLEAN /\ signals \in 0 .. MaxSignals
  <2>1. g_server \in BOOLEAN
    OBVIOUS
  <2>2. signals \in 0 .. MaxSignals
    OBVIOUS
  <2> QED
    BY <2>1, <2>2
<1> QED
  BY <1>1, <1>2, <1>3, <1>4 DEF ServerTypeOK

(* Main and the signal handler.                                            *)
LEMMA MainPreserves ==
  ASSUME ServerTypeOK, Main \/ SignalHandler,
         UNCHANGED <<nicVars, enableMultiNic, call, storeVars>>
  PROVE  ServerTypeOK'
<1> USE ServerAssumption DEF ServerTypeOK, storeVars, MainGoes
<1>1. NicTypeOK'
  BY DEF nicVars, locals, history, NicTypeOK
<1>2. CASE Configure
  <2>1. config' = [config EXCEPT !.service = ServiceConfigFrom(config.file, config.env)]
    BY <1>2 DEF Configure
  <2>2. /\ DOMAIN config' = {"file", "env", "service"}
        /\ DOMAIN config'.service = Fields
    <3>1. DOMAIN ServiceConfigFrom(config.file, config.env) = Fields
      BY DEF ServiceConfigFrom
    <3>2. /\ DOMAIN config' = {"file", "env", "service"}
          /\ config'.service = ServiceConfigFrom(config.file, config.env)
      BY <2>1
    <3> QED
      BY <3>1, <3>2
  <2> QED
    BY <1>1, <1>2, <2>2 DEF Configure
<1>3. CASE InitializeResolver
  BY <1>1, <1>3 DEF InitializeResolver, NoConfig, DefaultConfig
<1>4. CASE BuildAndStart
  BY <1>1, <1>4 DEF BuildAndStart
<1>5. CASE SetServer
  BY <1>1, <1>5 DEF SetServer
<1>6. CASE WaitReturns
  BY <1>1, <1>6 DEF WaitReturns
<1>7. CASE SignalHandler
  BY <1>1, <1>7 DEF SignalHandler
<1> QED
  BY <1>2, <1>3, <1>4, <1>5, <1>6, <1>7 DEF Main

(* The calls.                                                              *)
LEMMA CallsPreserve ==
  ASSUME ServerTypeOK, NEW c \in Conns, Arrive(c) \/ Serve(c),
         UNCHANGED <<processVars, enableMultiNic>>, NicTypeOK'
  PROVE  ServerTypeOK'
<1> USE ServerAssumption DEF ServerTypeOK, processVars, storeVars, CallGoes
<1>1. CASE Arrive(c)
  BY <1>1 DEF Arrive
<1>2. CASE ResolveStore(c)
  BY <1>2 DEF ResolveStore
<1>3. CASE CreateStore(c)
  BY <1>3 DEF CreateStore, StoreCreated, CreationFailed, Unlocks
<1>4. CASE OpenConnection(c)
  BY <1>4 DEF OpenConnection
<1>5. CASE OnDone(c)
  BY <1>5 DEF OnDone
<1> QED
  BY <1>1, <1>2, <1>3, <1>4, <1>5 DEF Serve

(* Every variable of the process keeps its type.                           *)
THEOREM TypeCorrect == Spec => []ServerTypeOK
<1>1. NicInv' /\ ServerTypeOK /\ [Next]_vars => ServerTypeOK'
  <2> SUFFICES ASSUME NicInv', ServerTypeOK, [Next]_vars
               PROVE  ServerTypeOK'
    OBVIOUS
  <2>1. NicTypeOK'
    BY DEF NicInv
  <2>2. CASE UNCHANGED vars
    BY <2>1, <2>2 DEF ServerTypeOK, vars, processVars, storeVars
  <2>3. CASE Next
    BY <2>1, <2>3, MainPreserves, CallsPreserve DEF Next
  <2> QED
    BY <2>2, <2>3
<1> QED
  BY <1>1, ServerTypeInit, NicInvariant, PTL DEF Spec

-----------------------------------------------------------------------------
(* The configuration.                                                      *)

Before == OpToRel(<, Nat)

(* Numbers, if there are any, have a least one.                            *)
LEMMA LeastOf ==
  ASSUME NEW T, T \subseteq Nat, T # {}
  PROVE  \E x \in T : \A y \in T : x <= y
<1>1. IsWellFoundedOn(Before, Nat)
  BY NatLessThanWellFounded DEF Before
<1>2. PICK x \in T : \A y \in T : <<y, x>> \notin Before
  BY <1>1, WFMin
<1>3. ASSUME NEW y \in T
      PROVE  x <= y
  <2>1. x \in Nat /\ y \in Nat
    OBVIOUS
  <2>2. y < x => <<y, x>> \in Before
    BY <2>1 DEF OpToRel, Before
  <2> QED
    BY <1>2, <2>1, <2>2
<1> QED
  BY <1>3

(* What is found for a key is one of its values, if all of these are       *)
(* strings.                                                                *)
LEMMA ExtractsOwnValue ==
  ASSUME NEW file \in Files, NEW f, NotString \notin OwnValues(file, f),
         ExtractStringValue(file, f) # NoValue
  PROVE  ExtractStringValue(file, f) \in OwnValues(file, f)
<1> DEFINE at == {i \in DOMAIN file : file[i].key = f}
           least(j) == \A k \in at : j <= k
           i == CHOOSE j \in at : least(j)
<1>1. file \in Seq([key : STRING, value : {NotString} \cup STRING])
  BY ServerAssumption
<1>2. at \subseteq Nat
  BY <1>1
<1>3. ExtractStringValue(file, f) =
        IF at = {} \/ (file[i].value = NotString /\ i = Len(file)) THEN NoValue
        ELSE IF file[i].value = NotString THEN file[i + 1].key
        ELSE file[i].value
  BY Zenon DEF ExtractStringValue
<1>4. at # {}
  BY <1>3, Zenon
<1>5. i \in at
  <2> HIDE DEF at
  <2>1. \E j \in at : least(j)
    BY <1>2, <1>4, LeastOf
  <2> QED
    BY <2>1, Zenon
<1>6. file[i].value \in OwnValues(file, f)
  <2> HIDE DEF i
  <2> QED
    BY <1>5 DEF OwnValues
<1> HIDE DEF at, i
<1>7. file[i].value # NotString
  BY <1>6
<1> QED
  BY <1>3, <1>4, <1>6, <1>7, Zenon

(* A configuration that main accepts is what was loaded and set.           *)
ConfigInv ==
  /\ main = "start" => config.file \in Files
  /\ main = "configured" =>
       /\ config.file \in Files
       /\ config.service = ServiceConfigFrom(config.file, config.env)
       /\ IsValid(config.service)

LEMMA ConfigFollows == ConfigInv => ConfigFromOneSource
<1> SUFFICES ASSUME ConfigInv, main = "configured",
                    \A f \in Fields : NotString \notin OwnValues(config.file, f),
                    NEW f \in Required
             PROVE  IF config.env[f] # "" THEN config.service[f] = config.env[f]
                    ELSE /\ config.service[f] \in OwnValues(config.file, f)
                         /\ \A g \in Required :
                              OwnValues(config.file, g) \ {""} # {}
  BY DEF ConfigFromOneSource
<1> DEFINE file == config.file
           env == config.env
           P == Parsed(file)
<1>1. /\ file \in Files /\ IsValid(config.service)
      /\ config.service = ServiceConfigFrom(file, env)
  BY DEF ConfigInv
<1>2. f \in Fields /\ \A g \in Required : g \in Fields
  BY DEF Fields
<1>3. config.service[f] = IF env[f] # "" THEN env[f]
                          ELSE IF Load(file) THEN P[f] ELSE DefaultConfig[f]
  BY <1>1, <1>2, Zenon DEF ServiceConfigFrom
<1>4. CASE env[f] # ""
  BY <1>3, <1>4
<1>5. CASE env[f] = ""
  <2>1. Load(file)
    <3> SUFFICES ASSUME ~Load(file)
                 PROVE  FALSE
      OBVIOUS
    <3>1. config.service[f] = DefaultConfig[f]
      BY <1>3, <1>5
    <3>2. f # "domainSuffix"
      BY DEF Required
    <3>3. DefaultConfig[f] = ""
      BY <1>2, <3>2 DEF DefaultConfig
    <3> QED
      BY <1>1, <1>2, <3>1, <3>3 DEF IsValid
  <2>2. ASSUME NEW g \in Required
        PROVE  P[g] \in OwnValues(file, g) /\ P[g] # ""
    <3>1. ExtractStringValue(file, g) # NoValue
      BY <2>1 DEF Load, ParseJson
    <3>2. P[g] = ExtractStringValue(file, g)
      BY <1>2, <3>1, Zenon DEF Parsed
    <3>3. NotString \notin OwnValues(file, g)
      BY <1>2
    <3>4. P[g] \in OwnValues(file, g)
      BY <1>1, <3>1, <3>2, <3>3, ExtractsOwnValue
    <3>5. P[g] # ""
      BY <1>2, <2>1 DEF Load, IsValid
    <3> QED
      BY <3>4, <3>5
  <2>3. config.service[f] = P[f]
    BY <1>3, <1>5, <2>1
  <2> QED
    BY <1>5, <2>2, <2>3
<1> QED
  BY <1>4, <1>5

LEMMA ConfigKept == ConfigInv /\ ServerTypeOK /\ [Next]_vars => ConfigInv'
<1> SUFFICES ASSUME ConfigInv, ServerTypeOK, [Next]_vars
             PROVE  ConfigInv'
  OBVIOUS
<1>1. CASE Configure
  <2>1. /\ config' = [config EXCEPT !.service =
                        ServiceConfigFrom(config.file, config.env)]
        /\ main = "start" /\ main' # "start"
        /\ main' = "configured" => IsValid(config'.service)
    BY <1>1 DEF Configure, MainGoes
  <2>2. DOMAIN config = {"file", "env", "service"}
    BY DEF ServerTypeOK
  <2>3. /\ config'.file = config.file /\ config'.env = config.env
        /\ config'.service = ServiceConfigFrom(config.file, config.env)
    BY <2>1, <2>2
  <2> QED
    BY <2>1, <2>3 DEF ConfigInv
<1>2. CASE InitializeResolver \/ BuildAndStart \/ SetServer \/ WaitReturns
  <2>1. main' \notin {"start", "configured"}
    BY <1>2 DEF InitializeResolver, BuildAndStart, SetServer, WaitReturns,
       MainGoes
  <2> QED
    BY <2>1 DEF ConfigInv
<1>3. CASE UNCHANGED <<main, config>>
  BY <1>3, Zenon DEF ConfigInv
<1> QED
  BY <1>1, <1>2, <1>3 DEF Next, Main, SignalHandler, vars, processVars

(* Whatever files and environments there are, if the file's values are     *)
(* strings: each required field of a configuration that main accepts is    *)
(* the environment's or the file's own, and a file contributes one only if *)
(* it has all of them, none empty.                                         *)
THEOREM ConfigHasOneSource == Spec => []ConfigFromOneSource
<1>1. Init => ConfigInv
  BY DEF Init, ConfigInv
<1> QED
  BY <1>1, ConfigKept, ConfigFollows, TypeCorrect, PTL DEF Spec

=============================================================================
