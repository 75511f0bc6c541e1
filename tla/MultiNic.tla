------------------------------- MODULE MultiNic -------------------------------
(***************************************************************************)
(* The multi-NIC part of the storage library: the process-wide list        *)
(* g_nicIPs, which Initialize of every store assigns anew, the shared      *)
(* index g_currentIndex, and the socket callback that libcurl calls on the *)
(* thread of a request when it opens a connection.  The callbacks take no  *)
(* lock: they read the list, load the index, advance it by compare and     *)
(* swap, and bind, one step each.                                          *)
(*                                                                         *)
(* The list is a std::vector.  A callback that reads it while it is being  *)
(* assigned, or past its end after it was, has undefined behaviour: it may *)
(* see any size and any address, and Stray stands for whatever is none (a  *)
(* crash included).                                                        *)
(***************************************************************************)
EXTENDS Naturals, Sequences, FiniteSets

CONSTANTS Conns,     \* connections that are opened
          Addresses, \* IPv4 addresses of interfaces
          Loopback,  \* 127.0.0.1
          Machines,  \* what getifaddrs may find: sequences of records of
                     \* family and address
          Stray,     \* memory that is no address
          Default,   \* a socket that is bound to no interface
          NoSocket,  \* before the socket is opened
          MaxRead    \* bound: the sizes a racing read may see

(* Those that count: IPv4, and not the loopback.                           *)
Usable(ifa) == ifa.family = "AF_INET" /\ ifa.address # Loopback

(* The addresses in the order of the interfaces.                           *)
DiscoverNetworkInterfaces(ifaddrs) ==
  LET usable == SelectSeq(ifaddrs, Usable)
  IN [i \in DOMAIN usable |-> usable[i].address]

(* getifaddrs fails, or not.                                               *)
NicLists == {<<>>} \cup {DiscoverNetworkInterfaces(m) : m \in Machines}

ASSUME NicAssumption ==
  /\ NicLists \subseteq Seq(Addresses)
  /\ {Default, NoSocket, Stray} \cap Addresses = {}
  /\ Default # NoSocket /\ Default # Stray /\ Stray # NoSocket
  /\ MaxRead \in Nat

VARIABLES nicIPs,       \* g_nicIPs
          assigning,    \* a store's Initialize is assigning it
          currentIndex, \* g_currentIndex
          opening,      \* [Conns -> where the callback is]
          numNics,      \* locals of the callback
          startIndex,
          current,
          attempt,
          bound         \* the address the socket was bound to

(* History variables: what the properties need and the code has not.       *)
VARIABLES advances,     \* how often the index was advanced
          loadedAt,     \* advances when the callback loaded the index
          ticket,       \* advances when it advanced the index itself
          refused,      \* positions it could not bind to
          overlapped,   \* a callback ran while the list was assigned
          resized       \* a list of another length came after an advance

locals == <<numNics, startIndex, current, attempt>>
history == <<advances, loadedAt, ticket, refused, overlapped, resized>>
nicVars == <<nicIPs, assigning, currentIndex, opening, locals, bound, history>>

InCallback(c) ==
  opening[c] \in {"entering", "sizing", "loading", "advancing", "binding"}

(* The type invariant.                                                     *)
NicTypeOK ==
  /\ nicIPs \in Seq(Addresses) /\ assigning \in BOOLEAN
  /\ currentIndex \in Nat /\ advances \in Nat
  /\ opening \in [Conns -> {"closed", "entering", "sizing", "loading",
                            "advancing", "binding", "open"}]
  /\ numNics \in [Conns -> Nat] /\ startIndex \in [Conns -> Nat]
  /\ current \in [Conns -> Nat] /\ attempt \in [Conns -> Nat]
  /\ bound \in [Conns -> Addresses \cup {Default, Stray, NoSocket}]
  /\ loadedAt \in [Conns -> Nat] /\ ticket \in [Conns -> Nat]
  /\ refused \in [Conns -> SUBSET Nat]
  /\ overlapped \in BOOLEAN /\ resized \in BOOLEAN

NicInit ==
  /\ nicIPs = <<>> /\ assigning = FALSE
  /\ currentIndex = 0 /\ advances = 0
  /\ opening = [c \in Conns |-> "closed"]
  /\ numNics = [c \in Conns |-> 0] /\ startIndex = [c \in Conns |-> 0]
  /\ current = [c \in Conns |-> 0] /\ attempt = [c \in Conns |-> 0]
  /\ bound = [c \in Conns |-> NoSocket]
  /\ loadedAt = [c \in Conns |-> 0] /\ ticket = [c \in Conns |-> 0]
  /\ refused = [c \in Conns |-> {}]
  /\ overlapped = FALSE /\ resized = FALSE

-----------------------------------------------------------------------------
(* Initialize, the part that assigns the list.  The resolver calls it with *)
(* its lock held, for one store at a time.                                 *)

StartAssign ==
  /\ ~assigning
  /\ assigning' = TRUE
  /\ overlapped' = (overlapped \/ \E c \in Conns : InCallback(c))
  /\ UNCHANGED <<nicIPs, currentIndex, opening, locals, bound, advances,
                 loadedAt, ticket, refused, resized>>

EndAssign(list) ==
  /\ assigning
  /\ assigning' = FALSE
  /\ nicIPs' = list
  /\ resized' = (resized \/ (advances > 0 /\ Len(list) # Len(nicIPs)))
  /\ UNCHANGED <<currentIndex, opening, locals, bound, advances, loadedAt,
                 ticket, refused, overlapped>>

-----------------------------------------------------------------------------
(* The callbacks.                                                          *)

(* What g_nicIPs.size() and g_nicIPs[i] may give.                          *)
SizeRead == IF assigning THEN 0 .. MaxRead ELSE {Len(nicIPs)}
AddressRead(i) ==
  IF assigning \/ i >= Len(nicIPs) THEN Addresses \cup {Stray}
  ELSE {nicIPs[i + 1]}

Goto(c, label) == opening' = [opening EXCEPT ![c] = label]

(* The socket is opened, and the callback returns it.                      *)
Opened(c, address) ==
  /\ Goto(c, "open")
  /\ bound' = [bound EXCEPT ![c] = address]

(* A look at whether the list is empty: if so, libcurl opens the socket or *)
(* the callback opens one without binding it.                              *)
UnlessEmpty(c, then) ==
  \E size \in SizeRead :
    \/ size = 0 /\ Opened(c, Default)
    \/ size # 0 /\ Goto(c, then) /\ UNCHANGED bound

(* A transport with the callback makes a handle for a new connection.      *)
MultiNicCurlCallback(c) ==
  /\ opening[c] = "closed"
  /\ UnlessEmpty(c, "entering")
  /\ overlapped' = (overlapped \/ assigning)
  /\ UNCHANGED <<nicIPs, assigning, currentIndex, locals, advances, loadedAt,
                 ticket, refused, resized>>

EnterSocketCallback(c) ==
  /\ opening[c] = "entering"
  /\ UnlessEmpty(c, "sizing")
  /\ UNCHANGED <<nicIPs, assigning, currentIndex, locals, history>>

ReadSize(c) ==
  /\ opening[c] = "sizing"
  /\ \E size \in SizeRead : numNics' = [numNics EXCEPT ![c] = size]
  /\ Goto(c, "loading")
  /\ UNCHANGED <<nicIPs, assigning, currentIndex, startIndex, current, attempt,
                 bound, history>>

LoadIndex(c) ==
  /\ opening[c] = "loading"
  /\ startIndex' = [startIndex EXCEPT ![c] = currentIndex]
  /\ current' = [current EXCEPT ![c] = currentIndex]
  /\ loadedAt' = [loadedAt EXCEPT ![c] = advances]
  /\ Goto(c, "advancing")
  /\ UNCHANGED <<nicIPs, assigning, currentIndex, numNics, attempt, bound,
                 advances, ticket, refused, overlapped, resized>>

(* Mutants: the index does not move; next is not computed again after a    *)
(* failed compare and swap.                                                *)
Stays(i, n) == IF i + 1 < n THEN i ELSE 0
NextOfStart(c) == IF startIndex[c] + 1 < numNics[c] THEN startIndex[c] + 1 ELSE 0

Successor(i, n) == IF i + 1 < n THEN i + 1 ELSE 0

next(c) == Successor(current[c], numNics[c])

(* compare_exchange_weak: on success the index moves on.  On failure the   *)
(* callback tries again from the value it saw (a spurious failure changes  *)
(* nothing); startIndex stays.                                             *)
AdvanceIndex(c) ==
  /\ opening[c] = "advancing"
  /\ \/ /\ current[c] = currentIndex
        /\ currentIndex' = next(c)
        /\ advances' = advances + 1
        /\ ticket' = [ticket EXCEPT ![c] = advances]
        /\ Goto(c, "binding")
        /\ UNCHANGED current
     \/ /\ current[c] # currentIndex
        /\ current' = [current EXCEPT ![c] = currentIndex]
        /\ UNCHANGED <<currentIndex, advances, ticket, opening>>
  /\ UNCHANGED <<nicIPs, assigning, numNics, startIndex, attempt, bound,
                 loadedAt, refused, overlapped, resized>>

(* Mutants: no wrap-around; the last interface is not tried.               *)
tryIndexUnwrapped(c) == startIndex[c] + attempt[c]
OneLess(c) == attempt[c] + 1 < numNics[c]

tryIndex(c) == (startIndex[c] + attempt[c]) % numNics[c]

MoreToTry(c) == attempt[c] < numNics[c]

(* The socket is made and bound, or one of the two fails; when all were    *)
(* tried, a default socket is what is left.                                *)
TryBind(c) ==
  /\ opening[c] = "binding" /\ MoreToTry(c)
  /\ \/ /\ \E address \in AddressRead(tryIndex(c)) : Opened(c, address)
        /\ UNCHANGED <<attempt, refused>>
     \/ /\ attempt' = [attempt EXCEPT ![c] = @ + 1]
        /\ refused' = [refused EXCEPT ![c] = @ \cup {tryIndex(c)}]
        /\ UNCHANGED <<opening, bound>>
  /\ UNCHANGED <<nicIPs, assigning, currentIndex, numNics, startIndex, current,
                 advances, loadedAt, ticket, overlapped, resized>>

FallBack(c) ==
  /\ opening[c] = "binding" /\ ~MoreToTry(c)
  /\ Opened(c, Default)
  /\ UNCHANGED <<nicIPs, assigning, currentIndex, locals, history>>

MultiNicSocketCallback(c) ==
  \/ EnterSocketCallback(c) \/ ReadSize(c) \/ LoadIndex(c) \/ AdvanceIndex(c)
  \/ TryBind(c) \/ FallBack(c)

NicNext ==
  \/ StartAssign
  \/ \E list \in NicLists : EndAssign(list)
  \/ \E c \in Conns : MultiNicCurlCallback(c) \/ MultiNicSocketCallback(c)

NicSpec == NicInit /\ [][NicNext]_nicVars

-----------------------------------------------------------------------------
(* Properties.                                                             *)

(* Callbacks that run at the same time lose no step of the shared index:   *)
(* it is where so many callbacks that advanced it one after the other      *)
(* would have left it.  (While the list keeps its length, and no callback  *)
(* reads it during an assignment.)                                         *)
Steady == ~overlapped /\ ~resized

EveryAdvanceCounted ==
  Steady /\ nicIPs # <<>> => currentIndex = advances % Len(nicIPs)

(* The interface that a callback tries first, once it has its turn.        *)
HasTurn(c) == opening[c] \in {"binding", "open"} /\ numNics[c] > 0
First(c) == startIndex[c] % numNics[c]

(* The round robin as it is: a connection whose callback loads the index   *)
(* after another has advanced it starts at another interface, until every  *)
(* interface had its turn.                                                 *)
SpreadWhenApart ==
  \A c, d \in Conns :
    /\ Steady /\ HasTurn(c) /\ HasTurn(d)
    /\ ticket[c] < loadedAt[d] /\ loadedAt[d] < loadedAt[c] + numNics[c]
    => First(c) # First(d)

(* "Round-robin selection with fallback to try all interfaces": any so     *)
(* many connections in a row as there are interfaces start at different    *)
(* ones, the order being the one of "Atomically increment for next caller". *)
RoundRobinSelection ==
  \A c, d \in Conns :
    /\ Steady /\ HasTurn(c) /\ HasTurn(d)
    /\ ticket[c] < ticket[d] /\ ticket[d] < ticket[c] + numNics[c]
    => First(c) # First(d)

(* A connection that has its turn goes without an interface only when not  *)
(* one could be bound: whatever index it starts at, it has tried them all. *)
DefaultOnlyAsLastResort ==
  \A c \in Conns :
    HasTurn(c) /\ bound[c] = Default => refused[c] = 0 .. numNics[c] - 1

(* A socket is bound to an address of the list, unless a store was         *)
(* initialised during the callback: also when the index is left over from  *)
(* a longer list.                                                          *)
StrayOnlyWhenAssigned ==
  ~overlapped => \A c \in Conns : bound[c] # Stray

=============================================================================
