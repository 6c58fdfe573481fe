--------------------------- MODULE DepositListener ---------------------------
(***************************************************************************)
(* DepositListenerService: polled scans of the finalized chain that credit *)
(* transfers from outside into members' wallets.  A scan reads the head,   *)
(* the cursor and the wallets, works off the transfers one at a time and   *)
(* saves the cursor last, so whatever ends it before that is scanned       *)
(* again.  Two instances of the backend may overlap during a deployment.   *)
(*                                                                         *)
(* A block carries one transfer, the only kind of content that is scanned. *)
(***************************************************************************)
EXTENDS Integers, Sequences

CONSTANTS
  Scanners,    \* instances of the listener
  Survivor,    \* the instance that keeps running in FairSpec
  Wallets,     \* members' wallet addresses
  Transfers,   \* what a block may carry: [from, to, token]
  MaxBlock,    \* bound: length of the chain
  MaxSpan,     \* maxBlockSpan: blocks of one scan
  MaxFaults    \* bound: failures, of a log, a scan or the process

VARIABLES
  blocks,      \* the finalized chain: a transfer per block
  registered,  \* wallets with a SmartWallet row
  cursor,      \* IndexerCursor.lastBlock, or Unset
  deposits,    \* blocks whose transfer has a Deposit row
  announced,   \* how often each block's transfer was announced
  failedLogs,  \* history: transfers whose handling threw
  started,     \* history: where the cursor was initialised, or Unset
  scanner,     \* where each instance is in its scan
  faults

vars == <<blocks, registered, cursor, deposits, announced, failedLogs, started,
          scanner, faults>>
world == <<blocks, registered>>
records == <<deposits, announced, failedLogs>>

Unset == -1
Resting == [at |-> "idle", head |-> 0, next |-> 0, to |-> 0, wallets |-> {}]
FinalizedHead == Len(blocks)

Init ==
  /\ blocks = << >>
  /\ registered = {}
  /\ cursor = Unset /\ started = Unset
  /\ deposits = {} /\ failedLogs = {}
  /\ announced = [b \in 1 .. MaxBlock |-> 0]
  /\ scanner = [s \in Scanners |-> Resting]
  /\ faults = 0

-----------------------------------------------------------------------------
(* The chain and the members.                                              *)

Register(w) ==
  /\ w \notin registered
  /\ registered' = registered \cup {w}
  /\ UNCHANGED <<blocks, cursor, started, records, scanner, faults>>

\* A member sends only from a wallet that exists.
Finalize(carried) ==
  /\ FinalizedHead < MaxBlock
  /\ carried.from \in Wallets => carried.from \in registered
  /\ blocks' = Append(blocks, carried)
  /\ UNCHANGED <<registered, cursor, started, records, scanner, faults>>

\* listed: the recipient had its row when the transfer was made.
Carried ==
  {[from |-> t.from, to |-> t.to, token |-> t.token, listed |-> t.to \in registered] :
     t \in Transfers}

-----------------------------------------------------------------------------
(* scanOnce.                                                               *)

ReadHead(s) ==
  /\ scanner[s].at = "idle"
  /\ scanner' = [scanner EXCEPT ![s] = [Resting EXCEPT !.at = "cursor", !.head = FinalizedHead]]
  /\ UNCHANGED <<world, cursor, started, records, faults>>

\* getCursor; without anything new to scan, the scan is over.
ReadCursor(s) ==
  /\ scanner[s].at = "cursor"
  /\ scanner' = [scanner EXCEPT ![s] =
       CASE cursor = Unset -> [@ EXCEPT !.at = "first"]
         [] cursor + 1 > @.head -> Resting
         [] OTHER -> [@ EXCEPT !.at = "wallets", !.next = cursor + 1,
              !.to = IF cursor + MaxSpan < scanner[s].head THEN cursor + MaxSpan ELSE scanner[s].head]]
  /\ UNCHANGED <<world, cursor, started, records, faults>>

\* The first run starts at the head; the name's unique row refuses a second
\* instance, whose scan throws.
CreateCursor(s) ==
  /\ scanner[s].at = "first"
  /\ scanner' = [scanner EXCEPT ![s] = Resting]
  /\ IF cursor = Unset
       THEN cursor' = scanner[s].head /\ started' = scanner[s].head
       ELSE UNCHANGED <<cursor, started>>
  /\ UNCHANGED <<world, records, faults>>

\* loadWalletIndex; nothing is fetched for nobody.
LoadWallets(s) ==
  /\ scanner[s].at = "wallets"
  /\ scanner' = [scanner EXCEPT ![s].wallets = registered,
                                ![s].at = IF registered = {} THEN "save" ELSE "logs"]
  /\ UNCHANGED <<world, cursor, started, records, faults>>

\* processTransferLog's filters: an unknown recipient, a member's own wallet,
\* a contract or the relayer of the protocol.
Credits(b, wallets) ==
  /\ blocks[b].to \in wallets
  /\ blocks[b].from \notin wallets \cup {"protocol"}

\* Where the scan goes after the transfer of block b.
Onward(s, b) == [scanner[s] EXCEPT !.next = b + 1, !.at = "logs"]

\* Faulty variant: a second row for the same log is not refused.
CreditAgain(s) ==
  LET b == scanner[s].next IN
  /\ scanner[s].at = "logs" /\ b <= scanner[s].to
  /\ deposits' = IF Credits(b, scanner[s].wallets) THEN deposits \cup {b} ELSE deposits
  /\ scanner' = [scanner EXCEPT ![s] =
       IF Credits(b, scanner[s].wallets) /\ blocks[b].token = "known"
         THEN [@ EXCEPT !.at = "announce"] ELSE Onward(s, b)]
  /\ UNCHANGED <<world, cursor, started, announced, failedLogs, faults>>

\* The Deposit row, unique per log; a token nobody knows is not announced.
Credit(s) ==
  LET b == scanner[s].next
      new == Credits(b, scanner[s].wallets) /\ b \notin deposits IN
  /\ scanner[s].at = "logs" /\ b <= scanner[s].to
  /\ deposits' = IF new THEN deposits \cup {b} ELSE deposits
  /\ scanner' = [scanner EXCEPT ![s] =
       IF new /\ blocks[b].token = "known" THEN [@ EXCEPT !.at = "announce"] ELSE Onward(s, b)]
  /\ UNCHANGED <<world, cursor, started, announced, failedLogs, faults>>

Announce(s) ==
  LET b == scanner[s].next IN
  /\ scanner[s].at = "announce"
  /\ announced' = [announced EXCEPT ![b] = @ + 1]
  /\ scanner' = [scanner EXCEPT ![s] = Onward(s, b)]
  /\ UNCHANGED <<world, cursor, started, deposits, failedLogs, faults>>

\* One bad log must not stall the cursor: the error is logged and passed over.
LogFails(s) ==
  LET b == scanner[s].next IN
  /\ scanner[s].at = "logs" /\ b <= scanner[s].to /\ faults < MaxFaults
  /\ Credits(b, scanner[s].wallets)
  /\ failedLogs' = failedLogs \cup {b}
  /\ scanner' = [scanner EXCEPT ![s] = Onward(s, b)]
  /\ faults' = faults + 1
  /\ UNCHANGED <<world, cursor, started, deposits, announced>>

\* Faulty variant: the cursor goes to the head, past what one scan may cover.
SaveHead(s) ==
  /\ \/ scanner[s].at = "save"
     \/ scanner[s].at = "logs" /\ scanner[s].next > scanner[s].to
  /\ cursor' = scanner[s].head
  /\ scanner' = [scanner EXCEPT ![s] = Resting]
  /\ UNCHANGED <<world, started, records, faults>>

SaveCursor(s) ==
  /\ \/ scanner[s].at = "save"
     \/ scanner[s].at = "logs" /\ scanner[s].next > scanner[s].to
  /\ cursor' = scanner[s].to
  /\ scanner' = [scanner EXCEPT ![s] = Resting]
  /\ UNCHANGED <<world, started, records, faults>>

\* The scan throws, or the process restarts: tick starts over from the cursor.
TickFails(s) ==
  /\ scanner[s].at # "idle" /\ faults < MaxFaults
  /\ scanner' = [scanner EXCEPT ![s] = Resting]
  /\ faults' = faults + 1
  /\ UNCHANGED <<world, cursor, started, records>>

-----------------------------------------------------------------------------
ScanStep(s) ==
  \/ ReadHead(s) \/ ReadCursor(s) \/ CreateCursor(s) \/ LoadWallets(s)
  \/ Credit(s) \/ Announce(s) \/ SaveCursor(s)

Next ==
  \/ \E s \in Scanners : ScanStep(s) \/ LogFails(s) \/ TickFails(s)
  \/ \E w \in Wallets : Register(w)
  \/ \E carried \in Carried : Finalize(carried)

Spec == Init /\ [][Next]_vars
\* The timer is set again after every scan, whatever became of it; the other
\* instances may stop for good wherever they are.
FairSpec == Spec /\ WF_vars(ScanStep(Survivor))

-----------------------------------------------------------------------------
(* Properties.                                                             *)

\* The records keep their shape.
TypeOK ==
  /\ registered \subseteq Wallets
  /\ cursor \in {Unset} \cup (0 .. MaxBlock)
  /\ deposits \subseteq DOMAIN blocks /\ failedLogs \subseteq DOMAIN blocks
  /\ faults \in 0 .. MaxFaults

\* Scans that overlap, fail or start over never credit a transfer twice, and a
\* transfer between members or from the protocol, which its own service
\* records, is never credited as a deposit.
DepositsCreditedOnce ==
  \A b \in DOMAIN blocks :
    /\ announced[b] <= 1
    /\ announced[b] = 1 => b \in deposits
    /\ b \in deposits => blocks[b].from \notin Wallets \cup {"protocol"}

\* The transfers that are owed to a member: from outside, into a wallet that
\* had its row, after the first run.
Owed(b) ==
  started # Unset /\ b > started /\ blocks[b].listed /\ Credits(b, Wallets)

\* The cursor never passes a transfer that is owed to a member, unless handling
\* that very log failed: scanOnce saves it after the logs, so neither a stale
\* instance that saves it last, nor a restart, nor a member who registers while
\* a scan is on its way can make the listener skip a deposit.
NothingPassedOver ==
  cursor # Unset => \A b \in 1 .. cursor : Owed(b) => b \in deposits \cup failedLogs

\* Every transfer that is owed to a member is credited in the end, unless
\* handling that very log failed: however often scans fail or overlap, and
\* although a stale instance may move the cursor, the listener catches up.
DepositsArrive ==
  []<>(\A b \in DOMAIN blocks : Owed(b) => b \in deposits \cup failedLogs)
=============================================================================
