-------------------------- MODULE SettlementProofs --------------------------
(***************************************************************************)
(* DepositListener credits a transfer at most once and never skips one,    *)
(* for any number of instances that overlap, fail and start over, any      *)
(* chain and any members.                                                  *)
(* The liveness of the two background jobs stays with TLC.                 *)
(***************************************************************************)
EXTENDS MCSettlement, SequenceTheorems, TLAPS

-----------------------------------------------------------------------------
(* The inductive invariant.                                                *)

Bodies ==
  [from : {t.from : t \in Transfers}, to : {t.to : t \in Transfers},
   token : {t.token : t \in Transfers}, listed : BOOLEAN]
Scans ==
  [at : {"idle", "cursor", "first", "wallets", "save", "logs", "announce"},
   head : Nat, next : Nat, to : Nat, wallets : SUBSET Wallets]

ListenerShapes ==
  /\ blocks \in Seq(Bodies) /\ Len(blocks) <= MaxBlock
  /\ registered \subseteq Wallets
  /\ cursor \in Nat \cup {Deposits!Unset} /\ cursor <= Len(blocks)
  /\ deposits \subseteq 1 .. Len(blocks)
  /\ announced \in [1 .. MaxBlock -> Nat]
  /\ scanner \in [Scanners -> Scans]

\* Members send from wallets that are registered.
SendersKnown(wallets, top) ==
  \A b \in 1 .. top : blocks[b].from \in Wallets => blocks[b].from \in wallets

\* The head was read before the wallets: whoever sent in the blocks of a scan
\* is in its index.  Who announces has just written the row.
ScanHolds(r) ==
  /\ r.head <= Len(blocks)
  /\ r.at \in {"wallets", "save", "logs", "announce"} => r.to <= Len(blocks) /\ r.next >= 1
  /\ r.at \in {"logs", "announce"} => SendersKnown(r.wallets, r.to)
  /\ r.at = "announce" => /\ r.next <= r.to /\ r.next \in deposits
                          /\ announced[r.next] = 0

\* And alone: the row of a log is unique.
OneAnnouncer ==
  \A r, s \in Scanners :
    r # s /\ scanner[r].at = "announce" /\ scanner[s].at = "announce" =>
      scanner[r].next # scanner[s].next

ListenerRows ==
  /\ \A b \in 1 .. MaxBlock : announced[b] <= 1 /\ (announced[b] = 1 => b \in deposits)
  /\ \A b \in deposits : blocks[b].from \notin Wallets \cup {"protocol"}

ListenerInv ==
  /\ ListenerShapes /\ SendersKnown(registered, Len(blocks)) /\ OneAnnouncer /\ ListenerRows
  /\ \A s \in Scanners : ScanHolds(scanner[s])

-----------------------------------------------------------------------------
(* The proof.                                                              *)

LEMMA RestingScan ==
  /\ Deposits!Resting \in Scans
  /\ Deposits!Resting.at = "idle" /\ Deposits!Resting.head = 0
BY DEF Deposits!Resting, Scans

LEMMA ListenerInit == Deposits!Init => ListenerInv
<1> SUFFICES ASSUME Deposits!Init PROVE ListenerInv
  OBVIOUS
<1>1. blocks = << >> /\ Len(blocks) = 0 /\ blocks \in Seq(Bodies) /\ 1 .. Len(blocks) = {}
  BY DEF Deposits!Init
<1>2. scanner \in [Scanners -> Scans] /\ \A s \in Scanners : scanner[s] = Deposits!Resting
  BY RestingScan DEF Deposits!Init
<1>3. cursor = Deposits!Unset /\ Deposits!Unset = -1
  BY DEF Deposits!Init, Deposits!Unset
<1>4. ListenerShapes
  BY <1>1, <1>2, <1>3, ListenerAssumption DEF Deposits!Init, ListenerShapes
<1>5. \A s \in Scanners : ScanHolds(scanner[s])
  BY <1>1, <1>2, RestingScan DEF ScanHolds
<1>6. SendersKnown(registered, Len(blocks)) /\ ListenerRows
  BY <1>1, ListenerAssumption DEF Deposits!Init, SendersKnown, ListenerRows
<1>7. OneAnnouncer
  BY <1>2, RestingScan DEF OneAnnouncer
<1> QED
  BY <1>4, <1>5, <1>6, <1>7 DEF ListenerInv

\* A scan goes on and neither credits nor announces.
LEMMA ScanMoves ==
  ASSUME ListenerInv, NEW s \in Scanners, NEW r \in Scans,
         scanner' = [scanner EXCEPT ![s] = r], ScanHolds(r), r.at # "announce",
         UNCHANGED <<blocks, registered, deposits, announced>>,
         cursor' \in Nat \cup {Deposits!Unset}, cursor' <= Len(blocks)
  PROVE  ListenerInv'
<1>1. ListenerShapes /\ scanner \in [Scanners -> Scans]
  BY DEF ListenerInv, ListenerShapes
<1>2. scanner'[s] = r /\ \A o \in Scanners : o # s => scanner'[o] = scanner[o]
  BY <1>1
<1>3. ListenerShapes'
  BY <1>1 DEF ListenerShapes, Deposits!Unset
<1>4. SendersKnown(registered, Len(blocks))' /\ ListenerRows'
  BY DEF ListenerInv, SendersKnown, ListenerRows
<1>5. OneAnnouncer'
  BY <1>2 DEF ListenerInv, OneAnnouncer
<1>6. ASSUME NEW o \in Scanners PROVE ScanHolds(scanner[o])'
  <2>1. CASE o = s
    BY <1>2, <2>1 DEF ScanHolds, SendersKnown
  <2>2. CASE o # s
    BY <1>2, <2>2 DEF ListenerInv, ScanHolds, SendersKnown
  <2> QED
    BY <2>1, <2>2
<1> QED
  BY <1>3, <1>4, <1>5, <1>6 DEF ListenerInv

LEMMA ReadHeadStep ==
  ASSUME ListenerInv, NEW s \in Scanners, Deposits!ReadHead(s) PROVE ListenerInv'
<1> DEFINE r == [Deposits!Resting EXCEPT !.at = "cursor", !.head = Deposits!FinalizedHead]
<1>1. ListenerShapes /\ Len(blocks) \in Nat
  BY DEF ListenerInv, ListenerShapes
<1>2. r \in Scans /\ r.at = "cursor" /\ r.head = Len(blocks)
  BY <1>1 DEF Deposits!Resting, Deposits!FinalizedHead, Scans
<1>3. ScanHolds(r)
  BY <1>1, <1>2 DEF ScanHolds
<1>4. scanner' = [scanner EXCEPT ![s] = r]
  BY DEF Deposits!ReadHead
<1>5. UNCHANGED <<blocks, registered, deposits, announced, cursor>>
  BY DEF Deposits!ReadHead, Deposits!world, Deposits!records
<1> HIDE DEF r
<1> QED
  BY <1>1, <1>2, <1>3, <1>4, <1>5, ScanMoves DEF ListenerShapes

LEMMA ReadCursorStep ==
  ASSUME ListenerInv, NEW s \in Scanners, Deposits!ReadCursor(s) PROVE ListenerInv'
<1> DEFINE old == scanner[s]
           top == IF cursor + MaxSpan < old.head THEN cursor + MaxSpan ELSE old.head
<1>1. ListenerShapes /\ Len(blocks) \in Nat /\ old \in Scans /\ old.head <= Len(blocks)
  BY DEF ListenerInv, ListenerShapes, ScanHolds
<1>2. UNCHANGED <<blocks, registered, deposits, announced, cursor>>
  BY DEF Deposits!ReadCursor, Deposits!world, Deposits!records
<1>3. scanner \in [Scanners -> Scans]
  BY <1>1 DEF ListenerShapes
<1>4. CASE cursor = Deposits!Unset
  <2> DEFINE r == [old EXCEPT !.at = "first"]
  <2>0. ~(cursor + 1 > old.head)
    BY <1>1, <1>4 DEF Scans, Deposits!Unset
  <2>1. scanner' = [scanner EXCEPT ![s] = r]
    BY <1>3, <1>4, <2>0 DEF Deposits!ReadCursor
  <2>2. r \in Scans /\ r.at = "first" /\ r.head = old.head
    BY <1>1 DEF Scans
  <2>3. ScanHolds(r)
    BY <1>1, <2>2 DEF ScanHolds
  <2> HIDE DEF r
  <2> QED
    BY <1>1, <1>2, <2>1, <2>2, <2>3, ScanMoves DEF ListenerShapes
<1>5. CASE cursor # Deposits!Unset /\ cursor + 1 > old.head
  <2>1. scanner' = [scanner EXCEPT ![s] = Deposits!Resting]
    BY <1>3, <1>5 DEF Deposits!ReadCursor
  <2>2. ScanHolds(Deposits!Resting)
    BY <1>1, RestingScan DEF ScanHolds
  <2> QED
    BY <1>1, <1>2, <2>1, <2>2, RestingScan, ScanMoves DEF ListenerShapes
<1>6. CASE cursor # Deposits!Unset /\ ~(cursor + 1 > old.head)
  <2> DEFINE r == [old EXCEPT !.at = "wallets", !.next = cursor + 1, !.to = top]
  <2>1. scanner' = [scanner EXCEPT ![s] = r]
    BY <1>3, <1>6 DEF Deposits!ReadCursor
  <2>2. cursor \in Nat /\ old.head \in Nat
    BY <1>1, <1>6 DEF ListenerShapes, Scans
  <2>3. top \in Nat /\ top <= Len(blocks)
    BY <1>1, <2>2, ListenerAssumption
  <2>4. r \in Scans /\ r.at = "wallets" /\ r.head = old.head /\ r.next = cursor + 1 /\ r.to = top
    <3> HIDE DEF top, old
    <3>1. old \in Scans /\ cursor + 1 \in Nat
      BY <1>1, <2>2
    <3> QED
      BY <2>3, <3>1 DEF Scans
  <2> HIDE DEF r, top
  <2>5. ScanHolds(r)
    BY <1>1, <2>2, <2>3, <2>4 DEF ScanHolds
  <2> QED
    BY <1>1, <1>2, <2>1, <2>4, <2>5, ScanMoves DEF ListenerShapes
<1> QED
  BY <1>4, <1>5, <1>6

\* A scan that ends, well or not.
LEMMA RestStep ==
  ASSUME ListenerInv, NEW s \in Scanners,
         Deposits!CreateCursor(s) \/ Deposits!SaveCursor(s) \/ Deposits!TickFails(s)
  PROVE  ListenerInv'
<1>1. ListenerShapes /\ Len(blocks) \in Nat /\ scanner[s] \in Scans /\ ScanHolds(scanner[s])
  BY DEF ListenerInv, ListenerShapes
<1>2. scanner' = [scanner EXCEPT ![s] = Deposits!Resting]
  BY DEF Deposits!CreateCursor, Deposits!SaveCursor, Deposits!TickFails
<1>3. UNCHANGED <<blocks, registered, deposits, announced>>
  BY DEF Deposits!CreateCursor, Deposits!SaveCursor, Deposits!TickFails,
         Deposits!world, Deposits!records
<1>4. cursor' = cursor \/ cursor' = scanner[s].head
      \/ (cursor' = scanner[s].to /\ scanner[s].at \in {"save", "logs"})
  BY DEF Deposits!CreateCursor, Deposits!SaveCursor, Deposits!TickFails
<1>5. cursor' \in Nat \cup {Deposits!Unset} /\ cursor' <= Len(blocks)
  BY <1>1, <1>4 DEF ListenerShapes, ScanHolds, Scans
<1>6. ScanHolds(Deposits!Resting)
  BY <1>1, RestingScan DEF ScanHolds
<1> QED
  BY <1>2, <1>3, <1>5, <1>6, RestingScan, ScanMoves

LEMMA LoadWalletsStep ==
  ASSUME ListenerInv, NEW s \in Scanners, Deposits!LoadWallets(s) PROVE ListenerInv'
<1> DEFINE old == scanner[s]
           at == IF registered = {} THEN "save" ELSE "logs"
           r == [old EXCEPT !.wallets = registered, !.at = at]
<1>1. ListenerShapes /\ Len(blocks) \in Nat /\ old \in Scans /\ ScanHolds(old)
      /\ scanner \in [Scanners -> Scans]
  BY DEF ListenerInv, ListenerShapes
<1>2. scanner' = [scanner EXCEPT ![s] = r] /\ old.at = "wallets"
  BY <1>1 DEF Deposits!LoadWallets, Scans
<1>3. UNCHANGED <<blocks, registered, deposits, announced, cursor>>
  BY DEF Deposits!LoadWallets, Deposits!world, Deposits!records
<1>4. r \in Scans /\ r.at \in {"save", "logs"} /\ r.head = old.head /\ r.next = old.next
      /\ r.to = old.to /\ r.wallets = registered
  BY <1>1 DEF ListenerShapes, Scans
<1>5. SendersKnown(registered, old.to)
  BY <1>1, <1>2 DEF ListenerInv, ScanHolds, SendersKnown, Scans
<1> HIDE DEF r
<1>6. ScanHolds(r)
  BY <1>1, <1>2, <1>4, <1>5 DEF ScanHolds
<1> QED
  BY <1>1, <1>2, <1>3, <1>4, <1>6, ScanMoves DEF ListenerShapes

\* The scan that goes on behind block b.
LEMMA OnwardHolds ==
  ASSUME ListenerInv, NEW s \in Scanners, scanner[s].at \in {"logs", "announce"}
  PROVE  /\ Deposits!Onward(s, scanner[s].next) \in Scans
         /\ Deposits!Onward(s, scanner[s].next).at = "logs"
         /\ ScanHolds(Deposits!Onward(s, scanner[s].next))
<1> DEFINE old == scanner[s]
           r == [old EXCEPT !.next = old.next + 1, !.at = "logs"]
<1>1. old \in Scans /\ ScanHolds(old)
  BY DEF ListenerInv, ListenerShapes
<1>2. r \in Scans /\ r.at = "logs" /\ r.head = old.head /\ r.next = old.next + 1
      /\ r.to = old.to /\ r.wallets = old.wallets
  <2>1. old \in Scans /\ old.next + 1 \in Nat
    BY <1>1 DEF Scans
  <2> HIDE DEF old
  <2> QED
    BY <2>1 DEF Scans
<1>3. old.next \in Nat
  BY <1>1 DEF Scans
<1>4. Deposits!Onward(s, scanner[s].next) = r
  BY DEF Deposits!Onward
<1> HIDE DEF r
<1>5. ScanHolds(r)
  BY <1>1, <1>2, <1>3 DEF ScanHolds
<1> QED
  BY <1>2, <1>4, <1>5

\* A row is written: from a sender that is no member, for a block that nobody
\* announced or is about to announce.
LEMMA NewRow ==
  ASSUME ListenerInv, NEW s \in Scanners, scanner[s].at = "logs",
         scanner[s].next <= scanner[s].to,
         Deposits!Credits(scanner[s].next, scanner[s].wallets), scanner[s].next \notin deposits
  PROVE  /\ scanner[s].next \in 1 .. Len(blocks)
         /\ blocks[scanner[s].next].from \notin Wallets \cup {"protocol"}
         /\ announced[scanner[s].next] = 0
         /\ \A o \in Scanners : scanner[o].at = "announce" => scanner[o].next # scanner[s].next
<1>1. ListenerShapes /\ Len(blocks) \in Nat /\ scanner[s] \in Scans /\ ScanHolds(scanner[s])
  BY DEF ListenerInv, ListenerShapes
<1>2. scanner[s].next \in Nat /\ scanner[s].to \in Nat
  BY <1>1 DEF Scans
<1>3. scanner[s].next \in 1 .. scanner[s].to /\ scanner[s].next \in 1 .. Len(blocks)
  BY <1>1, <1>2 DEF ScanHolds
<1>4. blocks[scanner[s].next].from \notin Wallets \cup {"protocol"}
  BY <1>1, <1>3 DEF ScanHolds, SendersKnown, Deposits!Credits
<1>5. scanner[s].next \in 1 .. MaxBlock
  BY <1>1, <1>3, ListenerAssumption DEF ListenerShapes
<1>6. announced[scanner[s].next] = 0
  BY <1>1, <1>5 DEF ListenerInv, ListenerRows, ListenerShapes
<1>7. \A o \in Scanners : scanner[o].at = "announce" => scanner[o].next \in deposits
  BY DEF ListenerInv, ScanHolds
<1> QED
  BY <1>3, <1>4, <1>6, <1>7

LEMMA PassedOver ==
  ASSUME ListenerInv, NEW s \in Scanners, scanner[s].at = "logs",
         scanner' = [scanner EXCEPT ![s] = Deposits!Onward(s, scanner[s].next)],
         UNCHANGED <<blocks, registered, cursor, deposits, announced>>
  PROVE  ListenerInv'
BY OnwardHolds, ScanMoves DEF ListenerInv, ListenerShapes

LEMMA CreditStep ==
  ASSUME ListenerInv, NEW s \in Scanners, Deposits!Credit(s) PROVE ListenerInv'
<1> DEFINE old == scanner[s]
           b == old.next
           new == Deposits!Credits(b, old.wallets) /\ b \notin deposits
<1>1. ListenerShapes /\ Len(blocks) \in Nat /\ old \in Scans /\ ScanHolds(old)
      /\ scanner \in [Scanners -> Scans]
  BY DEF ListenerInv, ListenerShapes
<1>2. old.at = "logs" /\ b <= old.to
      /\ UNCHANGED <<blocks, registered, announced, cursor>>
  BY DEF Deposits!Credit, Deposits!world
<1>3. CASE ~new
  <2>1. scanner' = [scanner EXCEPT ![s] = Deposits!Onward(s, b)] /\ deposits' = deposits
    BY <1>1, <1>3 DEF Deposits!Credit
  <2> QED
    BY <1>2, <2>1, PassedOver
<1>4. CASE new
  <2>1. /\ b \in 1 .. Len(blocks) /\ blocks[b].from \notin Wallets \cup {"protocol"}
        /\ announced[b] = 0
        /\ \A o \in Scanners : scanner[o].at = "announce" => scanner[o].next # b
    BY <1>2, <1>4, NewRow
  <2>2. deposits' = deposits \cup {b}
    BY <1>4 DEF Deposits!Credit
  <2>3. PICK r \in Scans : scanner' = [scanner EXCEPT ![s] = r]
          /\ r.at \in {"logs", "announce"} /\ ScanHolds(r)' /\ (r.at = "announce" => r.next = b)
    <3>1. CASE blocks[b].token = "known"
      <4>1. PICK q \in Scans : q = [old EXCEPT !.at = "announce"]
        BY <1>1 DEF Scans
      <4>2. scanner' = [scanner EXCEPT ![s] = q]
        BY <1>1, <1>4, <3>1, <4>1 DEF Deposits!Credit
      <4>3. q.at = "announce" /\ q.head = old.head /\ q.next = b
            /\ q.to = old.to /\ q.wallets = old.wallets
        BY <1>1, <4>1 DEF Scans
      <4>4. /\ q.head <= Len(blocks) /\ q.to <= Len(blocks) /\ q.next >= 1 /\ q.next <= q.to
            /\ SendersKnown(q.wallets, q.to)
        BY <1>1, <1>2, <4>3 DEF ScanHolds
      <4>5. ScanHolds(q)'
        BY <1>2, <2>1, <2>2, <4>3, <4>4 DEF ScanHolds, SendersKnown
      <4> QED
        BY <4>2, <4>3, <4>5
    <3>2. CASE blocks[b].token # "known"
      <4>1. PICK q \in Scans : q = Deposits!Onward(s, b)
        BY <1>2, OnwardHolds
      <4>2. scanner' = [scanner EXCEPT ![s] = q]
        BY <1>1, <1>4, <3>2, <4>1 DEF Deposits!Credit
      <4>3. q.at = "logs" /\ ScanHolds(q)
        BY <1>2, <4>1, OnwardHolds
      <4>4. ScanHolds(q)'
        BY <1>2, <4>3 DEF ScanHolds, SendersKnown
      <4> QED
        BY <4>2, <4>3, <4>4
    <3> QED
      BY <3>1, <3>2
  <2>4. scanner'[s] = r /\ \A o \in Scanners : o # s => scanner'[o] = scanner[o]
    BY <1>1, <2>3
  <2>5. ListenerShapes'
    BY <1>1, <1>2, <2>1, <2>2, <2>3 DEF ListenerShapes
  <2>6. SendersKnown(registered, Len(blocks))' /\ ListenerRows'
    BY <1>2, <2>1, <2>2 DEF ListenerInv, SendersKnown, ListenerRows
  <2>7. OneAnnouncer'
    BY <2>1, <2>3, <2>4 DEF ListenerInv, OneAnnouncer
  <2>8. ASSUME NEW o \in Scanners PROVE ScanHolds(scanner[o])'
    <3>1. CASE o = s
      BY <2>3, <2>4, <3>1 DEF ScanHolds, SendersKnown
    <3>2. CASE o # s
      BY <1>2, <2>2, <2>4, <3>2 DEF ListenerInv, ScanHolds, SendersKnown
    <3> QED
      BY <3>1, <3>2
  <2> QED
    BY <2>5, <2>6, <2>7, <2>8 DEF ListenerInv
<1> QED
  BY <1>3, <1>4

LEMMA AnnounceStep ==
  ASSUME ListenerInv, NEW s \in Scanners, Deposits!Announce(s) PROVE ListenerInv'
<1> DEFINE b == scanner[s].next
<1>1. ListenerShapes /\ Len(blocks) \in Nat /\ scanner[s] \in Scans /\ ScanHolds(scanner[s])
      /\ scanner \in [Scanners -> Scans] /\ announced \in [1 .. MaxBlock -> Nat]
  BY DEF ListenerInv, ListenerShapes
<1>2. scanner[s].at = "announce" /\ scanner' = [scanner EXCEPT ![s] = Deposits!Onward(s, b)]
      /\ announced' = [announced EXCEPT ![b] = announced[b] + 1]
      /\ UNCHANGED <<blocks, registered, cursor, deposits>>
  BY DEF Deposits!Announce, Deposits!world
<1>3. PICK r \in Scans : r = Deposits!Onward(s, b) /\ r.at = "logs" /\ ScanHolds(r)
  BY <1>2, OnwardHolds
<1>4. b \in deposits /\ announced[b] = 0
  BY <1>1, <1>2 DEF ScanHolds
<1>5. b \in 1 .. Len(blocks) /\ b \in 1 .. MaxBlock
  <2>1. deposits \subseteq 1 .. Len(blocks) /\ Len(blocks) <= MaxBlock
    BY <1>1 DEF ListenerShapes
  <2> HIDE DEF b
  <2> QED
    BY <1>1, <1>4, <2>1, ListenerAssumption
<1>6. announced' \in [1 .. MaxBlock -> Nat] /\ announced'[b] = 1
      /\ \A c \in 1 .. MaxBlock : c # b => announced'[c] = announced[c]
  BY <1>1, <1>2, <1>4, <1>5
<1>7. scanner'[s] = r /\ \A o \in Scanners : o # s => scanner'[o] = scanner[o]
  BY <1>1, <1>2, <1>3
<1>8. ListenerShapes'
  BY <1>1, <1>2, <1>3, <1>6 DEF ListenerShapes
<1>9. SendersKnown(registered, Len(blocks))'
  BY <1>2 DEF ListenerInv, SendersKnown
<1>10. ListenerRows'
  BY <1>2, <1>4, <1>6 DEF ListenerInv, ListenerRows
<1>11. OneAnnouncer'
  BY <1>3, <1>7 DEF ListenerInv, OneAnnouncer
<1>12. ASSUME NEW o \in Scanners PROVE ScanHolds(scanner[o])'
  <2>1. CASE o = s
    BY <1>2, <1>3, <1>7, <2>1 DEF ScanHolds, SendersKnown
  <2>2. CASE o # s
    <3>1. ScanHolds(scanner[o]) /\ scanner'[o] = scanner[o]
      BY <1>7, <2>2 DEF ListenerInv
    <3>2. scanner[o].at = "announce" =>
            scanner[o].next \in 1 .. MaxBlock /\ scanner[o].next # b
      <4>1. scanner[o].at = "announce" => scanner[o].next \in deposits /\ scanner[o].next # b
        BY <1>2, <2>2, <3>1 DEF ListenerInv, OneAnnouncer, ScanHolds
      <4>2. deposits \subseteq 1 .. MaxBlock
        BY <1>1, ListenerAssumption DEF ListenerShapes
      <4> QED
        BY <4>1, <4>2
    <3> QED
      BY <1>2, <1>6, <3>1, <3>2 DEF ScanHolds, SendersKnown
  <2> QED
    BY <2>1, <2>2
<1> QED
  BY <1>8, <1>9, <1>10, <1>11, <1>12 DEF ListenerInv

LEMMA LogFailsStep ==
  ASSUME ListenerInv, NEW s \in Scanners, Deposits!LogFails(s) PROVE ListenerInv'
<1>1. /\ scanner[s].at = "logs"
      /\ scanner' = [scanner EXCEPT ![s] = Deposits!Onward(s, scanner[s].next)]
      /\ UNCHANGED <<blocks, registered, cursor, deposits, announced>>
  BY DEF Deposits!LogFails, Deposits!world
<1> QED
  BY <1>1, PassedOver

LEMMA RegisterStep ==
  ASSUME ListenerInv, NEW w \in Wallets, Deposits!Register(w) PROVE ListenerInv'
<1>1. registered' = registered \cup {w} /\ UNCHANGED <<blocks, cursor, deposits, announced, scanner>>
  BY DEF Deposits!Register, Deposits!records
<1>2. ListenerShapes' /\ ListenerRows' /\ OneAnnouncer'
  BY <1>1 DEF ListenerInv, ListenerShapes, ListenerRows, OneAnnouncer
<1>3. SendersKnown(registered, Len(blocks))'
  BY <1>1 DEF ListenerInv, SendersKnown
<1>4. \A s \in Scanners : ScanHolds(scanner[s])'
  BY <1>1 DEF ListenerInv, ScanHolds, SendersKnown
<1> QED
  BY <1>2, <1>3, <1>4 DEF ListenerInv

\* The chain grows behind every scan.
LEMMA FinalizeStep ==
  ASSUME ListenerInv, NEW body \in Deposits!Carried, Deposits!Finalize(body) PROVE ListenerInv'
<1>1. ListenerShapes /\ blocks \in Seq(Bodies) /\ Len(blocks) \in Nat
  BY DEF ListenerInv, ListenerShapes
<1>2. blocks' = Append(blocks, body) /\ Len(blocks) < MaxBlock
      /\ (body.from \in Wallets => body.from \in registered)
      /\ UNCHANGED <<registered, cursor, deposits, announced, scanner>>
  BY DEF Deposits!Finalize, Deposits!records, Deposits!FinalizedHead
<1>3. body \in Bodies
  <2>1. PICK t \in Transfers : body =
          [from |-> t.from, to |-> t.to, token |-> t.token, listed |-> t.to \in registered]
    BY DEF Deposits!Carried
  <2>2. (t.to \in registered) \in BOOLEAN
    OBVIOUS
  <2> QED
    BY <2>1, <2>2, Zenon DEF Bodies
<1>4. /\ blocks' \in Seq(Bodies) /\ Len(blocks') = Len(blocks) + 1
      /\ \A b \in 1 .. Len(blocks) : blocks'[b] = blocks[b]
      /\ blocks'[Len(blocks) + 1] = body
  BY <1>1, <1>2, <1>3, AppendProperties
<1>5. ListenerShapes'
  BY <1>1, <1>2, <1>4, ListenerAssumption DEF ListenerShapes, Deposits!Unset
<1>6. ASSUME NEW b \in 1 .. Len(blocks'), blocks'[b].from \in Wallets
      PROVE  blocks'[b].from \in registered'
  <2>1. CASE b = Len(blocks) + 1
    BY <1>2, <1>4, <1>6, <2>1
  <2>2. CASE b \in 1 .. Len(blocks)
    BY <1>2, <1>4, <1>6, <2>2 DEF ListenerInv, SendersKnown
  <2> QED
    BY <1>1, <1>4, <2>1, <2>2
<1>7. SendersKnown(registered, Len(blocks))'
  BY <1>6 DEF SendersKnown
<1>8. ListenerRows' /\ OneAnnouncer'
  BY <1>1, <1>2, <1>4 DEF ListenerInv, ListenerShapes, ListenerRows, OneAnnouncer
<1>9. ASSUME NEW s \in Scanners PROVE ScanHolds(scanner[s])'
  <2>1. ScanHolds(scanner[s]) /\ scanner[s] \in Scans
    BY DEF ListenerInv, ListenerShapes
  <2>2. scanner[s].to \in Nat /\ scanner[s].head \in Nat
    BY <2>1 DEF Scans
  <2>3. scanner[s].at \in {"logs", "announce"} => SendersKnown(scanner[s].wallets, scanner[s].to)'
    BY <1>1, <1>2, <1>4, <2>1, <2>2 DEF ScanHolds, SendersKnown
  <2> QED
    BY <1>1, <1>2, <1>4, <2>1, <2>2, <2>3 DEF ScanHolds
<1> QED
  BY <1>5, <1>7, <1>8, <1>9 DEF ListenerInv

LEMMA ListenerStep == ListenerInv /\ Deposits!Next => ListenerInv'
<1> SUFFICES ASSUME ListenerInv, Deposits!Next PROVE ListenerInv'
  OBVIOUS
<1>1. ASSUME NEW s \in Scanners,
             Deposits!ScanStep(s) \/ Deposits!LogFails(s) \/ Deposits!TickFails(s)
      PROVE  ListenerInv'
  BY <1>1, ReadHeadStep, ReadCursorStep, RestStep, LoadWalletsStep, CreditStep, AnnounceStep,
     LogFailsStep DEF Deposits!ScanStep
<1>2. ASSUME NEW w \in Wallets, Deposits!Register(w) PROVE ListenerInv'
  BY <1>2, RegisterStep
<1>3. ASSUME NEW body \in Deposits!Carried, Deposits!Finalize(body) PROVE ListenerInv'
  BY <1>3, FinalizeStep
<1> QED
  BY <1>1, <1>2, <1>3 DEF Deposits!Next

\* Steps of the other service leave the listener alone.
LEMMA ListenerRests == ListenerInv /\ UNCHANGED listener => ListenerInv'
BY DEF listener, ListenerInv, ListenerShapes, SendersKnown, OneAnnouncer, ListenerRows, ScanHolds

LEMMA ListenerKept == SettlementSpec => []ListenerInv
<1>1. SettlementInit => ListenerInv
  BY ListenerInit DEF SettlementInit
<1>2. ListenerInv /\ [SettlementNext]_all => ListenerInv'
  BY ListenerStep, ListenerRests DEF SettlementNext, InLinks, InListener, all
<1> QED
  BY <1>1, <1>2, PTL DEF SettlementSpec

\* scanOnce never credits a transfer twice nor announces one without its row,
\* and never credits a transfer between members or of the protocol, however
\* many instances overlap, fail or start over and whatever the chain carries:
\* the head is read before the wallets, and the row is written before the
\* announcement, by the one scan whose insert is not refused.
THEOREM CreditedOnce == SettlementSpec => []DepositsCreditedOnce
<1>1. ListenerInv => DepositsCreditedOnce
  <2> SUFFICES ASSUME ListenerInv, NEW b \in DOMAIN blocks
               PROVE  /\ announced[b] <= 1
                      /\ announced[b] = 1 => b \in deposits
                      /\ b \in deposits => blocks[b].from \notin Wallets \cup {"protocol"}
    BY DEF DepositsCreditedOnce, Deposits!DepositsCreditedOnce
  <2>1. b \in 1 .. MaxBlock
    BY ListenerAssumption DEF ListenerInv, ListenerShapes
  <2> QED
    BY <2>1 DEF ListenerInv, ListenerRows
<1> QED
  BY <1>1, ListenerKept, PTL

-----------------------------------------------------------------------------
(* Nothing that is owed lies behind the cursor.                            *)

\* What is owed up to block top has been credited, or its handling threw.
Covered(top) ==
  \A b \in 1 .. top : Deposits!Owed(b) => b \in deposits \cup failedLogs

\* Whoever had a row when a transfer was made is in the index.
RecipientsKnown(wallets, top) ==
  \A b \in 1 .. top : blocks[b].listed => blocks[b].to \in wallets

\* A scan that has read the cursor covers what lies before its place; its
\* index, read after the head, knows every recipient it may owe something to.
ScanCovers(r) ==
  /\ r.at \in {"wallets", "save", "logs", "announce"} =>
       cursor # Deposits!Unset /\ r.next <= r.to + 1 /\ Covered(r.next - 1)
  /\ r.at \in {"logs", "announce"} => RecipientsKnown(r.wallets, r.to)
  /\ r.at = "save" => Covered(r.to)

CursorInv ==
  /\ started \in Nat \cup {Deposits!Unset}
  /\ cursor = Deposits!Unset => started = Deposits!Unset
  /\ RecipientsKnown(registered, Len(blocks))
  /\ cursor # Deposits!Unset => Covered(cursor)
  /\ \A s \in Scanners : ScanCovers(scanner[s])

LEMMA CursorInit == Deposits!Init => CursorInv
<1> SUFFICES ASSUME Deposits!Init PROVE CursorInv
  OBVIOUS
<1>1. blocks = << >> /\ Len(blocks) = 0 /\ 1 .. Len(blocks) = {}
  BY DEF Deposits!Init
<1>2. \A s \in Scanners : scanner[s] = Deposits!Resting
  BY DEF Deposits!Init
<1>3. cursor = Deposits!Unset /\ started = Deposits!Unset
  BY DEF Deposits!Init
<1>4. RecipientsKnown(registered, Len(blocks))
  BY <1>1 DEF RecipientsKnown
<1>5. \A s \in Scanners : ScanCovers(scanner[s])
  BY <1>2, RestingScan DEF ScanCovers
<1> QED
  BY <1>3, <1>4, <1>5 DEF CursorInv

\* What is covered stays covered while rows are only added.
LEMMA CoveredStays ==
  ASSUME NEW top \in Int, Covered(top), UNCHANGED <<blocks, started>>,
         deposits \subseteq deposits', failedLogs \subseteq failedLogs'
  PROVE  Covered(top)'
BY DEF Covered, Deposits!Owed, Deposits!Credits

\* A scan goes on: it covers its new place, and the cursor, if it is saved,
\* goes to a place that is covered.
LEMMA ScanCoversOn ==
  ASSUME ListenerInv, CursorInv, NEW s \in Scanners, NEW r \in Scans,
         scanner' = [scanner EXCEPT ![s] = r], ScanCovers(r)',
         UNCHANGED <<blocks, registered, started>>,
         deposits \subseteq deposits', failedLogs \subseteq failedLogs',
         \/ cursor' = cursor
         \/ /\ cursor # Deposits!Unset /\ cursor' \in Nat
            /\ Covered(cursor')
  PROVE  CursorInv'
<1>1. scanner \in [Scanners -> Scans] /\ cursor \in Nat \cup {Deposits!Unset}
  BY DEF ListenerInv, ListenerShapes
<1>2. scanner'[s] = r /\ \A o \in Scanners : o # s => scanner'[o] = scanner[o]
  BY <1>1
<1>3. /\ started' \in Nat \cup {Deposits!Unset}
      /\ cursor' = Deposits!Unset => started' = Deposits!Unset
      /\ cursor # Deposits!Unset => cursor' # Deposits!Unset
  BY DEF CursorInv, Deposits!Unset
<1>4. RecipientsKnown(registered, Len(blocks))'
  BY DEF CursorInv, RecipientsKnown
<1>5. (cursor # Deposits!Unset => Covered(cursor))'
  <2>1. cursor' \in Int
    BY <1>1 DEF Deposits!Unset
  <2>2. cursor' # Deposits!Unset => \A b \in 1 .. cursor' :
          Deposits!Owed(b) => b \in deposits \cup failedLogs
    BY DEF CursorInv, Covered
  <2>3. \A b : Deposits!Owed(b)' <=> Deposits!Owed(b)
    BY DEF Deposits!Owed, Deposits!Credits
  <2> QED
    BY <2>1, <2>2, <2>3 DEF Covered, Deposits!Unset
<1>6. ASSUME NEW o \in Scanners PROVE ScanCovers(scanner[o])'
  <2>1. CASE o = s
    BY <1>2, <2>1 DEF ScanCovers, Covered, RecipientsKnown, Deposits!Owed, Deposits!Credits
  <2>2. CASE o # s
    <3>1. ScanCovers(scanner[o]) /\ scanner'[o] = scanner[o] /\ scanner[o] \in Scans
      BY <1>1, <1>2, <2>2 DEF CursorInv
    <3>2. scanner[o].next - 1 \in Int /\ scanner[o].to \in Int
      BY <3>1 DEF Scans
    <3>3. (Covered(scanner[o].next - 1) => Covered(scanner[o].next - 1)')
          /\ (Covered(scanner[o].to) => Covered(scanner[o].to)')
      BY <3>1, <3>2, CoveredStays DEF Covered, Deposits!Owed, Deposits!Credits
    <3> QED
      BY <1>3, <3>1, <3>3 DEF ScanCovers, RecipientsKnown, Covered, Deposits!Owed, Deposits!Credits
  <2> QED
    BY <2>1, <2>2
<1> QED
  BY <1>3, <1>4, <1>5, <1>6 DEF CursorInv

\* A scan that is over, or that has only read the head, covers nothing yet.
LEMMA RestCovers ==
  ASSUME ListenerInv, CursorInv, NEW s \in Scanners, NEW r \in Scans,
         scanner' = [scanner EXCEPT ![s] = r], r.at \in {"idle", "cursor", "first"},
         UNCHANGED <<blocks, registered, started, deposits, failedLogs, cursor>>
  PROVE  CursorInv'
<1>1. ScanCovers(r)'
  BY DEF ScanCovers
<1> QED
  BY <1>1, ScanCoversOn

LEMMA ReadHeadCovers ==
  ASSUME ListenerInv, CursorInv, NEW s \in Scanners, Deposits!ReadHead(s) PROVE CursorInv'
<1>1. Len(blocks) \in Nat
  BY DEF ListenerInv, ListenerShapes
<1>2. PICK r : r = [Deposits!Resting EXCEPT !.at = "cursor", !.head = Deposits!FinalizedHead]
  OBVIOUS
<1>3. scanner' = [scanner EXCEPT ![s] = r]
  BY <1>2 DEF Deposits!ReadHead
<1>4. r \in Scans /\ r.at = "cursor"
  BY <1>1, <1>2 DEF Deposits!Resting, Deposits!FinalizedHead, Scans
<1>5. UNCHANGED <<blocks, registered, started, deposits, failedLogs, cursor>>
  BY DEF Deposits!ReadHead, Deposits!world, Deposits!records
<1> QED
  BY <1>3, <1>4, <1>5, RestCovers

LEMMA TickFailsCovers ==
  ASSUME ListenerInv, CursorInv, NEW s \in Scanners, Deposits!TickFails(s) PROVE CursorInv'
<1>1. scanner' = [scanner EXCEPT ![s] = Deposits!Resting]
      /\ UNCHANGED <<blocks, registered, started, deposits, failedLogs, cursor>>
  BY DEF Deposits!TickFails, Deposits!world, Deposits!records
<1> QED
  BY <1>1, RestingScan, RestCovers

LEMMA ReadCursorCovers ==
  ASSUME ListenerInv, CursorInv, NEW s \in Scanners, Deposits!ReadCursor(s) PROVE CursorInv'
<1> DEFINE old == scanner[s]
           top == IF cursor + MaxSpan < old.head THEN cursor + MaxSpan ELSE old.head
<1>1. old \in Scans /\ scanner \in [Scanners -> Scans] /\ cursor \in Nat \cup {Deposits!Unset}
  BY DEF ListenerInv, ListenerShapes
<1>2. UNCHANGED <<blocks, registered, started, deposits, failedLogs, cursor>>
  BY DEF Deposits!ReadCursor, Deposits!world, Deposits!records
<1>3. CASE cursor = Deposits!Unset
  <2>0. ~(cursor + 1 > old.head)
    BY <1>1, <1>3 DEF Scans, Deposits!Unset
  <2>1. PICK r : r = [old EXCEPT !.at = "first"]
    OBVIOUS
  <2>2. scanner' = [scanner EXCEPT ![s] = r]
    BY <1>1, <1>3, <2>0, <2>1 DEF Deposits!ReadCursor
  <2>3. r \in Scans /\ r.at = "first"
    BY <1>1, <2>1 DEF Scans
  <2> QED
    BY <1>2, <2>2, <2>3, RestCovers
<1>4. CASE cursor # Deposits!Unset /\ cursor + 1 > old.head
  <2>1. scanner' = [scanner EXCEPT ![s] = Deposits!Resting]
    BY <1>1, <1>4 DEF Deposits!ReadCursor
  <2> QED
    BY <1>2, <2>1, RestingScan, RestCovers
<1>5. CASE cursor # Deposits!Unset /\ ~(cursor + 1 > old.head)
  <2>1. cursor \in Nat /\ old.head \in Nat /\ cursor + 1 \in Nat
    BY <1>1, <1>5 DEF Scans
  <2>2. top \in Nat /\ cursor + 1 <= top + 1
    BY <1>5, <2>1, ListenerAssumption
  <2>3. PICK r : r = [old EXCEPT !.at = "wallets", !.next = cursor + 1, !.to = top]
    OBVIOUS
  <2>4. scanner' = [scanner EXCEPT ![s] = r]
    BY <1>1, <1>5, <2>3 DEF Deposits!ReadCursor
  <2> HIDE DEF top, old
  <2>5. r \in Scans /\ r.at = "wallets" /\ r.next = cursor + 1 /\ r.to = top
    BY <1>1, <2>1, <2>2, <2>3 DEF Scans
  <2>6. r.next - 1 = cursor /\ r.next <= r.to + 1
    BY <2>1, <2>2, <2>5
  <2>7. Covered(r.next - 1)'
    <3>1. Covered(r.next - 1)
      BY <1>5, <2>6 DEF CursorInv
    <3> QED
      BY <1>2, <2>1, <2>6, <3>1, CoveredStays
  <2>8. ScanCovers(r)'
    BY <1>2, <1>5, <2>5, <2>6, <2>7 DEF ScanCovers
  <2> QED
    BY <1>2, <2>4, <2>5, <2>8, ScanCoversOn
<1> QED
  BY <1>3, <1>4, <1>5

\* The first run: until then no scan is past the cursor, and nothing that is
\* owed from now on lies at or before the head.
LEMMA CreateCursorCovers ==
  ASSUME ListenerInv, CursorInv, NEW s \in Scanners, Deposits!CreateCursor(s) PROVE CursorInv'
<1>1. scanner' = [scanner EXCEPT ![s] = Deposits!Resting] /\ scanner \in [Scanners -> Scans]
      /\ UNCHANGED <<blocks, registered, deposits, failedLogs>>
  BY DEF Deposits!CreateCursor, Deposits!world, Deposits!records, ListenerInv, ListenerShapes
<1>2. CASE cursor # Deposits!Unset
  <2>1. UNCHANGED <<cursor, started>>
    BY <1>2 DEF Deposits!CreateCursor
  <2> QED
    BY <1>1, <2>1, RestingScan, RestCovers
<1>3. CASE cursor = Deposits!Unset
  <2>1. cursor' = scanner[s].head /\ started' = scanner[s].head /\ scanner[s].head \in Nat
    BY <1>1, <1>3 DEF Deposits!CreateCursor, Scans
  <2>2. Covered(cursor)'
    <3> SUFFICES ASSUME NEW b \in 1 .. cursor' PROVE ~Deposits!Owed(b)'
      BY DEF Covered
    <3>1. ~(b > started')
      BY <2>1
    <3> QED
      BY <3>1 DEF Deposits!Owed
  <2>3. RecipientsKnown(registered, Len(blocks))'
    BY <1>1 DEF CursorInv, RecipientsKnown
  <2>4. ASSUME NEW o \in Scanners PROVE ScanCovers(scanner[o])'
    <3>1. CASE o = s
      BY <1>1, <3>1, RestingScan DEF ScanCovers
    <3>2. CASE o # s
      <4>1. scanner'[o] = scanner[o] /\ ScanCovers(scanner[o])
        BY <1>1, <3>2 DEF CursorInv
      <4>2. scanner[o].at \notin {"wallets", "save", "logs", "announce"}
        BY <1>3, <4>1 DEF ScanCovers
      <4> QED
        BY <4>1, <4>2 DEF ScanCovers
    <3> QED
      BY <3>1, <3>2
  <2> QED
    BY <2>1, <2>2, <2>3, <2>4 DEF CursorInv, Deposits!Unset
<1> QED
  BY <1>2, <1>3

LEMMA LoadWalletsCovers ==
  ASSUME ListenerInv, CursorInv, NEW s \in Scanners, Deposits!LoadWallets(s) PROVE CursorInv'
<1> DEFINE old == scanner[s]
           at == IF registered = {} THEN "save" ELSE "logs"
<1>1. /\ old \in Scans /\ ScanHolds(old) /\ ScanCovers(old) /\ scanner \in [Scanners -> Scans]
      /\ registered \subseteq Wallets /\ Len(blocks) \in Nat
  BY DEF ListenerInv, ListenerShapes, CursorInv
<1>2. PICK r : r = [old EXCEPT !.wallets = registered, !.at = at]
  OBVIOUS
<1>3. scanner' = [scanner EXCEPT ![s] = r] /\ old.at = "wallets"
  BY <1>1, <1>2 DEF Deposits!LoadWallets, Scans
<1>4. UNCHANGED <<blocks, registered, started, deposits, failedLogs, cursor>>
  BY DEF Deposits!LoadWallets, Deposits!world, Deposits!records
<1>5. r \in Scans /\ r.at = at /\ r.next = old.next /\ r.to = old.to /\ r.wallets = registered
  BY <1>1, <1>2 DEF Scans
<1>6. r.next \in Nat /\ r.to \in Nat /\ r.to <= Len(blocks) /\ r.next <= r.to + 1
      /\ cursor # Deposits!Unset /\ Covered(r.next - 1)
  BY <1>1, <1>3, <1>5 DEF ScanHolds, ScanCovers, Scans
<1>7. RecipientsKnown(r.wallets, r.to)
  BY <1>1, <1>5, <1>6 DEF CursorInv, RecipientsKnown
<1>8. r.at = "save" => Covered(r.to)
  <2> SUFFICES ASSUME r.at = "save", NEW b \in 1 .. r.to PROVE ~Deposits!Owed(b)
    BY DEF Covered
  <2>1. registered = {}
    BY <1>5
  <2>2. ~(blocks[b].listed)
    BY <1>5, <1>7, <2>1 DEF RecipientsKnown
  <2> QED
    BY <2>2 DEF Deposits!Owed
<1>9. Covered(r.next - 1)' /\ (r.at = "save" => Covered(r.to)')
  BY <1>4, <1>6, <1>8, CoveredStays
<1>10. RecipientsKnown(r.wallets, r.to)'
  BY <1>4, <1>7 DEF RecipientsKnown
<1>11. ScanCovers(r)'
  BY <1>4, <1>6, <1>9, <1>10 DEF ScanCovers
<1> QED
  BY <1>3, <1>4, <1>5, <1>11, ScanCoversOn

\* The scan goes on behind a block that it has handled.
LEMMA BehindBlock ==
  ASSUME ListenerInv, CursorInv, NEW s \in Scanners, scanner[s].at \in {"logs", "announce"},
         scanner' = [scanner EXCEPT ![s] = Deposits!Onward(s, scanner[s].next)],
         scanner[s].next <= scanner[s].to,
         UNCHANGED <<blocks, registered, started, cursor>>,
         deposits \subseteq deposits', failedLogs \subseteq failedLogs',
         Deposits!Owed(scanner[s].next) => scanner[s].next \in deposits' \cup failedLogs'
  PROVE  CursorInv'
<1> DEFINE old == scanner[s]
<1>1. old \in Scans /\ ScanCovers(old)
  BY DEF ListenerInv, ListenerShapes, CursorInv
<1>2. PICK r : r = [old EXCEPT !.next = old.next + 1, !.at = "logs"]
  OBVIOUS
<1>3. scanner' = [scanner EXCEPT ![s] = r]
  BY <1>2 DEF Deposits!Onward
<1>4. old.next \in Nat /\ old.to \in Nat /\ old.next + 1 \in Nat
  BY <1>1 DEF Scans
<1>5. r \in Scans /\ r.at = "logs" /\ r.next = old.next + 1 /\ r.to = old.to
      /\ r.wallets = old.wallets
  <2>1. old \in Scans
    BY <1>1
  <2> HIDE DEF old
  <2> QED
    BY <1>2, <1>4, <2>1 DEF Scans
<1>6. \A b \in 1 .. (old.next - 1) : Deposits!Owed(b)' => b \in deposits' \cup failedLogs'
  <2>1. Covered(old.next - 1)
    BY <1>1 DEF ScanCovers
  <2> QED
    BY <2>1 DEF Covered, Deposits!Owed, Deposits!Credits
<1>7. Covered(r.next - 1)'
  <2> SUFFICES ASSUME NEW b \in 1 .. old.next, Deposits!Owed(b)'
               PROVE  b \in deposits' \cup failedLogs'
    BY <1>4, <1>5 DEF Covered
  <2>1. CASE b = old.next
    BY <2>1 DEF Deposits!Owed, Deposits!Credits
  <2>2. CASE b \in 1 .. (old.next - 1)
    BY <1>6, <2>2
  <2> QED
    BY <1>4, <2>1, <2>2
<1>8. ScanCovers(r)'
  <2>1. cursor # Deposits!Unset /\ RecipientsKnown(old.wallets, old.to)
    BY <1>1 DEF ScanCovers
  <2>2. RecipientsKnown(r.wallets, r.to)'
    BY <1>5, <2>1 DEF RecipientsKnown
  <2> QED
    BY <1>4, <1>5, <1>7, <2>1, <2>2 DEF ScanCovers
<1> QED
  BY <1>3, <1>5, <1>8, ScanCoversOn

\* What is owed passes the filters of every scan that reaches it.
LEMMA OwedIsCredited ==
  ASSUME ListenerInv, CursorInv, NEW s \in Scanners, scanner[s].at \in {"logs", "announce"},
         scanner[s].next <= scanner[s].to, Deposits!Owed(scanner[s].next)
  PROVE  Deposits!Credits(scanner[s].next, scanner[s].wallets)
<1>1. scanner[s] \in Scans /\ ScanHolds(scanner[s]) /\ ScanCovers(scanner[s])
  BY DEF ListenerInv, ListenerShapes, CursorInv
<1>2. scanner[s].next \in 1 .. scanner[s].to /\ scanner[s].wallets \subseteq Wallets
  BY <1>1 DEF Scans, ScanHolds
<1> QED
  BY <1>1, <1>2 DEF ScanCovers, RecipientsKnown, Deposits!Owed, Deposits!Credits

LEMMA CreditCovers ==
  ASSUME ListenerInv, CursorInv, NEW s \in Scanners, Deposits!Credit(s) PROVE CursorInv'
<1> DEFINE old == scanner[s]
           b == old.next
           new == Deposits!Credits(b, old.wallets) /\ b \notin deposits
<1>1. old \in Scans /\ ScanCovers(old) /\ scanner \in [Scanners -> Scans]
  BY DEF ListenerInv, ListenerShapes, CursorInv
<1>2. old.at = "logs" /\ b <= old.to
      /\ UNCHANGED <<blocks, registered, started, failedLogs, cursor>>
  BY DEF Deposits!Credit, Deposits!world
<1>3. deposits' = IF new THEN deposits \cup {b} ELSE deposits
  BY DEF Deposits!Credit
<1>4. CASE new /\ blocks[b].token = "known"
  <2>1. PICK r : r = [old EXCEPT !.at = "announce"]
    OBVIOUS
  <2>2. scanner' = [scanner EXCEPT ![s] = r]
    BY <1>1, <1>4, <2>1 DEF Deposits!Credit
  <2>3. r \in Scans /\ r.at = "announce" /\ r.next = b /\ r.to = old.to /\ r.wallets = old.wallets
    BY <1>1, <2>1 DEF Scans
  <2>4. r.next - 1 \in Int /\ r.next <= r.to + 1 /\ Covered(r.next - 1)
        /\ cursor # Deposits!Unset /\ RecipientsKnown(r.wallets, r.to)
    BY <1>1, <1>2, <2>3 DEF Scans, ScanCovers
  <2>5. Covered(r.next - 1)'
    BY <1>2, <1>3, <2>4, CoveredStays
  <2>6. RecipientsKnown(r.wallets, r.to)'
    BY <1>2, <2>4 DEF RecipientsKnown
  <2>7. ScanCovers(r)'
    BY <1>2, <2>3, <2>4, <2>5, <2>6 DEF ScanCovers
  <2> QED
    BY <1>2, <1>3, <2>2, <2>3, <2>7, ScanCoversOn
<1>5. CASE ~(new /\ blocks[b].token = "known")
  <2>1. scanner' = [scanner EXCEPT ![s] = Deposits!Onward(s, scanner[s].next)]
    BY <1>1, <1>5 DEF Deposits!Credit
  <2>2. Deposits!Owed(scanner[s].next) => scanner[s].next \in deposits'
    BY <1>2, <1>3, OwedIsCredited
  <2> QED
    BY <1>2, <1>3, <2>1, <2>2, BehindBlock
<1> QED
  BY <1>4, <1>5

LEMMA AnnounceCovers ==
  ASSUME ListenerInv, CursorInv, NEW s \in Scanners, Deposits!Announce(s) PROVE CursorInv'
<1>1. /\ scanner[s].at = "announce"
      /\ scanner' = [scanner EXCEPT ![s] = Deposits!Onward(s, scanner[s].next)]
      /\ UNCHANGED <<blocks, registered, started, deposits, failedLogs, cursor>>
  BY DEF Deposits!Announce, Deposits!world
<1>2. scanner[s].next <= scanner[s].to /\ scanner[s].next \in deposits
  BY <1>1 DEF ListenerInv, ScanHolds
<1> QED
  BY <1>1, <1>2, BehindBlock

LEMMA LogFailsCovers ==
  ASSUME ListenerInv, CursorInv, NEW s \in Scanners, Deposits!LogFails(s) PROVE CursorInv'
<1>1. /\ scanner[s].at = "logs" /\ scanner[s].next <= scanner[s].to
      /\ scanner' = [scanner EXCEPT ![s] = Deposits!Onward(s, scanner[s].next)]
      /\ failedLogs' = failedLogs \cup {scanner[s].next}
      /\ UNCHANGED <<blocks, registered, started, deposits, cursor>>
  BY DEF Deposits!LogFails, Deposits!world
<1> QED
  BY <1>1, BehindBlock

\* Whichever instance saves it, the cursor goes to a place that is covered.
LEMMA SaveCursorCovers ==
  ASSUME ListenerInv, CursorInv, NEW s \in Scanners, Deposits!SaveCursor(s) PROVE CursorInv'
<1> DEFINE old == scanner[s]
<1>1. old \in Scans /\ ScanCovers(old)
  BY DEF ListenerInv, ListenerShapes, CursorInv
<1>2. /\ old.at = "save" \/ (old.at = "logs" /\ old.next > old.to)
      /\ scanner' = [scanner EXCEPT ![s] = Deposits!Resting] /\ cursor' = old.to
      /\ UNCHANGED <<blocks, registered, started, deposits, failedLogs>>
  BY DEF Deposits!SaveCursor, Deposits!world, Deposits!records
<1>3. old.to \in Nat /\ old.next \in Nat
  BY <1>1 DEF Scans
<1>4. cursor # Deposits!Unset
  BY <1>1, <1>2 DEF ScanCovers
<1>5. Covered(old.to)
  <2>1. CASE old.at = "save"
    BY <1>1, <2>1 DEF ScanCovers
  <2>2. CASE old.at = "logs" /\ old.next > old.to
    <3>1. Covered(old.next - 1) /\ \A b \in 1 .. old.to : b \in 1 .. (old.next - 1)
      BY <1>1, <1>3, <2>2 DEF ScanCovers
    <3> QED
      BY <3>1 DEF Covered
  <2> QED
    BY <1>2, <2>1, <2>2
<1>6. Covered(cursor')
  BY <1>2, <1>5
<1>7. ScanCovers(Deposits!Resting)'
  BY RestingScan DEF ScanCovers, Deposits!Resting
<1> QED
  BY <1>2, <1>3, <1>4, <1>6, <1>7, RestingScan, ScanCoversOn

LEMMA RegisterCovers ==
  ASSUME ListenerInv, CursorInv, NEW w \in Wallets, Deposits!Register(w) PROVE CursorInv'
<1>1. registered' = registered \cup {w}
      /\ UNCHANGED <<blocks, cursor, started, deposits, failedLogs, scanner>>
  BY DEF Deposits!Register, Deposits!records
<1>2. RecipientsKnown(registered, Len(blocks))'
  BY <1>1 DEF CursorInv, RecipientsKnown
<1>3. (cursor # Deposits!Unset => Covered(cursor))'
  BY <1>1 DEF CursorInv, Covered, Deposits!Owed, Deposits!Credits
<1>4. \A s \in Scanners : ScanCovers(scanner[s])'
  BY <1>1 DEF CursorInv, ScanCovers, RecipientsKnown, Covered, Deposits!Owed, Deposits!Credits
<1> QED
  BY <1>1, <1>2, <1>3, <1>4 DEF CursorInv

\* A new block lies behind every place that is covered, and its recipient is
\* listed only if it is registered.
LEMMA FinalizeCovers ==
  ASSUME ListenerInv, CursorInv, NEW body \in Deposits!Carried, Deposits!Finalize(body)
  PROVE  CursorInv'
<1>1. blocks \in Seq(Bodies) /\ Len(blocks) \in Nat /\ cursor <= Len(blocks)
      /\ scanner \in [Scanners -> Scans]
  BY DEF ListenerInv, ListenerShapes
<1>2. blocks' = Append(blocks, body)
      /\ UNCHANGED <<registered, cursor, started, deposits, failedLogs, scanner>>
  BY DEF Deposits!Finalize, Deposits!records
<1>3. PICK t \in Transfers : body =
        [from |-> t.from, to |-> t.to, token |-> t.token, listed |-> t.to \in registered]
  BY DEF Deposits!Carried
<1>4. body \in Bodies /\ (body.listed => body.to \in registered)
  <2>1. (t.to \in registered) \in BOOLEAN
    OBVIOUS
  <2>2. body \in Bodies
    BY <1>3, <2>1, Zenon DEF Bodies
  <2>3. body.listed = (t.to \in registered) /\ body.to = t.to
    BY <1>3
  <2> QED
    BY <2>2, <2>3
<1>5. /\ Len(blocks') = Len(blocks) + 1
      /\ \A b \in 1 .. Len(blocks) : blocks'[b] = blocks[b]
      /\ blocks'[Len(blocks) + 1] = body
  BY <1>1, <1>2, <1>4, AppendProperties
<1>6. RecipientsKnown(registered, Len(blocks))'
  <2> SUFFICES ASSUME NEW b \in 1 .. Len(blocks'), blocks'[b].listed
               PROVE  blocks'[b].to \in registered
    BY <1>2 DEF RecipientsKnown
  <2>1. CASE b = Len(blocks) + 1
    BY <1>4, <1>5, <2>1
  <2>2. CASE b \in 1 .. Len(blocks)
    BY <1>5, <2>2 DEF CursorInv, RecipientsKnown
  <2> QED
    BY <1>1, <1>5, <2>1, <2>2
<1>7. ASSUME NEW top \in Int, top <= Len(blocks), Covered(top) PROVE Covered(top)'
  <2> SUFFICES ASSUME NEW b \in 1 .. top, Deposits!Owed(b)'
               PROVE  b \in deposits' \cup failedLogs'
    BY DEF Covered
  <2>1. blocks'[b] = blocks[b]
    BY <1>1, <1>5, <1>7
  <2> QED
    BY <1>2, <1>7, <2>1 DEF Covered, Deposits!Owed, Deposits!Credits
<1>8. (cursor # Deposits!Unset => Covered(cursor))'
  <2>1. PICK c : c = cursor
    OBVIOUS
  <2>2. c # Deposits!Unset => Covered(c) /\ c \in Int /\ c <= Len(blocks)
    BY <1>1, <2>1 DEF CursorInv, ListenerInv, ListenerShapes
  <2>3. c # Deposits!Unset => Covered(c)'
    BY <1>7, <2>2
  <2>4. cursor' = c
    BY <1>2, <2>1
  <2> QED
    BY <2>3, <2>4 DEF Covered
<1>9. ASSUME NEW s \in Scanners PROVE ScanCovers(scanner[s])'
  <2>1. PICK r : r = scanner[s]
    OBVIOUS
  <2>2. r \in Scans /\ ScanHolds(r) /\ ScanCovers(r)
    BY <1>1, <2>1 DEF ListenerInv, CursorInv
  <2>3. r.next \in Nat /\ r.to \in Nat /\ r.next - 1 \in Int
    BY <2>2 DEF Scans
  <2>4. ScanCovers(r)'
    <3>1. CASE r.at \in {"wallets", "save", "logs", "announce"}
      <4>1. r.to <= Len(blocks) /\ r.next - 1 <= Len(blocks) /\ Covered(r.next - 1)
        BY <1>1, <2>2, <2>3, <3>1 DEF ScanHolds, ScanCovers
      <4>2. Covered(r.next - 1)' /\ (r.at = "save" => Covered(r.to)')
        BY <1>7, <2>2, <2>3, <4>1 DEF ScanCovers
      <4>3. r.at \in {"logs", "announce"} => RecipientsKnown(r.wallets, r.to)'
        BY <1>1, <1>5, <2>2, <2>3, <4>1 DEF ScanCovers, RecipientsKnown
      <4> QED
        BY <1>2, <2>2, <4>2, <4>3 DEF ScanCovers
    <3>2. CASE r.at \notin {"wallets", "save", "logs", "announce"}
      BY <3>2 DEF ScanCovers
    <3> QED
      BY <3>1, <3>2
  <2>5. scanner'[s] = r
    BY <1>2, <2>1
  <2> QED
    BY <2>4, <2>5 DEF ScanCovers, Covered, RecipientsKnown
<1> QED
  BY <1>2, <1>6, <1>8, <1>9 DEF CursorInv

LEMMA CursorStep == ListenerInv /\ CursorInv /\ Deposits!Next => CursorInv'
<1> SUFFICES ASSUME ListenerInv, CursorInv, Deposits!Next PROVE CursorInv'
  OBVIOUS
<1>1. ASSUME NEW s \in Scanners,
             Deposits!ScanStep(s) \/ Deposits!LogFails(s) \/ Deposits!TickFails(s)
      PROVE  CursorInv'
  BY <1>1, ReadHeadCovers, ReadCursorCovers, CreateCursorCovers, LoadWalletsCovers, CreditCovers,
     AnnounceCovers, SaveCursorCovers, LogFailsCovers, TickFailsCovers DEF Deposits!ScanStep
<1>2. ASSUME NEW w \in Wallets, Deposits!Register(w) PROVE CursorInv'
  BY <1>2, RegisterCovers
<1>3. ASSUME NEW body \in Deposits!Carried, Deposits!Finalize(body) PROVE CursorInv'
  BY <1>3, FinalizeCovers
<1> QED
  BY <1>1, <1>2, <1>3 DEF Deposits!Next

LEMMA CursorRests == CursorInv /\ UNCHANGED listener => CursorInv'
BY DEF listener, CursorInv, ScanCovers, RecipientsKnown, Covered, Deposits!Owed, Deposits!Credits

\* The safety half of DepositsArrive: whichever instance of scanOnce saves the
\* cursor, and whenever scans fail, overlap or start over, no deposit owed to a
\* member lies behind the cursor unless it has its row or its own log threw.
THEOREM NothingSkipped == SettlementSpec => []Deposits!NothingPassedOver
<1>1. SettlementInit => CursorInv
  BY CursorInit DEF SettlementInit
<1>2. ListenerInv /\ CursorInv /\ [SettlementNext]_all => CursorInv'
  BY CursorStep, CursorRests DEF SettlementNext, InLinks, InListener, all
<1>3. CursorInv => Deposits!NothingPassedOver
  BY DEF CursorInv, Covered, Deposits!NothingPassedOver
<1> QED
  BY <1>1, <1>2, <1>3, ListenerKept, PTL DEF SettlementSpec

=============================================================================
