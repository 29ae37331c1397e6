-------------------------- MODULE PaperStoreProofs --------------------------
(* Proofs about PaperStore, for any recommendations, tickers and passes.     *)
EXTENDS PaperStore, TLAPS

USE DEF Status, Mark, Pc, NoRows

(* An id that was never recorded is nowhere.                                *)
Unused ==
  \A r \in Recs \ Recorded :
    /\ file[r] = "none" /\ remote[r] = "none"
    /\ \A p \in Passes : r \notin todo[p] /\ hand[p] # r /\ rows[p][r] = "none"

(* A row still to be mirrored is not in Supabase.                           *)
MirrorIsFirst == \A r \in unmirrored : remote[r] = "none"

(* A rewrite that is alone holds everything recorded and not exposed, as it *)
(* is in the file, and empties the file before it writes.                   *)
LoneRewrite ==
  /\ \A p, q \in Passes : Rewriting(p) /\ Rewriting(q) /\ p # q => Recorded \subseteq exposed
  /\ \A p \in Passes, r \in Recorded \ exposed :
       /\ Rewriting(p) => rows[p][r] # "none"
       /\ pc[p] = "truncate" /\ r # hand[p] => rows[p][r] = file[r]
       /\ pc[p] = "write" => file[r] = "none"

(* What a pass has still to resolve.                                        *)
Pending(p, r) ==
  r \in todo[p] \/ (r = hand[p] /\ pc[p] \in {"append", "read", "truncate", "write"})

(* A recommendation is before one pass at most, once, unless it is exposed. *)
ClaimedOnce ==
  /\ \A p \in Passes : hand[p] \notin todo[p]
  /\ \A p, q \in Passes, r \in Recs \ exposed :
       r \in Claimed(p) /\ r \in Claimed(q) => p = q

(* What a pass has still to resolve is resolved neither in the file nor in  *)
(* the rows of a rewrite, but for the one that resolves it.                 *)
PendingIsOpen ==
  \A p, q \in Passes, r \in Recs \ exposed :
    Pending(q, r) => /\ file[r] # "resolved"
                     /\ Rewriting(p) /\ r # hand[p] => rows[p][r] # "resolved"

(* The settlement is marked before a row is resolved.                       *)
MarkedFirst ==
  \A p \in Passes :
    /\ pc[p] \in {"read", "truncate", "write"} /\ hand[p] \notin exposed
         => mark[hand[p]] = "resolved"
    /\ Rewriting(p)
         => \A r \in Recs \ exposed : rows[p][r] = "resolved" => mark[r] = "resolved"

(* A ticker the scorer may record is open under no recommendation of its    *)
(* own, neither in the file nor in the rows of a rewrite.                   *)
ScorerKnows ==
  scoring /\ ~blind =>
    \A s \in scored \ exposed :
      about[s] \in toScore \ alreadyOpen
        => /\ file[s] # "open"
           /\ \A p \in Passes : Rewriting(p) => rows[p][s] # "open"

(* A rewrite brings back no second open recommendation of the scorer.       *)
OneOpenPerRewrite ==
  \A p \in Passes : Rewriting(p) =>
    \A r, s \in scored \ exposed :
      rows[p][r] = "open" /\ rows[p][s] = "open" /\ about[r] = about[s] => r = s

MirrorInv  == Unused /\ MirrorIsFirst
RewriteInv == LoneRewrite /\ RecordedSurvive
MarkInv    == ClaimedOnce /\ PendingIsOpen /\ MarkedFirst /\ SettlementIsLatest
ScoreInv   == ScorerKnows /\ OneOpenPerRewrite /\ OneOpenPerTicker

PaperIInv == TypeOK /\ MirrorInv /\ RewriteInv /\ MarkInv /\ ScoreInv

(* Empty files and no program: the invariant holds.                        *)
LEMMA PaperInit == Init => PaperIInv
<1> SUFFICES ASSUME Init PROVE PaperIInv
  OBVIOUS
<1> USE DEF Init, Recorded
<1>1. TypeOK
  BY DEF TypeOK
<1>2. MirrorInv
  BY NoneAssumption DEF MirrorInv, Unused, MirrorIsFirst
<1>2a. RewriteInv
  BY DEF RewriteInv, LoneRewrite, RecordedSurvive, Rewriting
<1>3. MarkInv
  BY DEF MarkInv, ClaimedOnce, PendingIsOpen, MarkedFirst, SettlementIsLatest, Pending,
     Claimed, Rewriting
<1>4. ScoreInv
  BY DEF ScoreInv, ScorerKnows, OneOpenPerRewrite, OneOpenPerTicker, Rewriting
<1>5. QED
  BY <1>1, <1>2, <1>2a, <1>3, <1>4 DEF PaperIInv

(* Every step of every program keeps the types.                            *)
LEMMA PaperTypeStep == TypeOK /\ Unused /\ [Next]_vars => TypeOK'
<1> SUFFICES ASSUME TypeOK, Unused, [Next]_vars PROVE TypeOK'
  OBVIOUS
<1> USE NoneAssumption DEF TypeOK, Recorded, scorerVars, passVars
<1>1. ASSUME NEW r \in Recs, NEW t \in Tickers, Record(r, t) PROVE TypeOK'
  BY <1>1 DEF Record, Append
<1>2. ASSUME NEW r \in Recs, NEW t \in Tickers, Score(r, t) PROVE TypeOK'
  BY <1>2 DEF Score, Append
<1>3. ASSUME NEW t \in Tickers, ScoreSkip(t) PROVE TypeOK'
  BY <1>3 DEF ScoreSkip
<1>4. ASSUME NEW r \in Recs, Mirror(r) PROVE TypeOK'
  BY <1>4 DEF Mirror
<1>5. CASE ScoreStart
  <2>1. alreadyOpen' \subseteq Tickers
    BY <1>5 DEF ScoreStart, Open, Unused
  <2>2. blind' \in BOOLEAN
    BY <1>5 DEF ScoreStart, InRewrite
  <2>3. QED
    BY <1>5, <2>1, <2>2 DEF ScoreStart
<1>6. CASE ScoreEnd
  BY <1>6 DEF ScoreEnd, ScorerEnds
<1>7. CASE ScoreDies
  BY <1>7 DEF ScoreDies, ScorerEnds
<1>8. ASSUME NEW p \in Passes, PassStart(p) PROVE TypeOK'
  <2>1. PICK chosen \in (SUBSET Open) \ {{}} :
          /\ todo' = [todo EXCEPT ![p] = chosen]
          /\ exposed' = exposed \cup (chosen \cap UNION {Claimed(q) : q \in Passes \ {p}})
    BY <1>8 DEF PassStart
  <2>2. chosen \subseteq Recs
    BY DEF Open
  <2>3. QED
    BY <1>8, <2>1, <2>2 DEF PassStart
<1>9. ASSUME NEW p \in Passes, AppendMark(p) PROVE TypeOK'
  <2>1. CASE final[p]
    BY <1>9, <2>1 DEF AppendMark
  <2>2. CASE ~final[p]
    BY <1>9, <2>2 DEF AppendMark
  <2>3. QED
    BY <2>1, <2>2
<1>10. ASSUME NEW p \in Passes, ReadRows(p) PROVE TypeOK'
  <2>1. hand[p] \in Recs
    BY <1>10 DEF ReadRows
  <2>2. Resolving(hand[p]) \in [Recs -> Status]
    BY <2>1 DEF Resolving
  <2>3. QED
    BY <1>10, <2>2 DEF ReadRows
<1>11. ASSUME NEW p \in Passes, Truncate(p) PROVE TypeOK'
  BY <1>11 DEF Truncate
<1>12. ASSUME NEW p \in Passes, WriteBack(p) PROVE TypeOK'
  <2>1. file' \in [Recs -> Status]
    BY <1>12 DEF WriteBack
  <2>2. rows' \in [Passes -> [Recs -> Status]]
    BY <1>12 DEF WriteBack
  <2>3. QED
    BY <1>12, <2>1, <2>2 DEF WriteBack
<1>13. ASSUME NEW p \in Passes, ResolveRemote(p) PROVE TypeOK'
  <2>1. remote' \in [Recs -> Status]
    BY <1>13 DEF ResolveRemote, Resolved
  <2>2. QED
    BY <1>13, <2>1 DEF ResolveRemote
<1>14. ASSUME NEW p \in Passes, PassEnd(p) PROVE TypeOK'
  BY <1>14 DEF PassEnd, PassEnds
<1>15. ASSUME NEW p \in Passes, PassDies(p) PROVE TypeOK'
  <2>1. file' \in [Recs -> Status] /\ exposed' \subseteq Recs
    BY <1>15 DEF PassDies
  <2>2. QED
    BY <1>15, <2>1 DEF PassDies, PassEnds
<1>16. ASSUME NEW p \in Passes, NEW r \in Recs, FetchFails(p, r) PROVE TypeOK'
  BY <1>16 DEF FetchFails
<1>17. ASSUME NEW p \in Passes, NEW r \in Recs, Fetch(p, r) PROVE TypeOK'
  BY <1>17 DEF Fetch
<1>18. ASSUME NEW r \in Recs, SharedResolve(r) PROVE TypeOK'
  BY <1>18 DEF SharedResolve, Resolved
<1>19. ASSUME NEW t \in Tickers, Settle(t) PROVE TypeOK'
  BY <1>19 DEF Settle
<1>20. CASE UNCHANGED vars
  BY <1>20 DEF vars
<1>21. QED
  BY <1>1, <1>2, <1>3, <1>4, <1>5, <1>6, <1>7, <1>8, <1>9, <1>10, <1>11, <1>12, <1>13, <1>14,
     <1>15, <1>16, <1>17, <1>18, <1>19, <1>20 DEF Next, Recording, Marking

(* A row enters Supabase once, and only when it was recorded.              *)
LEMMA MirrorStep == TypeOK /\ MirrorInv /\ [Next]_vars => MirrorInv'
<1> SUFFICES ASSUME TypeOK, MirrorInv, [Next]_vars PROVE MirrorInv'
  OBVIOUS
<1> USE NoneAssumption DEF TypeOK, Recorded, scorerVars, passVars, MirrorInv, Unused,
     MirrorIsFirst
<1>1. ASSUME NEW r \in Recs, NEW t \in Tickers, Append(r, t),
             UNCHANGED <<remote, passVars>>
      PROVE  MirrorInv'
  BY <1>1 DEF Append
<1>2. ASSUME NEW r \in Recs, Mirror(r) PROVE MirrorInv'
  BY <1>2 DEF Mirror
<1>3. ASSUME UNCHANGED <<about, file, remote, passVars>>, unmirrored' \subseteq unmirrored
      PROVE  MirrorInv'
  BY <1>3
<1>4. CASE Recording
  BY <1>1, <1>2, <1>3, <1>4
     DEF Recording, Record, Score, ScoreSkip, ScoreStart, ScoreEnd, ScoreDies
<1>5. ASSUME NEW p \in Passes, PassStart(p) PROVE MirrorInv'
  <2>1. PICK chosen \in (SUBSET Open) \ {{}} : todo' = [todo EXCEPT ![p] = chosen]
    BY <1>5 DEF PassStart
  <2>2. \A r \in Recs \ Recorded : r \notin chosen
    BY <2>1 DEF Open
  <2>3. QED
    BY <1>5, <2>1, <2>2 DEF PassStart
<1>6. ASSUME NEW p \in Passes, AppendMark(p) PROVE MirrorInv'
  <2>1. \A q \in Passes : hand'[q] = hand[q] \/ hand'[q] = NoRec
    BY <1>6 DEF AppendMark
  <2>2. QED
    BY <1>6, <2>1 DEF AppendMark
<1>7. ASSUME NEW p \in Passes, ReadRows(p) PROVE MirrorInv'
  <2>1. \A r \in Recs \ Recorded : Resolving(hand[p])[r] = "none"
    BY DEF Resolving
  <2>2. QED
    BY <1>7, <2>1 DEF ReadRows
<1>8. ASSUME NEW p \in Passes, Truncate(p) PROVE MirrorInv'
  BY <1>8 DEF Truncate
<1>9. ASSUME NEW p \in Passes, WriteBack(p) PROVE MirrorInv'
  <2>1. \A r \in Recs \ Recorded : file'[r] = "none" /\ rows'[p][r] = "none"
    BY <1>9 DEF WriteBack
  <2>2. QED
    BY <1>9, <2>1 DEF WriteBack
<1>10. ASSUME NEW p \in Passes, ResolveRemote(p) PROVE MirrorInv'
  BY <1>10 DEF ResolveRemote, Resolved
<1>11. ASSUME NEW p \in Passes, PassEnd(p) PROVE MirrorInv'
  BY <1>11 DEF PassEnd, PassEnds
<1>12. ASSUME NEW p \in Passes, PassDies(p) PROVE MirrorInv'
  <2>1. \A r \in Recs \ Recorded : file'[r] = "none"
    BY <1>12 DEF PassDies
  <2>2. QED
    BY <1>12, <2>1 DEF PassDies, PassEnds
<1>13. ASSUME NEW p \in Passes, NEW r \in Recs, FetchFails(p, r) \/ Fetch(p, r)
       PROVE  MirrorInv'
  <2>1. /\ UNCHANGED <<about, file, remote, unmirrored, rows>>
        /\ todo' = [todo EXCEPT ![p] = @ \ {r}] /\ r \in todo[p]
    BY <1>13 DEF FetchFails, Fetch
  <2>2. hand' = hand \/ hand' = [hand EXCEPT ![p] = r]
    BY <1>13 DEF FetchFails, Fetch
  <2>3. \A s \in Recs \ Recorded, q \in Passes : hand'[q] # s /\ s \notin todo'[q]
    BY <2>1, <2>2
  <2>4. QED
    BY <2>1, <2>3
<1>14. ASSUME NEW r \in Recs, SharedResolve(r) PROVE MirrorInv'
  BY <1>14 DEF SharedResolve, Resolved
<1>15. ASSUME NEW t \in Tickers, Settle(t) PROVE MirrorInv'
  BY <1>3, <1>15 DEF Settle
<1>16. CASE UNCHANGED vars
  BY <1>3, <1>16 DEF vars
<1>17. QED
  BY <1>4, <1>5, <1>6, <1>7, <1>8, <1>9, <1>10, <1>11, <1>12, <1>13, <1>14, <1>15, <1>16
     DEF Next, Marking

(* Rewrites: one that is alone loses nothing that was recorded before it.  *)
LEMMA RewriteStep == TypeOK /\ MirrorInv /\ RewriteInv /\ [Next]_vars => RewriteInv'
<1> SUFFICES ASSUME TypeOK, MirrorInv, RewriteInv, [Next]_vars PROVE RewriteInv'
  OBVIOUS
<1> USE NoneAssumption DEF TypeOK, Recorded, scorerVars, passVars, RewriteInv, LoneRewrite,
     RecordedSurvive, Rewriting, InRewrite
<1>1. ASSUME NEW r \in Recs, NEW t \in Tickers, Append(r, t),
             UNCHANGED passVars,
             exposed \subseteq exposed', InRewrite => r \in exposed'
      PROVE  RewriteInv'
  BY <1>1 DEF Append
<1>2. ASSUME UNCHANGED <<about, file, exposed, passVars>> PROVE RewriteInv'
  BY <1>2
<1>3. CASE Recording
  BY <1>1, <1>2, <1>3
     DEF Recording, Record, Score, Mirror, ScoreSkip, ScoreStart, ScoreEnd, ScoreDies
<1>4. ASSUME NEW p \in Passes, UNCHANGED <<about, file>>, exposed \subseteq exposed',
             pc[p] \notin {"truncate", "write"}, pc'[p] \notin {"truncate", "write"},
             \A q \in Passes \ {p} : pc'[q] = pc[q] /\ hand'[q] = hand[q] /\ rows'[q] = rows[q]
      PROVE  RewriteInv'
  <2>1. \A q \in Passes :
          pc'[q] \in {"truncate", "write"}
            => /\ q # p /\ pc'[q] = pc[q]
               /\ hand'[q] = hand[q] /\ rows'[q] = rows[q]
    BY <1>4
  <2>2. (\A q \in Passes : pc'[q] # "write") => \A q \in Passes : pc[q] # "write"
    BY <1>4
  <2>3. LoneRewrite'
    BY <1>4, <2>1
  <2>4. RecordedSurvive'
    BY <1>4, <2>2
  <2>5. QED
    BY <2>3, <2>4
<1>5. ASSUME NEW p \in Passes, PassStart(p) PROVE RewriteInv'
  BY <1>4, <1>5 DEF PassStart
<1>6. ASSUME NEW p \in Passes, AppendMark(p) PROVE RewriteInv'
  <2>1. /\ pc[p] = "append" /\ pc'[p] \in {"read", "loop"}
        /\ \A q \in Passes \ {p} : pc'[q] = pc[q] /\ hand'[q] = hand[q] /\ rows'[q] = rows[q]
        /\ UNCHANGED <<about, file, exposed>>
    BY <1>6 DEF AppendMark
  <2>2. QED
    BY <1>4, <2>1
<1>7. ASSUME NEW p \in Passes, ReadRows(p) PROVE RewriteInv'
  <2>1. /\ pc[p] = "read" /\ pc' = [pc EXCEPT ![p] = "truncate"]
        /\ rows' = [rows EXCEPT ![p] = Resolving(hand[p])]
        /\ exposed' = IF InRewrite THEN exposed \cup Recorded ELSE exposed
        /\ UNCHANGED <<about, file, hand>>
    BY <1>7 DEF ReadRows
  <2>2. CASE InRewrite
    BY <2>1, <2>2
  <2>3. CASE ~InRewrite
    <3>1. \A r \in Recorded \ exposed : file[r] # "none"
      BY <2>3
    <3>2. \A r \in Recs : /\ file[r] # "none" => Resolving(hand[p])[r] # "none"
                          /\ r # hand[p] => Resolving(hand[p])[r] = file[r]
      BY DEF Resolving
    <3>3. \A q \in Passes : Rewriting(q)' => q = p
      BY <2>1, <2>3
    <3>4. QED
      BY <2>1, <2>3, <3>1, <3>2, <3>3
  <2>4. QED
    BY <2>2, <2>3
<1>8. ASSUME NEW p \in Passes, Truncate(p) PROVE RewriteInv'
  <2>1. /\ pc[p] = "truncate" /\ pc' = [pc EXCEPT ![p] = "write"]
        /\ file' = NoRows
        /\ UNCHANGED <<about, hand, rows, exposed>>
    BY <1>8 DEF Truncate
  <2>2. QED
    BY <2>1
<1>9. ASSUME NEW p \in Passes, WriteBack(p) PROVE RewriteInv'
  <2>1. /\ pc[p] = "write" /\ pc' = [pc EXCEPT ![p] = "resolve"]
        /\ \A r \in Recs : rows[p][r] # "none" => file'[r] = rows[p][r]
        /\ \A q \in Passes \ {p} : rows'[q] = rows[q]
        /\ UNCHANGED <<about, hand, exposed>>
    BY <1>9 DEF WriteBack
  <2>2. QED
    BY <2>1
<1>10. ASSUME NEW p \in Passes, ResolveRemote(p) \/ PassEnd(p) PROVE RewriteInv'
  <2>1. /\ pc[p] \in {"resolve", "loop"} /\ pc'[p] \in {"loop", "idle"}
        /\ \A q \in Passes \ {p} : pc'[q] = pc[q] /\ hand'[q] = hand[q] /\ rows'[q] = rows[q]
        /\ UNCHANGED <<about, file, exposed>>
    BY <1>10 DEF ResolveRemote, PassEnd, PassEnds
  <2>2. QED
    BY <1>4, <2>1
<1>11. ASSUME NEW p \in Passes, PassDies(p) PROVE RewriteInv'
  <2>1. /\ pc' = [pc EXCEPT ![p] = "idle"]
        /\ \A q \in Passes \ {p} : hand'[q] = hand[q] /\ rows'[q] = rows[q]
        /\ UNCHANGED about
    BY <1>11 DEF PassDies, PassEnds
  <2>2. CASE pc[p] = "write"
    BY <1>11, <2>1, <2>2 DEF PassDies
  <2>3. CASE pc[p] # "write"
    BY <1>11, <2>1, <2>3 DEF PassDies
  <2>4. QED
    BY <2>2, <2>3
<1>12. ASSUME NEW p \in Passes, NEW r \in Recs, FetchFails(p, r) \/ Fetch(p, r)
       PROVE  RewriteInv'
  <2>1. /\ pc[p] = "loop" /\ pc'[p] \in {"loop", "append"}
        /\ \A q \in Passes \ {p} : pc'[q] = pc[q] /\ hand'[q] = hand[q] /\ rows'[q] = rows[q]
        /\ UNCHANGED <<about, file, exposed>>
    BY <1>12 DEF FetchFails, Fetch
  <2>2. QED
    BY <1>4, <2>1
<1>13. ASSUME NEW r \in Recs, SharedResolve(r) PROVE RewriteInv'
  BY <1>2, <1>13 DEF SharedResolve
<1>14. ASSUME NEW t \in Tickers, Settle(t) PROVE RewriteInv'
  BY <1>2, <1>14 DEF Settle
<1>15. CASE UNCHANGED vars
  BY <1>2, <1>15 DEF vars
<1>16. QED
  BY <1>3, <1>5, <1>6, <1>7, <1>8, <1>9, <1>10, <1>11, <1>12, <1>13, <1>14, <1>15
     DEF Next, Marking

(* Marks: a pass marks nothing that another one resolved before it.        *)
LEMMA MarkStep == TypeOK /\ MirrorInv /\ RewriteInv /\ MarkInv /\ [Next]_vars => MarkInv'
<1> SUFFICES ASSUME TypeOK, MirrorInv, RewriteInv, MarkInv, [Next]_vars PROVE MarkInv'
  OBVIOUS
<1>0. \A p \in Passes : pc[p] \notin {"idle", "loop"} => hand[p] \in Recs
  BY DEF TypeOK
<1>00. \A p \in Passes, r \in Recs : /\ r \in Claimed(p) <=> r \in todo[p] \/ r = hand[p]
                                     /\ r \in Claimed(p)' <=> r \in todo'[p] \/ r = hand'[p]
  BY NoneAssumption DEF Claimed
<1> USE NoneAssumption, <1>0, <1>00 DEF TypeOK, Recorded, scorerVars, passVars, MarkInv,
     ClaimedOnce, PendingIsOpen, MarkedFirst, SettlementIsLatest, Rewriting, InRewrite, Pending
<1>1. ASSUME NEW r \in Recs, NEW t \in Tickers, Append(r, t), UNCHANGED <<mark, passVars>>,
             exposed \subseteq exposed'
      PROVE  MarkInv'
  BY <1>1 DEF Append
<1>2. ASSUME UNCHANGED <<file, mark, exposed, passVars>> PROVE MarkInv'
  BY <1>2
<1>2a. ASSUME NEW p \in Passes, UNCHANGED <<file, exposed, rows>>,
              \A q \in Passes \ {p} : /\ pc'[q] = pc[q] /\ todo'[q] = todo[q]
                                      /\ hand'[q] = hand[q],
              ~Rewriting(p), ~Rewriting(p)',
              pc'[p] = "read" => pc[p] = "read" /\ hand'[p] = hand[p],
              hand'[p] \notin todo'[p],
              \A s \in Recs : /\ s \in Claimed(p)' => s \in Claimed(p)
                              /\ Pending(p, s)' => Pending(p, s),
              \A s \in Recs \ exposed :
                \/ mark'[s] = mark[s]
                \/ /\ file[s] # "resolved"
                   /\ \A q \in Passes : /\ hand'[q] # s
                                        /\ Rewriting(q) => rows[q][s] # "resolved"
       PROVE  MarkInv'
  <2>1. ClaimedOnce'
    <3>1. \A q \in Passes, s \in Recs : s \in Claimed(q)' => s \in Claimed(q)
      BY <1>2a
    <3>2. QED
      BY <1>2a, <3>1
  <2>2. PendingIsOpen'
    <3>1. \A q \in Passes, s \in Recs : Pending(q, s)' => Pending(q, s)
      BY <1>2a
    <3>2. \A q \in Passes : Rewriting(q)' => Rewriting(q) /\ hand'[q] = hand[q]
      BY <1>2a
    <3>3. QED
      BY <1>2a, <3>1, <3>2
  <2>3. MarkedFirst'
    <3>1. \A q \in Passes : Rewriting(q)' => Rewriting(q) /\ hand'[q] = hand[q]
      BY <1>2a
    <3>2. \A q \in Passes : pc'[q] = "read" => pc[q] = "read" /\ (q = p \/ hand'[q] = hand[q])
      BY <1>2a
    <3>3. pc'[p] = "read" => hand'[p] = hand[p]
      BY <1>2a
    <3>4. QED
      BY <1>2a, <3>1, <3>2, <3>3
  <2>4. SettlementIsLatest'
    BY <1>2a
  <2>5. QED
    BY <2>1, <2>2, <2>3, <2>4
<1>3. CASE Recording
  BY <1>1, <1>2, <1>3
     DEF Recording, Record, Score, Mirror, ScoreSkip, ScoreStart, ScoreEnd, ScoreDies
<1>4. ASSUME NEW p \in Passes, PassStart(p) PROVE MarkInv'
  <2>1. PICK chosen \in (SUBSET Open) \ {{}} :
          /\ todo' = [todo EXCEPT ![p] = chosen]
          /\ exposed' = exposed \cup (chosen \cap UNION {Claimed(q) : q \in Passes \ {p}})
    BY <1>4 DEF PassStart
  <2>2. /\ pc[p] = "idle" /\ pc' = [pc EXCEPT ![p] = "loop"] /\ hand[p] = NoRec
        /\ UNCHANGED <<file, mark, hand, rows>>
    BY <1>4 DEF PassStart
  <2>3. \A r \in chosen : r \in Recorded /\ file[r] = "open"
    BY DEF Open, MirrorInv, Unused
  <2>4. \A q \in Passes, r \in chosen \ exposed' :
          Rewriting(q) /\ r # hand[q] => rows[q][r] # "resolved"
    BY <2>1, <2>3 DEF RewriteInv, LoneRewrite
  <2>5. \A q \in Passes \ {p}, r \in chosen \ exposed' : r \notin Claimed(q)
    <3>1. SUFFICES ASSUME NEW q \in Passes \ {p}, NEW r \in chosen, r \in Claimed(q)
                   PROVE  r \in exposed'
      OBVIOUS
    <3>2. r \in UNION {Claimed(s) : s \in Passes \ {p}}
      BY <3>1
    <3>3. QED
      BY <2>1, <3>1, <3>2
  <2>6. ClaimedOnce'
    <3>1. \A q \in Passes \ {p} : todo'[q] = todo[q] /\ hand'[q] = hand[q]
      BY <2>1, <2>2
    <3>2. todo'[p] = chosen /\ hand'[p] = NoRec
      BY <2>1, <2>2
    <3>2a. NoRec \notin chosen
      BY <2>3
    <3>3. /\ \A r \in Recs : r \in Claimed(p)' => r \in chosen
          /\ \A q \in Passes \ {p}, r \in Recs : r \in Claimed(q)' => r \in Claimed(q)
      <4>1. \A r \in Recs : r \in Claimed(p)' => r \in chosen
        BY <1>00, <3>2
      <4>2. \A q \in Passes \ {p}, r \in Recs : r \in Claimed(q)' => r \in Claimed(q)
        BY <1>00, <3>1
      <4>3. QED
        BY <4>1, <4>2
    <3>4. \A q \in Passes : hand'[q] \notin todo'[q]
      BY <3>1, <3>2, <3>2a
    <3>5. exposed \subseteq exposed'
      BY <2>1
    <3>6. ASSUME NEW q \in Passes, NEW s \in Passes, NEW r \in Recs \ exposed',
                 r \in Claimed(q)', r \in Claimed(s)'
          PROVE  q = s
      <4>1. CASE q = p \/ s = p
        BY <2>5, <3>3, <3>6, <4>1
      <4>2. CASE q # p /\ s # p
        <5>1. r \in Claimed(q) /\ r \in Claimed(s) /\ r \notin exposed
          BY <3>3, <3>5, <3>6, <4>2
        <5>2. QED
          BY <5>1
      <4>3. QED
        BY <4>1, <4>2
    <3>7. QED
      BY <3>4, <3>6
  <2>7. PendingIsOpen'
    BY <2>1, <2>2, <2>3, <2>4
  <2>8. MarkedFirst' /\ SettlementIsLatest'
    BY <2>1, <2>2
  <2>9. QED
    BY <2>6, <2>7, <2>8
<1>5. ASSUME NEW p \in Passes, NEW r \in Recs, FetchFails(p, r) PROVE MarkInv'
  <2>1. /\ pc[p] = "loop" /\ r \in todo[p] /\ todo' = [todo EXCEPT ![p] = @ \ {r}]
        /\ mark' = [mark EXCEPT ![r] = "unresolved"]
        /\ UNCHANGED <<file, pc, hand, rows, exposed>>
    BY <1>5 DEF FetchFails
  <2>2. r \notin exposed => /\ file[r] # "resolved"
                            /\ \A q \in Passes : hand[q] # r
                            /\ \A q \in Passes : Rewriting(q) => rows[q][r] # "resolved"
    <3>1. Pending(p, r) /\ r \in Claimed(p) /\ hand[p] # r
      BY <2>1
    <3>2. \A q \in Passes : hand[q] = r => r \in Claimed(q)
      OBVIOUS
    <3>3. QED
      BY <3>1, <3>2
  <2>3. QED
    BY <2>1, <2>2
<1>6. ASSUME NEW p \in Passes, NEW r \in Recs, Fetch(p, r) PROVE MarkInv'
  <2>1. /\ pc[p] = "loop" /\ r \in todo[p] /\ todo' = [todo EXCEPT ![p] = @ \ {r}]
        /\ hand[p] = NoRec /\ hand' = [hand EXCEPT ![p] = r]
        /\ pc' = [pc EXCEPT ![p] = "append"]
        /\ UNCHANGED <<file, mark, rows, exposed>>
    BY <1>6 DEF Fetch
  <2>2. QED
    BY <1>2a, <2>1
<1>7. ASSUME NEW p \in Passes, AppendMark(p) PROVE MarkInv'
  <2> DEFINE h == hand[p]
  <2>1. pc[p] = "append" /\ h \in Recs /\ UNCHANGED <<file, todo, rows, exposed>>
    BY <1>7 DEF AppendMark
  <2>2. h \notin exposed => /\ file[h] # "resolved" /\ h \notin todo[p]
                            /\ \A q \in Passes \ {p} : hand[q] # h
                            /\ \A q \in Passes : Rewriting(q) => rows[q][h] # "resolved"
    <3>1. Pending(p, h) /\ h \in Claimed(p) /\ h \notin todo[p] /\ ~Rewriting(p)
      BY <2>1
    <3>2. \A q \in Passes : hand[q] = h => h \in Claimed(q)
      BY <2>1
    <3>3. h \notin exposed => \A q \in Passes \ {p} : hand[q] # h
      BY <2>1, <3>1, <3>2
    <3>4. QED
      BY <2>1, <3>1, <3>3
  <2>3. CASE final[p]
    BY <1>7, <2>1, <2>2, <2>3 DEF AppendMark
  <2>4. CASE ~final[p]
    <3>1. /\ mark' = [mark EXCEPT ![h] = "unresolved"] /\ pc' = [pc EXCEPT ![p] = "loop"]
          /\ hand' = [hand EXCEPT ![p] = NoRec]
      BY <1>7, <2>4 DEF AppendMark
    <3>2. \A q \in Passes : h \notin exposed => hand'[q] # h
      BY <2>1, <2>2, <3>1
    <3>3. \A s \in Recs : s # h => mark'[s] = mark[s]
      BY <3>1
    <3>4. \A s \in Recs : /\ s \in Claimed(p)' => s \in Claimed(p)
                          /\ Pending(p, s)' => Pending(p, s)
      BY <1>00, <2>1, <3>1
    <3>5. /\ \A q \in Passes \ {p} : /\ pc'[q] = pc[q] /\ todo'[q] = todo[q]
                                     /\ hand'[q] = hand[q]
          /\ ~Rewriting(p) /\ ~Rewriting(p)' /\ pc'[p] # "read"
          /\ hand'[p] \notin todo'[p]
      BY <2>1, <3>1
    <3>6. \A s \in Recs \ exposed :
            \/ mark'[s] = mark[s]
            \/ /\ file[s] # "resolved"
               /\ \A q \in Passes : /\ hand'[q] # s
                                    /\ Rewriting(q) => rows[q][s] # "resolved"
      <4> HIDE DEF h
      <4>1. QED
        BY <2>2, <3>2, <3>3
    <3>7. QED
      BY <1>2a, <2>1, <3>4, <3>5, <3>6
  <2>5. QED
    BY <2>3, <2>4
<1>8. ASSUME NEW p \in Passes, ReadRows(p) PROVE MarkInv'
  <2>1. /\ pc[p] = "read" /\ pc' = [pc EXCEPT ![p] = "truncate"]
        /\ rows' = [rows EXCEPT ![p] = Resolving(hand[p])]
        /\ exposed \subseteq exposed' /\ hand[p] \in Recs
        /\ UNCHANGED <<file, mark, todo, hand>>
    BY <1>8 DEF ReadRows
  <2>2. \A r \in Recs : r # hand[p] => rows'[p][r] = file[r]
    BY <2>1 DEF Resolving
  <2>3. rows'[p][hand[p]] = "resolved" => hand[p] \in exposed' \/ mark[hand[p]] = "resolved"
    BY <2>1
  <2>4. \A q \in Passes \ {p} : rows'[q] = rows[q] /\ pc'[q] = pc[q]
    BY <2>1
  <2>5. ClaimedOnce'
    BY <2>1, <2>4
  <2>6. PendingIsOpen'
    BY <2>1, <2>2, <2>4
  <2>7. MarkedFirst' /\ SettlementIsLatest'
    BY <2>1, <2>2, <2>3, <2>4
  <2>8. QED
    BY <2>5, <2>6, <2>7
<1>9. ASSUME NEW p \in Passes, Truncate(p) PROVE MarkInv'
  <2>1. /\ pc[p] = "truncate" /\ pc' = [pc EXCEPT ![p] = "write"] /\ file' = NoRows
        /\ UNCHANGED <<mark, todo, hand, rows, exposed>>
    BY <1>9 DEF Truncate
  <2>2. QED
    BY <2>1
<1>10. ASSUME NEW p \in Passes, WriteBack(p) PROVE MarkInv'
  <2>1. /\ pc[p] = "write" /\ pc' = [pc EXCEPT ![p] = "resolve"] /\ hand[p] \in Recs
        /\ \A r \in Recs : rows[p][r] # "none" => file'[r] = rows[p][r]
        /\ \A r \in Recs : file'[r] = rows[p][r] \/ file'[r] = file[r]
        /\ \A q \in Passes \ {p} : rows'[q] = rows[q]
        /\ UNCHANGED <<mark, todo, hand, exposed>>
    <3>1. /\ \A r \in Recs : rows[p][r] # "none" => file'[r] = rows[p][r]
          /\ \A r \in Recs : file'[r] = rows[p][r] \/ file'[r] = file[r]
      BY <1>10 DEF WriteBack
    <3>2. /\ pc[p] = "write" /\ pc' = [pc EXCEPT ![p] = "resolve"]
          /\ \A q \in Passes \ {p} : rows'[q] = rows[q]
          /\ UNCHANGED <<mark, todo, hand, exposed>>
      BY <1>10 DEF WriteBack
    <3>3. hand[p] \in Recs
      BY <3>2
    <3>4. QED
      BY <3>1, <3>2, <3>3
  <2>2. ClaimedOnce'
    BY <2>1
  <2>3. \A q \in Passes, r \in Recs : Pending(q, r)' => Pending(q, r)
    BY <2>1
  <2>4. \A q \in Passes, r \in Recs \ exposed :
          Pending(q, r)' => r # hand[p] /\ file'[r] # "resolved"
    BY <2>1, <2>3
  <2>5. PendingIsOpen'
    BY <2>1, <2>3, <2>4
  <2>6. MarkedFirst' /\ SettlementIsLatest'
    BY <2>1
  <2>7. QED
    BY <2>2, <2>5, <2>6
<1>11. ASSUME NEW p \in Passes, ResolveRemote(p) PROVE MarkInv'
  <2>1. /\ pc[p] = "resolve" /\ pc' = [pc EXCEPT ![p] = "loop"]
        /\ hand' = [hand EXCEPT ![p] = NoRec]
        /\ UNCHANGED <<file, mark, todo, rows, exposed>>
    BY <1>11 DEF ResolveRemote
  <2>2. \A s \in Recs : /\ s \in Claimed(p)' => s \in Claimed(p)
                        /\ Pending(p, s)' => Pending(p, s)
    BY <1>00, <2>1
  <2>3. /\ \A q \in Passes \ {p} : /\ pc'[q] = pc[q] /\ todo'[q] = todo[q]
                                   /\ hand'[q] = hand[q]
        /\ ~Rewriting(p) /\ ~Rewriting(p)' /\ pc'[p] # "read"
        /\ hand'[p] \notin todo'[p]
    BY <2>1
  <2>4. QED
    BY <1>2a, <2>1, <2>2, <2>3
<1>12. ASSUME NEW p \in Passes, PassEnds(p), UNCHANGED mark, exposed \subseteq exposed',
              \A r \in Recs \ exposed' : file'[r] = "resolved" => file[r] = "resolved"
       PROVE  MarkInv'
  <2>1. /\ pc' = [pc EXCEPT ![p] = "idle"] /\ hand' = [hand EXCEPT ![p] = NoRec]
        /\ todo' = [todo EXCEPT ![p] = {}]
        /\ \A q \in Passes \ {p} : rows'[q] = rows[q]
    BY <1>12 DEF PassEnds
  <2>2. QED
    BY <1>12, <2>1
<1>13. ASSUME NEW p \in Passes, PassEnd(p) PROVE MarkInv'
  BY <1>12, <1>13 DEF PassEnd
<1>14. ASSUME NEW p \in Passes, PassDies(p) PROVE MarkInv'
  <2>1. CASE pc[p] = "write"
    <3>1. \A r \in Recs \ exposed' : file'[r] = file[r] \/ file'[r] = "none"
      BY <1>14, <2>1 DEF PassDies, MirrorInv, Unused
    <3>2. QED
      BY <1>12, <1>14, <2>1, <3>1 DEF PassDies
  <2>2. CASE pc[p] # "write"
    BY <1>12, <1>14, <2>2 DEF PassDies
  <2>3. QED
    BY <2>1, <2>2
<1>15. ASSUME NEW r \in Recs, SharedResolve(r) PROVE MarkInv'
  BY <1>2, <1>15 DEF SharedResolve
<1>16. ASSUME NEW t \in Tickers, Settle(t) PROVE MarkInv'
  BY <1>2, <1>16 DEF Settle
<1>17. CASE UNCHANGED vars
  BY <1>2, <1>17 DEF vars
<1>18. QED
  BY <1>3, <1>4, <1>5, <1>6, <1>7, <1>8, <1>9, <1>10, <1>11, <1>13, <1>14, <1>15, <1>16, <1>17
     DEF Next, Marking

(* The scorer: what it may still record is open under none of its ids.     *)
LEMMA ScoreStep ==
  TypeOK /\ MirrorInv /\ RewriteInv /\ ScoreInv /\ [Next]_vars => ScoreInv'
<1> SUFFICES ASSUME TypeOK, MirrorInv, RewriteInv, ScoreInv, [Next]_vars PROVE ScoreInv'
  OBVIOUS
<1> USE NoneAssumption DEF TypeOK, Recorded, scorerVars, passVars, ScoreInv, ScorerKnows,
     OneOpenPerRewrite, OneOpenPerTicker, Rewriting, InRewrite
<1>1. ASSUME NEW r \in Recs, NEW t \in Tickers, Record(r, t) PROVE ScoreInv'
  <2>1. /\ r \notin scored /\ about' = [about EXCEPT ![r] = t]
        /\ file' = [file EXCEPT ![r] = "open"] /\ exposed \subseteq exposed'
        /\ UNCHANGED <<scored, scorerVars, pc, rows>>
    BY <1>1 DEF Record, Append
  <2>2. \A s \in scored : about'[s] = about[s] /\ file'[s] = file[s]
    BY <2>1
  <2>3. QED
    BY <2>1, <2>2
<1>2. ASSUME NEW r \in Recs, NEW t \in Tickers, Score(r, t) PROVE ScoreInv'
  <2>1. /\ r \notin scored /\ about' = [about EXCEPT ![r] = t] /\ scored' = scored \cup {r}
        /\ scoring /\ t \in toScore \ alreadyOpen /\ toScore' = toScore \ {t}
        /\ file' = [file EXCEPT ![r] = "open"]
        /\ exposed' = IF InRewrite \/ blind THEN exposed \cup {r} ELSE exposed
        /\ UNCHANGED <<scoring, alreadyOpen, blind, pc, rows>>
    BY <1>2 DEF Score, Append
  <2>2. \A s \in scored : about'[s] = about[s] /\ file'[s] = file[s]
    BY <2>1
  <2>3. about'[r] = t
    BY <2>1
  <2>4. r \notin exposed' => /\ ~InRewrite /\ ~blind
    BY <2>1
  <2>5. r \notin exposed' => \A s \in scored \ exposed : about[s] = t => file[s] # "open"
    BY <2>1, <2>4
  <2>6. ScorerKnows'
    BY <2>1, <2>2, <2>3
  <2>7. OneOpenPerRewrite'
    BY <2>1, <2>2, <2>4
  <2>8. OneOpenPerTicker'
    BY <2>1, <2>2, <2>3, <2>5
  <2>9. QED
    BY <2>6, <2>7, <2>8
<1>3. ASSUME UNCHANGED <<about, scored, file, exposed, pc, rows>>,
             \/ ~scoring'
             \/ UNCHANGED <<scoring, alreadyOpen, blind>> /\ toScore' \subseteq toScore
      PROVE  ScoreInv'
  BY <1>3
<1>4. CASE ScoreStart
  <2>1. /\ alreadyOpen' = {about[r] : r \in Open} /\ blind' = InRewrite
        /\ UNCHANGED <<about, scored, file, exposed, pc, rows>>
    BY <1>4 DEF ScoreStart
  <2>2. \A s \in scored : about[s] \notin alreadyOpen' => file[s] # "open"
    BY <2>1 DEF Open
  <2>3. QED
    BY <2>1, <2>2
<1>5. CASE Recording
  BY <1>1, <1>2, <1>3, <1>4, <1>5
     DEF Recording, Mirror, ScoreSkip, ScoreEnd, ScoreDies, ScorerEnds
<1>6. ASSUME NEW p \in Passes, UNCHANGED <<about, scored, file, scorerVars>>,
             exposed \subseteq exposed', pc'[p] \notin {"truncate", "write"},
             \A q \in Passes \ {p} : pc'[q] = pc[q] /\ rows'[q] = rows[q]
      PROVE  ScoreInv'
  <2>1. \A q \in Passes :
          pc'[q] \in {"truncate", "write"} => pc'[q] = pc[q] /\ rows'[q] = rows[q]
    BY <1>6
  <2>2. QED
    BY <1>6, <2>1
<1>7. ASSUME NEW p \in Passes,
             PassStart(p) \/ AppendMark(p) \/ ResolveRemote(p) \/ PassEnd(p)
      PROVE  ScoreInv'
  <2>1. /\ UNCHANGED <<about, scored, file, scorerVars>>
        /\ exposed \subseteq exposed' /\ pc'[p] \notin {"truncate", "write"}
        /\ \A q \in Passes \ {p} : pc'[q] = pc[q] /\ rows'[q] = rows[q]
    BY <1>7 DEF PassStart, AppendMark, ResolveRemote, PassEnd, PassEnds
  <2>2. QED
    BY <1>6, <2>1
<1>8. ASSUME NEW p \in Passes, NEW r \in Recs, FetchFails(p, r) \/ Fetch(p, r) PROVE ScoreInv'
  <2>1. /\ UNCHANGED <<about, scored, file, scorerVars, exposed>>
        /\ pc'[p] \notin {"truncate", "write"}
        /\ \A q \in Passes \ {p} : pc'[q] = pc[q] /\ rows'[q] = rows[q]
    BY <1>8 DEF FetchFails, Fetch
  <2>2. QED
    BY <1>6, <2>1
<1>9. ASSUME NEW p \in Passes, ReadRows(p) PROVE ScoreInv'
  <2>1. /\ pc[p] = "read" /\ pc' = [pc EXCEPT ![p] = "truncate"]
        /\ rows' = [rows EXCEPT ![p] = Resolving(hand[p])]
        /\ exposed \subseteq exposed'
        /\ UNCHANGED <<about, scored, file, scorerVars>>
    BY <1>9 DEF ReadRows
  <2>2. \A s \in Recs : rows'[p][s] = "open" => file[s] = "open"
    BY <2>1 DEF Resolving
  <2>3. \A q \in Passes \ {p} : rows'[q] = rows[q] /\ pc'[q] = pc[q]
    BY <2>1
  <2>4. QED
    BY <2>1, <2>2, <2>3
<1>10. ASSUME NEW p \in Passes, Truncate(p) PROVE ScoreInv'
  <2>1. /\ pc[p] = "truncate" /\ pc' = [pc EXCEPT ![p] = "write"] /\ file' = NoRows
        /\ UNCHANGED <<about, scored, exposed, rows, scorerVars>>
    BY <1>10 DEF Truncate
  <2>2. QED
    BY <2>1
<1>11. ASSUME NEW p \in Passes, WriteBack(p) PROVE ScoreInv'
  <2>1. /\ pc[p] = "write" /\ pc' = [pc EXCEPT ![p] = "resolve"]
        /\ \A r \in Recs : rows[p][r] # "none" => file'[r] = rows[p][r]
        /\ \A q \in Passes \ {p} : rows'[q] = rows[q]
        /\ UNCHANGED <<about, scored, exposed, scorerVars>>
    BY <1>11 DEF WriteBack
  <2>2. \A s \in scored \ exposed : file'[s] = rows[p][s]
    BY <2>1 DEF RewriteInv, LoneRewrite
  <2>3. QED
    BY <2>1, <2>2
<1>12. ASSUME NEW p \in Passes, PassDies(p) PROVE ScoreInv'
  <2>1. /\ pc' = [pc EXCEPT ![p] = "idle"]
        /\ \A q \in Passes \ {p} : rows'[q] = rows[q]
        /\ UNCHANGED <<about, scored, scorerVars>>
    BY <1>12 DEF PassDies, PassEnds
  <2>2. CASE pc[p] = "write"
    <3>1. scored' \ exposed' = {}
      BY <1>12, <2>1, <2>2 DEF PassDies
    <3>2. QED
      BY <2>1, <3>1
  <2>3. CASE pc[p] # "write"
    <3>1. UNCHANGED <<file, exposed>>
      BY <1>12, <2>3 DEF PassDies
    <3>2. QED
      BY <1>6, <2>1, <3>1
  <2>4. QED
    BY <2>2, <2>3
<1>13. ASSUME NEW r \in Recs, SharedResolve(r) PROVE ScoreInv'
  BY <1>3, <1>13 DEF SharedResolve
<1>14. ASSUME NEW t \in Tickers, Settle(t) PROVE ScoreInv'
  BY <1>3, <1>14 DEF Settle
<1>15. CASE UNCHANGED vars
  BY <1>3, <1>15 DEF vars
<1>16. QED
  BY <1>5, <1>7, <1>8, <1>9, <1>10, <1>11, <1>12, <1>13, <1>14, <1>15 DEF Next, Marking

(* The invariant holds over all interleavings and deaths of the programs.  *)
LEMMA PaperInvariant == Spec => []PaperIInv
<1>1. PaperIInv /\ [Next]_vars => PaperIInv'
  BY PaperTypeStep, MirrorStep, RewriteStep, MarkStep, ScoreStep DEF PaperIInv, MirrorInv
<1>2. QED
  BY <1>1, PaperInit, PTL DEF Spec

(* The file, the marks and the passes stay well formed.                    *)
THEOREM PaperTypes == Spec => []TypeOK
<1>1. PaperIInv => TypeOK
  BY DEF PaperIInv
<1>2. QED
  BY <1>1, PaperInvariant, PTL

(* "Source of truth is a local JSONL store": a recommendation that was not *)
(* appended to, nor part of, a rewrite that another rewrite overlaps or    *)
(* that died is in the file between rewrites, for any number of programs.  *)
THEOREM NothingRecordedIsLost == Spec => []RecordedSurvive
<1>1. PaperIInv => RecordedSurvive
  BY DEF PaperIInv, RewriteInv
<1>2. QED
  BY <1>1, PaperInvariant, PTL

(* "Record a (ticker, side) once while it is still open": the scorer's     *)
(* read of what is open is enough, however its cycles, the other programs' *)
(* records and the rewrites interleave, but for the exposed rows.          *)
THEOREM ScorerRecordsOnce == Spec => []OneOpenPerTicker
<1>1. PaperIInv => OneOpenPerTicker
  BY DEF PaperIInv, ScoreInv
<1>2. QED
  BY <1>1, PaperInvariant, PTL

(* The latest mark of a resolved recommendation is its settlement, for any *)
(* number of passes that never had it before them at once.                 *)
THEOREM SettlementsStayLatest == Spec => []SettlementIsLatest
<1>1. PaperIInv => SettlementIsLatest
  BY DEF PaperIInv, MarkInv
<1>2. QED
  BY <1>1, PaperInvariant, PTL

(* A step leaves what is resolved in Supabase resolved: the upsert that    *)
(* would reopen it comes once, and first.                                  *)
THEOREM SharedResolutionsStay == Spec => SharedResolvedIsFinal
<1>1. TypeOK /\ MirrorInv /\ [Next]_vars
        => [\A r \in Recs : remote[r] = "resolved" => remote'[r] = "resolved"]_vars
  <2> SUFFICES ASSUME TypeOK, MirrorInv, Next
               PROVE  \A r \in Recs : remote[r] = "resolved" => remote'[r] = "resolved"
    OBVIOUS
  <2>1. ASSUME NEW r \in Recs, Mirror(r) PROVE \A s \in Recs : remote'[s] = remote[s] \/ s = r
    BY <2>1 DEF Mirror, TypeOK
  <2>2. ASSUME NEW r \in Recs, remote' \in {Resolved(r), remote}
        PROVE  \A s \in Recs : remote'[s] = remote[s] \/ remote'[s] = "resolved"
    BY <2>2 DEF Resolved, TypeOK
  <2>3. ASSUME NEW p \in Passes, ResolveRemote(p)
        PROVE  \A s \in Recs : remote'[s] = remote[s] \/ remote'[s] = "resolved"
    <3>1. hand[p] \in Recs
      BY <2>3 DEF ResolveRemote, TypeOK
    <3>2. QED
      BY <2>2, <2>3, <3>1 DEF ResolveRemote
  <2>4. QED
    BY <2>1, <2>2, <2>3
       DEF Next, Recording, Marking, Record, Score, Append, ScoreSkip, ScoreStart, ScoreEnd,
           ScoreDies, Mirror, PassStart, AppendMark, ReadRows, Truncate, WriteBack, PassEnd,
           PassDies, FetchFails, Fetch, SharedResolve, Settle, MirrorInv, MirrorIsFirst
<1>2. PaperIInv => TypeOK /\ MirrorInv
  BY DEF PaperIInv
<1>3. QED
  BY <1>1, <1>2, PaperInvariant, PTL DEF Spec, SharedResolvedIsFinal
=============================================================================
