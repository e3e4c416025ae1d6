--------------------------- MODULE ConversionProofs ---------------------------
(***************************************************************************)
(* Proofs about conversions and their rollback, for every set of families, *)
(* generations, publishers and operators: the commands keep the            *)
(* publication protocol, so all that is proved of it holds of them; the    *)
(* receipt of a conversion suffices to undo it; and nothing is discarded   *)
(* that no command was told to discard.                                    *)
(***************************************************************************)
EXTENDS NativeConversion, PublicationProofs

(* The edits a command makes of its receipt. *)
LEMMA ReceiptEdits ==
    ASSUME NEW r \in Receipt
    PROVE  /\ \A o \in Outcomes :
                 /\ [r EXCEPT !.publish = o] \in Receipt
                 /\ [r EXCEPT !.publish = o].publish = o
                 /\ [r EXCEPT !.publish = o].family = r.family
                 /\ [r EXCEPT !.publish = o].captured = r.captured
                 /\ [r EXCEPT !.publish = o].generation = r.generation
           /\ \A o \in {"none", "attempted", "restored", "not restored"} :
                 /\ [r EXCEPT !.rollback = o] \in Receipt
                 /\ [r EXCEPT !.rollback = o].publish = r.publish
                 /\ [r EXCEPT !.rollback = o].family = r.family
                 /\ [r EXCEPT !.rollback = o].captured = r.captured
                 /\ [r EXCEPT !.rollback = o].generation = r.generation
  BY DEF Receipt

(* A receipt of the same conversion that forgets no attempt. *)
Follows(new, old) ==
    /\ new \in Receipt
    /\ new.family = old.family /\ new.captured = old.captured /\ new.generation = old.generation
    /\ old.publish # "none" => new.publish # "none"

(* A command leaves the receipts alone, or edits one of them. *)
ReceiptsStay ==
    \/ UNCHANGED receipt
    \/ \E c \in Converters, r \in Receipt :
          receipt[c] # None /\ Follows(r, receipt[c]) /\ receipt' = [receipt EXCEPT ![c] = r]

(* The one other change: a conversion writes its first receipt. *)
FirstReceipt(c) ==
    /\ c \in Converters /\ receipt[c] = None
    /\ \E r \in Receipt : receipt' = [receipt EXCEPT ![c] = r]

LEMMA ConvertWrites ==
    ASSUME TypeOK, ConversionTypeOK, ConvertersInv, NEW c \in Converters,
           NEW f \in Families, NEW layout, NEW g \in Generations, NEW read,
           Convert(c, f, read, layout, g)
    PROVE  /\ FirstReceipt(c)
           /\ receipt'[c] = [family |-> f, captured |-> Entries(pointer)[f], generation |-> g,
                             publish |-> "none", rollback |-> "none"]
<1>1. Entries(pointer)[f] \in Generations
  BY EntriesType DEF Convert, Capture, Convertible, Stored, TypeOK, Index, Entry
<1> DEFINE r == [family |-> f, captured |-> Entries(pointer)[f], generation |-> g,
                 publish |-> "none", rollback |-> "none"]
<1>2. r \in Receipt
  BY <1>1 DEF Receipt, Outcomes
<1>3. receipt' = [receipt EXCEPT ![c] = r]
  BY DEF Convert, Capture, Stored
<1>4. receipt[c] = None
  BY DEF Convert, ConvertersInv
<1> HIDE DEF r
<1>5. receipt'[c] = r
  BY <1>3 DEF ConversionTypeOK
<1> QED BY <1>2, <1>3, <1>4, <1>5 DEF FirstReceipt, r

(* An edit of one field of a receipt that exists follows it. *)
LEMMA EditStays ==
    ASSUME ConversionTypeOK, NEW c \in Converters, receipt[c] # None
    PROVE  /\ \A o \in Outcomes \ {"none"} :
                 receipt' = [receipt EXCEPT ![c].publish = o] => ReceiptsStay
           /\ \A o \in {"attempted", "restored", "not restored"} :
                 receipt' = [receipt EXCEPT ![c].rollback = o] => ReceiptsStay
<1>1. receipt[c] \in Receipt
  BY DEF ConversionTypeOK
<1>2. ASSUME NEW o \in Outcomes \ {"none"}, receipt' = [receipt EXCEPT ![c].publish = o]
      PROVE  ReceiptsStay
  <2> DEFINE r == [receipt[c] EXCEPT !.publish = o]
  <2>1. r \in Receipt /\ Follows(r, receipt[c])
    BY <1>1, ReceiptEdits DEF Follows
  <2>2. receipt' = [receipt EXCEPT ![c] = r]
    BY <1>2
  <2> HIDE DEF r
  <2> QED BY <2>1, <2>2 DEF ReceiptsStay
<1>3. ASSUME NEW o \in {"attempted", "restored", "not restored"},
             receipt' = [receipt EXCEPT ![c].rollback = o]
      PROVE  ReceiptsStay
  <2> DEFINE r == [receipt[c] EXCEPT !.rollback = o]
  <2>0. o \in {"none", "attempted", "restored", "not restored"}
    BY <1>3
  <2>1. r \in Receipt /\ Follows(r, receipt[c])
    BY <2>0, <1>1, ReceiptEdits, Zenon DEF Follows
  <2>2. receipt' = [receipt EXCEPT ![c] = r]
    BY <1>3
  <2> HIDE DEF r
  <2> QED BY <2>1, <2>2 DEF ReceiptsStay
<1> QED BY <1>2, <1>3

LEMMA ReceiptStep ==
    ASSUME TypeOK, CInv, [CNext]_cvars
    PROVE  ReceiptsStay \/ \E c \in Converters : Converts(c)
<1> USE DEF CInv
<1>1. ASSUME NEW c \in Converters, Conversion(c), ~Converts(c)
      PROVE  ReceiptsStay
  <2>2. command[c] # "ready" => receipt[c] # None
    BY DEF ConvertersInv, At
  <2>3. CASE RecordAttempt(c)
    BY <2>2, <2>3, EditStays DEF RecordAttempt, At, Outcomes
  <2>4. CASE RecordPublished(c)
    BY <2>2, <2>4, EditStays DEF RecordPublished, At, Outcomes
  <2>5. CASE SettlePublish(c)
    BY <2>2, <2>5, EditStays DEF SettlePublish, At, Outcomes, ReceiptsStay
  <2>6. CASE PublishPrepared(c) \/ PublishGoesOn(c) \/ PublishReturns(c) \/ PublishRaises(c) \/ Die(c)
    BY <2>6 DEF PublishPrepared, PublishGoesOn, PublishReturns, PublishRaises, Die, ReceiptsStay
  <2> QED BY <1>1, <2>3, <2>4, <2>5, <2>6 DEF Conversion
<1>2. ASSUME NEW o \in Operators, Rollback(o) PROVE ReceiptsStay
  <2>1. command[o] \in {"running", "returned", "raised"} =>
           rolling[o] \in Converters /\ receipt[rolling[o]] # None
    BY DEF OperatorsInv
  <2>2. ASSUME NEW c \in Converters, NEW discard \in BOOLEAN, StartRollback(o, c, discard)
        PROVE  ReceiptsStay
    BY <2>2, EditStays DEF StartRollback
  <2>3. CASE RecordRestored(o)
    BY <2>1, <2>3, EditStays DEF RecordRestored, At
  <2>4. CASE SettleRollback(o)
    BY <2>1, <2>4, EditStays DEF SettleRollback, At, ReceiptsStay
  <2>5. CASE RestoreGoesOn(o) \/ RestoreReturns(o) \/ RestoreRaises(o) \/ Die(o)
    BY <2>5 DEF RestoreGoesOn, RestoreReturns, RestoreRaises, Die, ReceiptsStay
  <2> QED BY <1>2, <2>2, <2>3, <2>4, <2>5 DEF Rollback
<1>3. CASE Others
  BY <1>3 DEF Others, ReceiptsStay
<1>4. CASE UNCHANGED cvars
  BY <1>4 DEF cvars, ReceiptsStay
<1> QED BY <1>1, <1>2, <1>3, <1>4 DEF CNext

(* What every step keeps of the receipts and of the waivers. *)
Kept ==
    /\ receipt' \in [Converters -> Receipt \cup {None}]
    /\ \A c \in Converters : receipt[c] # None => Follows(receipt'[c], receipt[c])
    /\ waived \subseteq waived'

LEMMA Keeping ==
    ASSUME TypeOK, CInv, [CNext]_cvars
    PROVE  Kept
<1>1. waived \subseteq waived'
  BY DEF CNext, cvars, Conversion, Rollback, Others, Convert, Capture, PublishPrepared, RecordAttempt,
         PublishGoesOn, PublishReturns, PublishRaises, RecordPublished, SettlePublish, Die, StartRollback,
         RestoreGoesOn, RestoreReturns, RestoreRaises, RecordRestored, SettleRollback, Converts
<1>2. \A c \in Converters : receipt[c] # None => receipt[c] \in Receipt
  BY DEF CInv, ConversionTypeOK
<1>3. CASE UNCHANGED receipt
  BY <1>1, <1>2, <1>3 DEF Kept, Follows, CInv, ConversionTypeOK
<1>4. ASSUME NEW c \in Converters, NEW r \in Receipt,
             receipt[c] = None \/ Follows(r, receipt[c]), receipt' = [receipt EXCEPT ![c] = r]
      PROVE  Kept
  <2>1. \A b \in Converters : receipt'[b] = IF b = c THEN r ELSE receipt[b]
    BY <1>4 DEF CInv, ConversionTypeOK
  <2>2. receipt' \in [Converters -> Receipt \cup {None}]
    BY <1>4 DEF CInv, ConversionTypeOK
  <2> QED BY <1>1, <1>2, <1>4, <2>1, <2>2 DEF Kept, Follows
<1>5. ASSUME NEW c \in Converters, Converts(c) PROVE FirstReceipt(c)
  BY <1>5, ConvertWrites DEF Converts, CInv
<1> QED BY <1>3, <1>4, <1>5, ReceiptStep DEF ReceiptsStay, FirstReceipt

LEMMA StableUndertaken ==
    ASSUME Kept, NEW c \in Converters, NEW g, Undertaken(c, g)
    PROVE  Undertaken(c, g)'
  BY ConversionAssumption DEF ConversionAssumption, Kept, Undertaken, Follows

LEMMA StableRestoring ==
    ASSUME Kept, NEW c \in Converters, NEW f, NEW target, NEW found, Restoring(c, f, target, found)
    PROVE  Restoring(c, f, target, found)'
  BY ConversionAssumption DEF ConversionAssumption, Kept, Restoring, Follows

-----------------------------------------------------------------------------
(* The commands keep the protocol: every step is one of Publication's, or  *)
(* leaves its variables alone.                                             *)

(* A prepared publication builds its generation as it was built first. *)
LEMMA PreparedBuilds ==
    ASSUME Inv, CInv, NEW c \in Converters, PublishPrepared(c)
    PROVE  Builds(c)
<1> DEFINE r == receipt[c]
           built == root[r.generation]
           read == {h \in Families : built.parents[h] # None}
<1>1. r \in Receipt
  BY DEF PublishPrepared, CInv, ConversionTypeOK
<1>2. r.family \in Families /\ r.generation \in Generations
  BY <1>1 DEF Receipt
<1>3. built # None /\ built.family = r.family
  BY DEF PublishPrepared, CInv, ReceiptsInv
<1>4. built.parents[r.family] = None
  BY <1>2, <1>3 DEF Inv, RootsInv
<1>5. built.layout \in Layouts
  BY <1>2, <1>3 DEF Inv, TypeOK, Root
<1>6. read \in SUBSET (Families \ {r.family})
  BY <1>4
<1>7. Build(c, r.family, read, built.layout, r.generation)
  BY DEF PublishPrepared
<1> QED BY <1>2, <1>5, <1>6, <1>7 DEF Builds

LEMMA RollbackRestores ==
    ASSUME Inv, CInv, NEW o \in Operators, NEW c \in Converters, NEW discard \in BOOLEAN,
           StartRollback(o, c, discard)
    PROVE  Restores(o)
<1> DEFINE r == receipt[c]
           expected == IF discard THEN None ELSE Stored(r.family)
<1>1. r \in Receipt
  BY DEF StartRollback, CInv, ConversionTypeOK
<1>2. r.family \in Families /\ r.captured \in Entry
  BY <1>1 DEF Receipt, Entry
<1>3. expected \in Entry
  BY <1>2, EntriesType DEF Stored, Inv, TypeOK, Index, Entry
<1>4. StartRestore(o, r.family, r.captured, expected)
  BY DEF StartRollback
<1> QED BY <1>2, <1>3, <1>4 DEF Restores

LEMMA ProtocolStep ==
    ASSUME Inv, CInv, [CNext]_cvars
    PROVE  [Next]_vars
<1>w. /\ \A c \in Converters : c \in Publishers /\ c \in Writers
      /\ \A o \in Operators : o \in Writers
  BY ConversionAssumption DEF ConversionAssumption, Writers
<1>d. ASSUME NEW w \in Writers, Die(w) PROVE [Next]_vars
  BY <1>d DEF Die, Next
<1>1. ASSUME NEW c \in Converters, Conversion(c) PROVE [Next]_vars
  <2>1. ASSUME Converts(c) PROVE Next
    <3>1. Builds(c)
      BY <2>1 DEF Converts, Convert, Capture, Builds
    <3> QED BY <3>1, <1>w DEF Next
  <2>2. CASE PublishPrepared(c)
    BY <2>2, <1>w, PreparedBuilds DEF Next
  <2>3. CASE RecordAttempt(c) \/ RecordPublished(c) \/ SettlePublish(c)
    BY <2>3 DEF RecordAttempt, RecordPublished, SettlePublish
  <2>4. CASE PublishGoesOn(c) \/ PublishReturns(c) \/ PublishRaises(c)
    BY <2>4, <1>w DEF PublishGoesOn, PublishReturns, PublishRaises, Next
  <2> QED BY <1>1, <1>w, <1>d, <2>1, <2>2, <2>3, <2>4 DEF Conversion
<1>2. ASSUME NEW o \in Operators, Rollback(o) PROVE [Next]_vars
  <2>1. ASSUME NEW c \in Converters, NEW discard \in BOOLEAN, StartRollback(o, c, discard)
        PROVE  Next
    BY <2>1, RollbackRestores DEF Next
  <2>2. CASE RecordRestored(o) \/ SettleRollback(o)
    BY <2>2 DEF RecordRestored, SettleRollback
  <2>3. CASE RestoreGoesOn(o) \/ RestoreReturns(o) \/ RestoreRaises(o)
    BY <2>3, <1>w DEF RestoreGoesOn, RestoreReturns, RestoreRaises, Next
  <2> QED BY <1>2, <1>w, <1>d, <2>1, <2>2, <2>3 DEF Rollback
<1>3. CASE Others
  BY <1>3, <1>w DEF Others, Next, Writers
<1>4. CASE UNCHANGED cvars
  BY <1>4 DEF cvars, vars
<1> QED BY <1>1, <1>2, <1>3, <1>4 DEF CNext

-----------------------------------------------------------------------------
(* A request that can still move the pointer in a command's name was asked
   for by that command. *)
LEMMA MovingAuthorised ==
    ASSUME Inv, CInv, NEW put \in Moving
    PROVE  put \in Put /\ SafePut(put) /\ Authorised(put)
<1>1. CASE put \in late
  BY <1>1, MovingSafe DEF CInv, RequestsInv
<1>2. ASSUME NEW w \in Writers, job[w].phase = "swapping", put = Request(w, job[w])
      PROVE  put \in Put /\ SafePut(put) /\ Authorised(put)
  <2>2. put \in Put /\ SafePut(put)
    BY MovingSafe
  <2>3. ~Free(w)
    BY <1>2 DEF Free
  <2>4. /\ put.writer = w /\ put.restore = job[w].restore /\ put.family = job[w].family
        /\ put.target = job[w].target /\ put.expect = job[w].seen
    BY <1>2 DEF Request
  <2>5. CASE w \in Publishers
    <3>1. ~put.restore
      BY <2>3, <2>4, <2>5 DEF CInv, OnlyOperatorsRestore
    <3>2. w \in Converters => Undertaken(w, put.target)
      BY <1>2, <2>3, <2>4 DEF CInv, ConvertersInv, Undertaken, At
    <3> QED BY <2>2, <2>4, <3>1, <3>2 DEF Authorised
  <2>6. CASE w \in Operators
    <3>1. /\ rolling[w] \in Converters
          /\ Restoring(rolling[w], job[w].family, job[w].target, job[w].expected)
          /\ job[w].expected = None => rolling[w] \in waived
          /\ job[w].expected # None => Entries(job[w].seen)[job[w].family] = job[w].expected
      BY <1>2, <2>3, <2>6 DEF CInv, OperatorsInv, At
    <3>2. Restoring(rolling[w], put.family, put.target, Entries(put.expect)[put.family])
      BY <2>4, <3>1 DEF Restoring
    <3>3. w \notin Converters
      BY <2>6, ConversionAssumption DEF ConversionAssumption
    <3> QED BY <2>2, <2>4, <3>1, <3>2, <3>3 DEF Authorised
  <2> QED BY <2>5, <2>6 DEF Writers
<1> QED BY <1>1, <1>2 DEF Moving

LEMMA StableAuthorised ==
    ASSUME Kept, NEW put, Authorised(put)
    PROVE  Authorised(put)'
<1>1. put.writer \in Converters => ~put.restore /\ Undertaken(put.writer, put.target)'
  BY StableUndertaken DEF Authorised
<1>2. put.restore => \E c \in Converters :
         Restoring(c, put.family, put.target, Entries(put.expect)[put.family])'
  BY StableRestoring DEF Authorised
<1> QED BY <1>1, <1>2 DEF Authorised, Entries, Restoring

LEMMA RequestsStep ==
    ASSUME Inv, CInv, [Next]_vars, Kept
    PROVE  RequestsInv'
  BY MovingSteps, MovingAuthorised, StableAuthorised DEF RequestsInv

LEMMA LandedStep ==
    ASSUME Inv, CInv, [Next]_vars, Kept
    PROVE  LandedInv'
<1> SUFFICES ASSUME NEW c \in Converters, NEW g \in Generations, <<c, g>> \in landed'
             PROVE  Undertaken(c, g)'
  BY DEF LandedInv
<1>1. CASE <<c, g>> \in landed
  BY <1>1, StableUndertaken DEF CInv, LandedInv
<1>2. ASSUME NEW put \in Moving, Store(put), <<c, g>> \notin landed
      PROVE  Undertaken(c, g)'
  <2>1. ~put.restore /\ <<c, g>> = <<put.writer, put.target>>
    BY <1>2 DEF Store
  <2>2. Undertaken(c, g)
    BY <1>2, <2>1, MovingAuthorised DEF Authorised
  <2> QED BY <2>2, StableUndertaken
<1> QED BY <1>1, <1>2, MovingSteps

LEMMA ConversionTypeStep ==
    ASSUME ConversionTypeOK, [CNext]_cvars, Kept
    PROVE  ConversionTypeOK'
<1>1. command' \in [Commands -> Steps]
  <2>1. ASSUME NEW w, NEW step \in Steps, GoTo(w, step) PROVE command' \in [Commands -> Steps]
    BY <2>1 DEF GoTo, ConversionTypeOK
  <2>2. UNCHANGED command \/ \E w : \E step \in {"built", "running", "returned", "raised", "ended"} : GoTo(w, step)
    BY DEF CNext, cvars, Conversion, Rollback, Others, Converts, Convert, Capture, PublishPrepared,
           RecordAttempt, PublishGoesOn, PublishReturns, PublishRaises, RecordPublished, SettlePublish, Die,
           StartRollback, RestoreGoesOn, RestoreReturns, RestoreRaises, RecordRestored, SettleRollback
  <2> QED BY <2>1, <2>2 DEF Steps, ConversionTypeOK
<1>2. /\ rolling' \in [Operators -> Converters \cup {None}]
      /\ waived' \subseteq Converters
  <2>1. ASSUME NEW o \in Operators, NEW c \in Converters, NEW discard \in BOOLEAN, StartRollback(o, c, discard)
        PROVE  /\ rolling' \in [Operators -> Converters \cup {None}]
               /\ waived' \subseteq Converters
    BY <2>1 DEF StartRollback, ConversionTypeOK
  <2>2. CASE UNCHANGED <<rolling, waived>>
    BY <2>2 DEF ConversionTypeOK
  <2> QED
    BY <2>1, <2>2
    DEF CNext, cvars, Conversion, Rollback, Others, Converts, Convert, Capture, PublishPrepared,
        RecordAttempt, PublishGoesOn, PublishReturns, PublishRaises, RecordPublished, SettlePublish, Die,
        RestoreGoesOn, RestoreReturns, RestoreRaises, RecordRestored, SettleRollback
<1> QED BY <1>1, <1>2 DEF Kept, ConversionTypeOK

(* A conversion's first receipt names what its generation replaces; roots  *)
(* and receipts then stay what they are.                                   *)
LEMMA ReceiptsInvStep ==
    ASSUME Inv, CInv, [CNext]_cvars, Kept, Grown
    PROVE  ReceiptsInv'
<1> SUFFICES ASSUME NEW c \in Converters, receipt'[c] # None
             PROVE  /\ root'[receipt'[c].generation] # None
                    /\ root'[receipt'[c].generation].family = receipt'[c].family
                    /\ root'[receipt'[c].generation].prior = receipt'[c].captured
                    /\ ~Native(root'[receipt'[c].captured].layout)
  BY DEF ReceiptsInv, Native
<1>1. CASE receipt[c] # None
  <2>1. /\ receipt'[c].generation = receipt[c].generation
        /\ receipt'[c].family = receipt[c].family
        /\ receipt'[c].captured = receipt[c].captured
    BY <1>1 DEF Kept, Follows
  <2>2. receipt[c].generation \in Generations
    BY <1>1 DEF CInv, ConversionTypeOK, Receipt
  <2>3. root'[receipt[c].generation] = root[receipt[c].generation]
    BY <1>1, <2>2 DEF Grown, CInv, ReceiptsInv
  <2>4. root[receipt[c].generation].prior = receipt[c].captured /\ receipt[c].captured # None
    BY <1>1, PublicationAssumption
    DEF CInv, ReceiptsInv, ConversionTypeOK, Receipt, PublicationAssumption
  <2>5. receipt[c].captured \in Generations /\ root[receipt[c].captured] # None
    BY <1>1, <2>2, <2>4 DEF CInv, ReceiptsInv, Inv, RootsInv, SelectedInv, EverSelected
  <2>6. ~Native(root'[receipt[c].captured].layout)
    BY <1>1, <2>5 DEF Grown, CInv, ReceiptsInv
  <2> QED BY <1>1, <2>1, <2>3, <2>6 DEF CInv, ReceiptsInv
<1>2. ASSUME receipt[c] = None, NEW b \in Converters, Converts(b)
      PROVE  /\ root'[receipt'[c].generation] # None
             /\ root'[receipt'[c].generation].family = receipt'[c].family
             /\ root'[receipt'[c].generation].prior = receipt'[c].captured
             /\ ~Native(root'[receipt'[c].captured].layout)
  <2>1. PICK f \in Families, layout \in Layouts, g \in Generations :
           \E read \in SUBSET (Families \ {f}) : Convert(b, f, read, layout, g)
    BY <1>2 DEF Converts
  <2>2. PICK read \in SUBSET (Families \ {f}) : Convert(b, f, read, layout, g)
    BY <2>1
  <2>3. /\ FirstReceipt(b)
        /\ receipt'[b] = [family |-> f, captured |-> Entries(pointer)[f], generation |-> g,
                          publish |-> "none", rollback |-> "none"]
    BY <2>2, ConvertWrites DEF Inv, CInv
  <2>4. b = c
    BY <1>2, <2>3 DEF FirstReceipt, CInv, ConversionTypeOK
  <2> DEFINE built == [family  |-> f,
                       prior   |-> Entries(pointer)[f],
                       parents |-> [h \in Families |-> IF h \in read THEN Entries(pointer)[h] ELSE None],
                       layout  |-> layout]
  <2>5. root' = [root EXCEPT ![g] = built]
    BY <2>2 DEF Convert, Capture, Build
  <2>6. built \in Root
    BY <2>1, EntriesType DEF Root, Inv, TypeOK, Index, Entry
  <2>7. root'[g] = built /\ built # None
    BY <2>5, <2>6, PublicationAssumption DEF PublicationAssumption, Inv, TypeOK
  <2>8. /\ Entries(pointer)[f] \in Generations /\ root[Entries(pointer)[f]] # None
        /\ ~Native(root[Entries(pointer)[f]].layout)
    BY <2>2 DEF Convert, Capture, Convertible, Stored, Inv, SelectedInv, RestoreTarget, EverSelected
  <2>9. ~Native(root'[Entries(pointer)[f]].layout)
    BY <2>8 DEF Grown
  <2> QED BY <2>3, <2>4, <2>7, <2>9
<1>3. CASE receipt[c] = None /\ ReceiptsStay
  BY <1>3 DEF ReceiptsStay, CInv, ConversionTypeOK
<1> QED BY <1>1, <1>2, <1>3, ReceiptStep DEF Inv

-----------------------------------------------------------------------------
(* A step of one writer leaves the jobs of the others alone, and its own   *)
(* job keeps what it is about.                                             *)

Works(w) ==
    \/ Begin(w) \/ RefuseBuild(w) \/ (\E key \in Keys : Upload(w, key)) \/ Admit(w) \/ Reread(w)
    \/ RestoreRead(w) \/ Swap(w) \/ TimeOut(w) \/ Fail(w)

Carries(w) ==
    /\ job'[w].restore = job[w].restore
    /\ job'[w].family = job[w].family
    /\ job'[w].target = job[w].target
    /\ job'[w].expected = job[w].expected

LEMMA WorkStays ==
    ASSUME TypeOK, NEW w \in Writers, Works(w)
    PROVE  /\ ~Free(w)
           /\ ~Free(w)' => Carries(w)
           /\ \A v \in Writers \ {w} : job'[v] = job[v]
<1>1. job \in [Writers -> Job]
  BY DEF TypeOK
<1>2. job[w] \in Job
  BY <1>1
<1>3. ASSUME NEW j, job' = [job EXCEPT ![w] = j]
      PROVE  job'[w] = j /\ \A v \in Writers \ {w} : job'[v] = job[v]
  BY <1>1, <1>3
<1>i. ASSUME job' = [job EXCEPT ![w] = IdleJob]
      PROVE  Free(w)' /\ \A v \in Writers \ {w} : job'[v] = job[v]
  BY <1>3, <1>i DEF Free, IdleJob
<1>r. ASSUME job' = [job EXCEPT ![w] = RefusedJob]
      PROVE  Free(w)' /\ \A v \in Writers \ {w} : job'[v] = job[v]
  <2>1. RefusedJob.phase = "refused"
    BY DEF RefusedJob, IdleJob
  <2> QED BY <1>3, <1>r, <2>1 DEF Free
<1>4. CASE Begin(w)
  <2>1. job' = [job EXCEPT ![w] = [job[w] EXCEPT !.phase = "staging", !.seen = pointer]]
    BY <1>4 DEF Begin
  <2> QED BY <1>2, <1>3, <1>4, <2>1 DEF Begin, Free, Carries, Job
<1>5. CASE RefuseBuild(w)
  <2>1. job' = [job EXCEPT ![w] = RefusedJob]
    BY <1>5 DEF RefuseBuild
  <2> QED BY <1>r, <1>5, <2>1 DEF RefuseBuild, Free
<1>6. ASSUME NEW key \in Keys, Upload(w, key)
      PROVE  /\ ~Free(w)
             /\ Carries(w)
             /\ \A v \in Writers \ {w} : job'[v] = job[v]
  <2>1. job' = [job EXCEPT ![w] = [job[w] EXCEPT !.done = @ \cup {key}]]
    BY <1>6 DEF Upload
  <2> QED BY <1>2, <1>3, <1>6, <2>1 DEF Upload, Free, Carries, Job
<1>7. CASE Admit(w)
  <2>1. job' = [job EXCEPT ![w] = [job[w] EXCEPT !.phase = "swapping", !.done = {}]]
    BY <1>7 DEF Admit
  <2> QED BY <1>2, <1>3, <1>7, <2>1 DEF Admit, Free, Carries, Job
<1>8. CASE Reread(w)
  <2>1. \/ job' = [job EXCEPT ![w] = [job[w] EXCEPT !.phase = "swapping", !.seen = pointer]]
        \/ job' = [job EXCEPT ![w] = RefusedJob]
    BY <1>8 DEF Reread
  <2>2. ~Free(w)
    BY <1>8 DEF Reread, Free
  <2>3. ASSUME job' = [job EXCEPT ![w] = [job[w] EXCEPT !.phase = "swapping", !.seen = pointer]]
        PROVE  Carries(w) /\ \A v \in Writers \ {w} : job'[v] = job[v]
    BY <1>2, <1>3, <2>3 DEF Carries, Job
  <2> QED BY <1>r, <2>1, <2>2, <2>3
<1>9. CASE RestoreRead(w)
  <2>1. \/ job' = [job EXCEPT ![w] = IdleJob]
        \/ job' = [job EXCEPT ![w] = [job[w] EXCEPT !.phase = "swapping", !.seen = pointer]]
        \/ job' = [job EXCEPT ![w] = RefusedJob]
    BY <1>9 DEF RestoreRead
  <2>2. ~Free(w)
    BY <1>9 DEF RestoreRead, Free
  <2>3. ASSUME job' = [job EXCEPT ![w] = [job[w] EXCEPT !.phase = "swapping", !.seen = pointer]]
        PROVE  Carries(w) /\ \A v \in Writers \ {w} : job'[v] = job[v]
    BY <1>2, <1>3, <2>3 DEF Carries, Job
  <2> QED BY <1>i, <1>r, <2>1, <2>2, <2>3
<1>10. CASE Swap(w)
  <2>1. \/ job' = [job EXCEPT ![w] = IdleJob]
        \/ job' = [job EXCEPT ![w] = [job[w] EXCEPT !.phase = "reread", !.seen = None, !.tries = @ + 1]]
    BY <1>10 DEF Swap
  <2>2. ~Free(w)
    BY <1>10 DEF Swap, Free
  <2>3. ASSUME job' = [job EXCEPT ![w] = [job[w] EXCEPT !.phase = "reread", !.seen = None, !.tries = @ + 1]]
        PROVE  Carries(w) /\ \A v \in Writers \ {w} : job'[v] = job[v]
    BY <1>2, <1>3, <2>3 DEF Carries, Job
  <2> QED BY <1>i, <2>1, <2>2, <2>3
<1>11. CASE TimeOut(w)
  <2>1. UNCHANGED job \/ job' = [job EXCEPT ![w] = IdleJob]
    BY <1>11 DEF TimeOut
  <2> QED BY <1>2, <1>3, <1>11, <2>1 DEF TimeOut, Free, Carries, IdleJob
<1>12. CASE Fail(w)
  <2>1. job' = [job EXCEPT ![w] = IdleJob]
    BY <1>12 DEF Fail
  <2> QED BY <1>2, <1>3, <1>12, <2>1 DEF Fail, Free, Carries, IdleJob
<1> QED BY <1>4, <1>5, <1>6, <1>7, <1>8, <1>9, <1>10, <1>11, <1>12 DEF Works

LEMMA BuildStarts ==
    ASSUME TypeOK, NEW w \in Writers, NEW f \in Families, NEW read, NEW layout, NEW g \in Generations,
           Build(w, f, read, layout, g)
    PROVE  /\ job'[w].phase = "built" /\ ~job'[w].restore /\ job'[w].target = g
           /\ \A v \in Writers \ {w} : job'[v] = job[v]
  BY DEF Build, IdleJob, TypeOK

LEMMA RestoreStarts ==
    ASSUME TypeOK, NEW w \in Writers, NEW f \in Families, NEW g \in Entry, NEW expected \in Entry,
           StartRestore(w, f, g, expected)
    PROVE  /\ job'[w].phase = "reread" /\ job'[w].restore /\ job'[w].family = f
           /\ job'[w].target = g /\ job'[w].expected = expected
           /\ \A v \in Writers \ {w} : job'[v] = job[v]
  BY DEF StartRestore, IdleJob, TypeOK

LEMMA PublishersStep ==
    ASSUME Inv, CInv, [Next]_vars
    PROVE  OnlyOperatorsRestore'
<1> SUFFICES ASSUME NEW p \in Publishers, ~Free(p)' PROVE ~job'[p].restore
  BY DEF OnlyOperatorsRestore
<1> USE DEF Inv
<1>p. p \in Writers /\ p \notin Operators
  BY ConversionAssumption DEF ConversionAssumption, Writers
<1>s. CASE job'[p] = job[p]
  BY <1>s DEF CInv, OnlyOperatorsRestore, Free
<1>1. ASSUME NEW w \in Writers, Works(w) PROVE ~job'[p].restore
  <2>1. CASE w = p
    BY <1>1, <2>1, WorkStays DEF CInv, OnlyOperatorsRestore, Carries
  <2>2. CASE w # p
    BY <1>1, <1>s, <1>p, <2>2, WorkStays
  <2> QED BY <2>1, <2>2
<1>2. ASSUME NEW w \in Publishers, Builds(w) PROVE ~job'[p].restore
  <2>1. PICK f \in Families, layout \in Layouts, g \in Generations :
           \E read \in SUBSET (Families \ {f}) : Build(w, f, read, layout, g)
    BY <1>2 DEF Builds
  <2>2. ~job'[w].restore /\ \A v \in Writers \ {w} : job'[v] = job[v]
    BY <2>1, BuildStarts DEF Writers
  <2> QED BY <1>s, <1>p, <2>2
<1>3. ASSUME NEW w \in Operators, Restores(w) PROVE ~job'[p].restore
  <2>1. PICK f \in Families, g \in Entry, expected \in Entry : StartRestore(w, f, g, expected)
    BY <1>3 DEF Restores
  <2>2. \A v \in Writers \ {w} : job'[v] = job[v]
    BY <2>1, RestoreStarts DEF Writers
  <2> QED BY <1>s, <1>p, <2>2
<1>4. ASSUME NEW put \in late, Arrive(put) PROVE ~job'[p].restore
  BY <1>4, <1>s DEF Arrive
<1>5. CASE UNCHANGED vars
  BY <1>5, <1>s DEF vars
<1> QED BY <1>1, <1>2, <1>3, <1>4, <1>5 DEF Next, Works, Writers

-----------------------------------------------------------------------------
(* A command's step leaves every other command alone. *)

LEMMA GoToStays ==
    ASSUME ConversionTypeOK, NEW w \in Commands, NEW step, GoTo(w, step)
    PROVE  command'[w] = step /\ \A v \in Commands \ {w} : command'[v] = command[v]
  BY DEF GoTo, ConversionTypeOK

Alone(w) ==
    /\ \A v \in Writers \ {w} : job'[v] = job[v]
    /\ \A v \in Commands \ {w} : command'[v] = command[v]
    /\ \A v \in Operators \ {w} : rolling'[v] = rolling[v]

LEMMA DieAlone ==
    ASSUME TypeOK, ConversionTypeOK, NEW w \in Writers, w \in Commands, Die(w)
    PROVE  Alone(w)
<1>1. \A v \in Writers \ {w} : job'[v] = job[v]
  BY WorkStays DEF Die, Works, vars
<1> QED BY <1>1, GoToStays DEF Die, Alone

LEMMA ConversionAlone ==
    ASSUME Inv, CInv, NEW c \in Converters, Conversion(c)
    PROVE  Alone(c)
<1>w. c \in Writers /\ c \in Commands /\ TypeOK /\ ConversionTypeOK
  BY ConversionAssumption DEF ConversionAssumption, Writers, Commands, Inv, CInv
<1>1. CASE Converts(c)
  <2>1. PICK f \in Families, layout \in Layouts, g \in Generations :
           \E read \in SUBSET (Families \ {f}) : Convert(c, f, read, layout, g)
    BY <1>1 DEF Converts
  <2>2. PICK read \in SUBSET (Families \ {f}) : Convert(c, f, read, layout, g)
    BY <2>1
  <2>3. Build(c, f, read, layout, g) /\ GoTo(c, "built") /\ UNCHANGED rolling
    BY <2>2 DEF Convert, Capture
  <2> QED BY <1>w, <2>3, BuildStarts, GoToStays DEF Alone
<1>2. CASE PublishPrepared(c)
  <2>1. receipt[c].family \in Families /\ receipt[c].generation \in Generations
    BY <1>2, <1>w DEF PublishPrepared, ConversionTypeOK, Receipt
  <2> QED BY <1>2, <1>w, <2>1, BuildStarts, GoToStays DEF PublishPrepared, Alone
<1>3. CASE RecordAttempt(c) \/ RecordPublished(c) \/ SettlePublish(c)
  BY <1>3, <1>w, GoToStays DEF RecordAttempt, RecordPublished, SettlePublish, Alone, vars
<1>4. CASE PublishGoesOn(c)
  BY <1>4, <1>w, WorkStays DEF PublishGoesOn, Works, Alone
<1>5. CASE PublishReturns(c)
  BY <1>5, <1>w, WorkStays, GoToStays DEF PublishReturns, Works, Alone
<1>6. CASE PublishRaises(c)
  BY <1>6, <1>w, WorkStays, GoToStays DEF PublishRaises, Works, Alone
<1>7. CASE Die(c)
  BY <1>7, <1>w, DieAlone
<1> QED BY <1>1, <1>2, <1>3, <1>4, <1>5, <1>6, <1>7 DEF Conversion

LEMMA RollbackAlone ==
    ASSUME Inv, CInv, NEW o \in Operators, Rollback(o)
    PROVE  Alone(o)
<1>w. o \in Writers /\ o \in Commands /\ TypeOK /\ ConversionTypeOK
  BY DEF Writers, Commands, Inv, CInv
<1>1. ASSUME NEW c \in Converters, NEW discard \in BOOLEAN, StartRollback(o, c, discard)
      PROVE  Alone(o)
  <2> DEFINE r == receipt[c]
             expected == IF discard THEN None ELSE Stored(r.family)
  <2>1. r.family \in Families /\ r.captured \in Entry
    BY <1>1, <1>w DEF StartRollback, ConversionTypeOK, Receipt, Entry
  <2>2. expected \in Entry
    BY <2>1, EntriesType DEF Stored, Inv, TypeOK, Index, Entry
  <2>3. /\ StartRestore(o, r.family, r.captured, expected) /\ GoTo(o, "running")
        /\ rolling' = [rolling EXCEPT ![o] = c]
    BY <1>1 DEF StartRollback
  <2>4. \A v \in Operators \ {o} : rolling'[v] = rolling[v]
    BY <2>3, <1>w DEF ConversionTypeOK
  <2> HIDE DEF expected
  <2> QED BY <1>w, <2>1, <2>2, <2>3, <2>4, RestoreStarts, GoToStays DEF Alone
<1>2. CASE RecordRestored(o) \/ SettleRollback(o)
  BY <1>2, <1>w, GoToStays DEF RecordRestored, SettleRollback, Alone, vars
<1>3. CASE RestoreGoesOn(o)
  BY <1>3, <1>w, WorkStays DEF RestoreGoesOn, Works, Alone
<1>4. CASE RestoreReturns(o)
  BY <1>4, <1>w, WorkStays, GoToStays DEF RestoreReturns, Works, Alone
<1>5. CASE RestoreRaises(o)
  BY <1>5, <1>w, WorkStays, GoToStays DEF RestoreRaises, Works, Alone
<1>6. CASE Die(o)
  BY <1>6, <1>w, DieAlone
<1> QED BY <1>1, <1>2, <1>3, <1>4, <1>5, <1>6 DEF Rollback

(* The scheduled publishers and late requests leave the commands alone. *)
LEMMA OthersAlone ==
    ASSUME Inv, CInv, Others
    PROVE  /\ UNCHANGED <<receipt, command, rolling, waived>>
           /\ \A v \in Commands : job'[v] = job[v]
<1> SUFFICES ASSUME NEW v \in Commands PROVE job'[v] = job[v]
  BY DEF Others
<1>v. v \in Writers
  BY ConversionAssumption DEF ConversionAssumption, Writers, Commands
<1>1. ASSUME NEW w \in Publishers \ Converters, Works(w) PROVE job'[v] = job[v]
  BY <1>1, <1>v, WorkStays, ConversionAssumption DEF ConversionAssumption, Writers, Commands, Inv
<1>2. ASSUME NEW w \in Publishers \ Converters, Builds(w) PROVE job'[v] = job[v]
  <2>1. PICK f \in Families, layout \in Layouts, g \in Generations :
           \E read \in SUBSET (Families \ {f}) : Build(w, f, read, layout, g)
    BY <1>2 DEF Builds
  <2>2. \A x \in Writers \ {w} : job'[x] = job[x]
    BY <2>1, BuildStarts DEF Writers, Inv
  <2> QED BY <1>v, <2>2, ConversionAssumption DEF ConversionAssumption, Commands
<1>3. ASSUME NEW put \in late, Arrive(put) PROVE job'[v] = job[v]
  BY <1>3 DEF Arrive
<1> QED BY <1>1, <1>2, <1>3 DEF Others, Works

-----------------------------------------------------------------------------
(* The converters' part of the invariant. *)

ConverterInv(c) ==
    /\ At(c, "ready") <=> receipt[c] = None
    /\ At(c, "running") => receipt[c].publish # "none"
    /\ ~Free(c) => command[c] \in {"built", "running"} /\ job[c].target = receipt[c].generation
    /\ job[c].phase \in {"staging", "swapping", "reread"} => At(c, "running")

(* Its own step. *)
LEMMA OwnConverterStep ==
    ASSUME Inv, CInv, Kept, NEW c \in Converters, Conversion(c)
    PROVE  ConverterInv(c)'
<1>w. c \in Writers /\ c \in Commands /\ TypeOK /\ ConversionTypeOK
  BY ConversionAssumption DEF ConversionAssumption, Writers, Commands, Inv, CInv
<1>i. ConverterInv(c)
  BY DEF CInv, ConvertersInv, ConverterInv
<1>k. receipt[c] # None => /\ receipt'[c] # None
                           /\ receipt'[c].generation = receipt[c].generation
                           /\ receipt[c].publish # "none" => receipt'[c].publish # "none"
  BY ConversionAssumption DEF Kept, Follows, ConversionAssumption
<1>1. CASE Converts(c)
  <2>1. PICK f \in Families, layout \in Layouts, g \in Generations :
           \E read \in SUBSET (Families \ {f}) : Convert(c, f, read, layout, g)
    BY <1>1 DEF Converts
  <2>2. PICK read \in SUBSET (Families \ {f}) : Convert(c, f, read, layout, g)
    BY <2>1
  <2>3. Build(c, f, read, layout, g) /\ GoTo(c, "built")
    BY <2>2 DEF Convert, Capture
  <2>4. FirstReceipt(c) /\ receipt'[c].generation = g
    <3>1. /\ FirstReceipt(c)
          /\ receipt'[c] = [family |-> f, captured |-> Entries(pointer)[f], generation |-> g,
                            publish |-> "none", rollback |-> "none"]
      BY <2>2, ConvertWrites DEF Inv, CInv
    <3> QED BY <3>1
  <2>5. receipt'[c] # None
    BY <1>w, <2>4, ConversionAssumption DEF FirstReceipt, ConversionTypeOK, ConversionAssumption
  <2>6. command'[c] = "built"
    BY <1>w, <2>3, GoToStays
  <2>7. job'[c].phase = "built" /\ job'[c].target = g
    BY <1>w, <2>3, BuildStarts
  <2> QED BY <2>4, <2>5, <2>6, <2>7 DEF ConverterInv, At
<1>2. CASE PublishPrepared(c)
  <2>1. receipt[c].family \in Families /\ receipt[c].generation \in Generations
    BY <1>2, <1>w DEF PublishPrepared, ConversionTypeOK, Receipt
  <2>2. command'[c] = "built"
    BY <1>2, <1>w, GoToStays DEF PublishPrepared
  <2>3. job'[c].phase = "built" /\ job'[c].target = receipt[c].generation
    BY <1>2, <1>w, <2>1, BuildStarts DEF PublishPrepared
  <2> QED BY <1>2, <1>k, <2>2, <2>3 DEF PublishPrepared, ConverterInv, At
<1>3. CASE RecordAttempt(c)
  <2>1. receipt[c] # None
    BY <1>3, <1>i DEF RecordAttempt, ConverterInv, At
  <2>2. receipt'[c].publish # "none"
    <3>1. receipt[c] \in Receipt
      BY <1>w, <2>1 DEF ConversionTypeOK
    <3>2. receipt' = [receipt EXCEPT ![c].publish = "attempted"]
      BY <1>3 DEF RecordAttempt
    <3>3. receipt'[c] = [receipt[c] EXCEPT !.publish = "attempted"]
      BY <1>w, <3>2 DEF ConversionTypeOK
    <3> QED BY <3>1, <3>3 DEF Receipt
  <2>3. command'[c] = "running"
    BY <1>3, <1>w, GoToStays DEF RecordAttempt
  <2>4. job' = job
    BY <1>3 DEF RecordAttempt, vars
  <2> QED BY <1>i, <1>k, <2>1, <2>2, <2>3, <2>4 DEF ConverterInv, At, Free
<1>4. CASE PublishGoesOn(c)
  <2>1. Carries(c)
    BY <1>4, <1>w, WorkStays DEF PublishGoesOn, Works
  <2>2. ~Free(c)
    BY <1>4, <1>w, WorkStays DEF PublishGoesOn, Works
  <2> QED BY <1>4, <1>i, <1>k, <2>1, <2>2 DEF PublishGoesOn, ConverterInv, At, Carries
<1>5. CASE PublishReturns(c)
  <2>1. command'[c] = "returned"
    BY <1>5, <1>w, GoToStays DEF PublishReturns
  <2>2. job'[c].phase = "idle"
    BY <1>5, <1>w DEF PublishReturns, Swap, IdleJob, TypeOK
  <2> QED BY <1>5, <1>i, <1>k, <2>1, <2>2 DEF PublishReturns, ConverterInv, At, Free
<1>6. CASE PublishRaises(c)
  <2>1. command'[c] = "raised" /\ Free(c)'
    BY <1>6, <1>w, GoToStays DEF PublishRaises
  <2> QED BY <1>6, <1>i, <1>k, <2>1 DEF PublishRaises, ConverterInv, At, Free
<1>7. CASE RecordPublished(c) \/ SettlePublish(c)
  <2>1. command'[c] = "ended" /\ job' = job
    BY <1>7, <1>w, GoToStays DEF RecordPublished, SettlePublish, vars
  <2>2. command[c] \in {"returned", "raised"}
    BY <1>7 DEF RecordPublished, SettlePublish, At
  <2> QED BY <1>i, <1>k, <2>1, <2>2 DEF ConverterInv, At, Free
<1>8. CASE Die(c)
  <2>1. command'[c] = "ended" /\ command[c] # "ready"
    BY <1>8, <1>w, GoToStays DEF Die
  <2>2. CASE Free(c)
    BY <1>8, <1>i, <1>k, <2>1, <2>2 DEF Die, vars, ConverterInv, At, Free
  <2>3. CASE Fail(c)
    <3>1. job'[c].phase = "idle"
      BY <2>3, <1>w DEF Fail, IdleJob, TypeOK
    <3> QED BY <1>i, <1>k, <2>1, <3>1 DEF ConverterInv, At, Free
  <2> QED BY <1>8, <2>2, <2>3 DEF Die
<1> QED BY <1>1, <1>2, <1>3, <1>4, <1>5, <1>6, <1>7, <1>8 DEF Conversion

(* Someone else's step. *)
LEMMA QuietConverter ==
    ASSUME CInv, Kept, NEW c \in Converters, job'[c] = job[c], command'[c] = command[c],
           receipt[c] = None => receipt'[c] = None
    PROVE  ConverterInv(c)'
<1>1. ConverterInv(c)
  BY DEF CInv, ConvertersInv, ConverterInv
<1>2. receipt[c] # None => /\ receipt'[c] # None
                           /\ receipt'[c].generation = receipt[c].generation
                           /\ receipt[c].publish # "none" => receipt'[c].publish # "none"
  BY ConversionAssumption DEF Kept, Follows, ConversionAssumption
<1> QED BY <1>1, <1>2 DEF ConverterInv, At, Free

LEMMA ConvertersStep ==
    ASSUME Inv, CInv, [CNext]_cvars, Kept
    PROVE  ConvertersInv'
<1> SUFFICES ASSUME NEW c \in Converters PROVE ConverterInv(c)'
  BY DEF ConvertersInv, ConverterInv
<1>w. c \in Writers /\ c \in Commands /\ c \notin Operators
  BY ConversionAssumption DEF ConversionAssumption, Writers, Commands
<1>1. CASE Conversion(c)
  BY <1>1, OwnConverterStep
<1>2. ASSUME ~Conversion(c) PROVE receipt[c] = None => receipt'[c] = None
  <2>1. CASE ReceiptsStay
    BY <2>1 DEF ReceiptsStay, CInv, ConversionTypeOK
  <2>2. ASSUME NEW b \in Converters, Converts(b) PROVE receipt[c] = None => receipt'[c] = None
    <3>1. b # c
      BY <1>2, <2>2 DEF Conversion
    <3>2. FirstReceipt(b)
      BY <2>2, ConvertWrites DEF Converts, CInv, Inv
    <3> QED BY <3>1, <3>2 DEF FirstReceipt, CInv, ConversionTypeOK
  <2> QED BY <2>1, <2>2, ReceiptStep DEF Inv
<1>3. ASSUME NEW b \in Converters, Conversion(b), b # c PROVE ConverterInv(c)'
  BY <1>w, <1>1, <1>2, <1>3, ConversionAlone, QuietConverter DEF Alone
<1>4. ASSUME NEW o \in Operators, Rollback(o) PROVE ConverterInv(c)'
  BY <1>w, <1>1, <1>2, <1>4, RollbackAlone, QuietConverter DEF Alone
<1>5. CASE Others
  BY <1>w, <1>1, <1>2, <1>5, OthersAlone, QuietConverter
<1>6. CASE UNCHANGED cvars
  BY <1>6, QuietConverter DEF cvars, vars
<1> QED BY <1>1, <1>3, <1>4, <1>5, <1>6 DEF CNext

-----------------------------------------------------------------------------
(* What the receipts report. *)

(* Only its own command says what became of a conversion's publish. *)
LEMMA PublishKept ==
    ASSUME Inv, CInv, [CNext]_cvars, NEW c \in Converters, receipt[c] # None, ~Conversion(c)
    PROVE  receipt'[c].publish = receipt[c].publish /\ command'[c] = command[c]
<1>w. c \in Commands /\ c \notin Operators
  BY ConversionAssumption DEF ConversionAssumption, Commands
<1>t. /\ ConversionTypeOK /\ receipt \in [Converters -> Receipt \cup {None}]
      /\ receipt[c] \in Receipt
  BY DEF CInv, ConversionTypeOK
<1>1. ASSUME NEW b \in Converters, Conversion(b)
      PROVE  receipt'[c] = receipt[c] /\ command'[c] = command[c]
  <2>1. b # c
    BY <1>1
  <2>2. command'[c] = command[c]
    BY <1>1, <1>w, <2>1, ConversionAlone DEF Alone
  <2>3. ASSUME Converts(b) PROVE receipt'[c] = receipt[c]
    <3>1. FirstReceipt(b)
      BY <2>3, ConvertWrites DEF Converts, CInv, Inv
    <3> QED BY <1>t, <2>1, <3>1 DEF FirstReceipt
  <2>4. CASE RecordAttempt(b) \/ RecordPublished(b) \/ SettlePublish(b)
    BY <1>t, <2>1, <2>2, <2>4 DEF RecordAttempt, RecordPublished, SettlePublish
  <2>5. CASE PublishPrepared(b) \/ PublishGoesOn(b) \/ PublishReturns(b) \/ PublishRaises(b) \/ Die(b)
    BY <2>2, <2>5 DEF PublishPrepared, PublishGoesOn, PublishReturns, PublishRaises, Die
  <2> QED BY <1>1, <2>2, <2>3, <2>4, <2>5 DEF Conversion
<1>2. ASSUME NEW o \in Operators, Rollback(o)
      PROVE  receipt'[c].publish = receipt[c].publish /\ command'[c] = command[c]
  <2>1. command'[c] = command[c]
    BY <1>2, <1>w, RollbackAlone DEF Alone
  <2>2. ASSUME NEW b, NEW x \in {"attempted", "restored", "not restored"},
               receipt' = [receipt EXCEPT ![b].rollback = x]
        PROVE  receipt'[c].publish = receipt[c].publish
    <3>1. receipt'[c] = receipt[c] \/ receipt'[c] = [receipt[c] EXCEPT !.rollback = x]
      BY <1>t, <2>2
    <3>2. x \in {"none", "attempted", "restored", "not restored"}
      OBVIOUS
    <3>3. [receipt[c] EXCEPT !.rollback = x].publish = receipt[c].publish
      BY <1>t, <3>2, ReceiptEdits, Zenon
    <3> QED BY <3>1, <3>3
  <2>3. ASSUME NEW b \in Converters, NEW discard \in BOOLEAN, StartRollback(o, b, discard)
        PROVE  receipt'[c].publish = receipt[c].publish
    BY <2>2, <2>3 DEF StartRollback
  <2>4. CASE RecordRestored(o)
    BY <2>1, <2>2, <2>4 DEF RecordRestored
  <2>6. CASE SettleRollback(o)
    BY <2>1, <2>2, <2>6 DEF SettleRollback
  <2>5. CASE RestoreGoesOn(o) \/ RestoreReturns(o) \/ RestoreRaises(o) \/ Die(o)
    BY <2>1, <2>5 DEF RestoreGoesOn, RestoreReturns, RestoreRaises, Die
  <2> QED BY <1>2, <2>1, <2>3, <2>4, <2>5, <2>6 DEF Rollback
<1>3. CASE Others
  BY <1>3 DEF Others
<1>4. CASE UNCHANGED cvars
  BY <1>4 DEF cvars
<1> QED BY <1>1, <1>2, <1>3, <1>4 DEF CNext

(* The call returns once its request has moved the pointer. *)
LEMMA ReturnsSelected ==
    ASSUME Inv, CInv, NEW c \in Converters, PublishReturns(c)
    PROVE  receipt[c].generation \in EverSelected'
<1>w. c \in Writers /\ c \in Publishers
  BY ConversionAssumption DEF ConversionAssumption, Writers
<1>1. job[c].phase = "swapping" /\ Store(Request(c, job[c])) /\ pointer = job[c].seen
  BY DEF PublishReturns, Swap
<1>2. ~job[c].restore /\ job[c].target = receipt[c].generation
  BY <1>1, <1>w DEF CInv, OnlyOperatorsRestore, ConvertersInv, Free
<1>3. Request(c, job[c]) \in Put
  BY <1>1, <1>w, MovingSafe DEF Moving
<1>4. /\ Request(c, job[c]).writer = c /\ ~Request(c, job[c]).restore
      /\ Request(c, job[c]).target = receipt[c].generation /\ Request(c, job[c]).expect = pointer
  BY <1>1, <1>2 DEF Request
<1>5. <<c, receipt[c].generation>> \in landed'
  BY <1>1, <1>4 DEF Store
<1>6. receipt[c].generation \in Generations
  <2>1. BuiltFor(job[c].family, job[c].target)
    BY <1>1, <1>2, <1>w DEF Inv, JobsInv, JobInv, Active
  <2> QED BY <1>2, <2>1 DEF BuiltFor
<1> QED BY <1>w, <1>5, <1>6 DEF EverSelected

LEMMA ReportsStep ==
    ASSUME Inv, CInv, [CNext]_cvars, Kept, Grown
    PROVE  ReportsInv'
<1> DEFINE Reports(r, at) == at = "returned" \/ r.publish \in {"published", "moved"}
<1> SUFFICES ASSUME NEW c \in Converters, receipt'[c] # None, Reports(receipt'[c], command'[c])
             PROVE  receipt'[c].generation \in EverSelected'
  BY DEF ReportsInv, At
<1>w. c \in Commands /\ ConversionTypeOK
  BY ConversionAssumption DEF ConversionAssumption, Commands, CInv
<1>1. EverSelected \subseteq EverSelected'
  BY DEF Grown, EverSelected
<1>2. receipt[c] # None => receipt'[c].generation = receipt[c].generation
  BY DEF Kept, Follows
<1>3. ASSUME receipt[c] # None, Reports(receipt[c], command[c])
      PROVE  receipt'[c].generation \in EverSelected'
  BY <1>1, <1>2, <1>3 DEF CInv, ReportsInv, At
<1>4. CASE ~Conversion(c) /\ receipt[c] # None
  BY <1>3, <1>4, PublishKept
<1>5. CASE Conversion(c)
  <2>1. CASE Converts(c)
    <3>1. receipt'[c].publish = "none"
      <4>1. PICK f \in Families, layout \in Layouts, g \in Generations :
               \E read \in SUBSET (Families \ {f}) : Convert(c, f, read, layout, g)
        BY <2>1 DEF Converts
      <4>2. PICK read \in SUBSET (Families \ {f}) : Convert(c, f, read, layout, g)
        BY <4>1
      <4>3. receipt'[c] = [family |-> f, captured |-> Entries(pointer)[f], generation |-> g,
                           publish |-> "none", rollback |-> "none"]
        BY <4>2, ConvertWrites DEF CInv, Inv
      <4> QED BY <4>3
    <3>2. command'[c] = "built"
      BY <1>w, <2>1, GoToStays DEF Converts, Convert, Capture
    <3> QED BY <3>1, <3>2
  <2>2. ASSUME ~Converts(c) PROVE receipt[c] # None
    BY <1>5, <2>2 DEF Conversion, CInv, ConvertersInv, At, PublishPrepared, RecordAttempt, PublishGoesOn,
                      PublishReturns, PublishRaises, RecordPublished, SettlePublish, Die
  <2>3. CASE PublishReturns(c)
    BY <1>2, <2>3, ReturnsSelected DEF CInv, ConvertersInv, At, PublishReturns
  <2>4. CASE RecordPublished(c)
    BY <1>3, <2>4 DEF RecordPublished, At, CInv, ConvertersInv
  <2>5. CASE SettlePublish(c)
    <3>1. command'[c] = "ended" /\ receipt[c] # None
      BY <1>w, <2>5, GoToStays DEF SettlePublish, At, CInv, ConvertersInv
    <3>2. receipt[c] \in Receipt /\ receipt \in [Converters -> Receipt \cup {None}]
      BY <1>w, <3>1 DEF ConversionTypeOK
    <3>3. CASE Stored(receipt[c].family) = receipt[c].generation
      <4>1. receipt[c].family \in Families /\ receipt[c].generation # None
        BY <3>2, PublicationAssumption DEF Receipt, PublicationAssumption
      <4>2. receipt[c].generation \in EverSelected
        BY <3>3, <4>1 DEF Inv, SelectedInv, RestoreTarget, Stored
      <4> QED BY <1>1, <1>2, <3>1, <4>2
    <3>4. CASE receipt' = receipt
      BY <1>3, <3>1, <3>4
    <3>5. ASSUME NEW x \in {"not moved", "moved elsewhere"}, receipt' = [receipt EXCEPT ![c].publish = x]
          PROVE  FALSE
      <4>1. receipt'[c] = [receipt[c] EXCEPT !.publish = x]
        BY <3>2, <3>5
      <4>2. receipt'[c].publish = x
        <5>1. x \in Outcomes
          BY DEF Outcomes
        <5>2. [receipt[c] EXCEPT !.publish = x].publish = x
          BY <3>2, <5>1, ReceiptEdits, Zenon
        <5> QED BY <4>1, <5>2
      <4> QED BY <3>1, <4>2
    <3> QED BY <2>5, <3>3, <3>4, <3>5 DEF SettlePublish
  <2>6. CASE RecordAttempt(c)
    <3>1. command'[c] = "running" /\ receipt[c] # None
      BY <1>w, <2>6, GoToStays DEF RecordAttempt, At, CInv, ConvertersInv
    <3>2. receipt[c] \in Receipt /\ receipt'[c] = [receipt[c] EXCEPT !.publish = "attempted"]
      BY <1>w, <2>6, <3>1 DEF RecordAttempt, ConversionTypeOK
    <3>3. receipt'[c].publish = "attempted"
      <4>1. "attempted" \in Outcomes
        BY DEF Outcomes
      <4>2. [receipt[c] EXCEPT !.publish = "attempted"].publish = "attempted"
        BY <3>2, <4>1, ReceiptEdits, Zenon
      <4> QED BY <3>2, <4>2
    <3> QED BY <3>1, <3>3
  <2>7. CASE PublishPrepared(c) \/ PublishGoesOn(c) \/ PublishRaises(c) \/ Die(c)
    <3>1. receipt' = receipt
      BY <2>7 DEF PublishPrepared, PublishGoesOn, PublishRaises, Die
    <3>2. command'[c] \in {"built", "raised", "ended"} \/ command'[c] = command[c]
      BY <1>w, <2>7, GoToStays DEF PublishPrepared, PublishGoesOn, PublishRaises, Die
    <3> QED BY <1>3, <3>1, <3>2
  <2> QED BY <1>5, <2>1, <2>3, <2>4, <2>5, <2>6, <2>7 DEF Conversion
<1>6. CASE ~Conversion(c) /\ receipt[c] = None
  <2>1. CASE ReceiptsStay
    BY <1>6, <2>1 DEF ReceiptsStay, CInv, ConversionTypeOK
  <2>2. ASSUME NEW b \in Converters, Converts(b) PROVE FALSE
    <3>1. b # c
      BY <1>6, <2>2 DEF Conversion
    <3>2. FirstReceipt(b)
      BY <2>2, ConvertWrites DEF Converts, CInv, Inv
    <3> QED BY <1>6, <3>1, <3>2 DEF FirstReceipt, CInv, ConversionTypeOK
  <2> QED BY <2>1, <2>2, ReceiptStep DEF Inv
<1> QED BY <1>4, <1>5, <1>6

-----------------------------------------------------------------------------
(* The operators' part of the invariant. *)

OperatorInv(o) ==
    /\ command[o] \in {"running", "returned", "raised"} =>
           rolling[o] \in Converters /\ receipt[rolling[o]] # None
    /\ ~Free(o) =>
           /\ At(o, "running") /\ job[o].restore
           /\ Restoring(rolling[o], job[o].family, job[o].target, job[o].expected)
           /\ job[o].expected = None => rolling[o] \in waived
    /\ job[o].phase = "swapping" /\ job[o].expected # None =>
           Entries(job[o].seen)[job[o].family] = job[o].expected

(* A rollback that starts is the one its receipt describes. *)
LEMMA StartedRollback ==
    ASSUME Inv, CInv, Kept, NEW o \in Operators, NEW c \in Converters, NEW discard \in BOOLEAN,
           StartRollback(o, c, discard)
    PROVE  OperatorInv(o)'
<1> DEFINE r == receipt[c]
           expected == IF discard THEN None ELSE Stored(r.family)
<1>w. o \in Writers /\ o \in Commands /\ TypeOK /\ ConversionTypeOK
  BY DEF Writers, Commands, Inv, CInv
<1>1. r \in Receipt /\ r # None
  BY DEF StartRollback, CInv, ConversionTypeOK
<1>2. r.family \in Families /\ r.captured \in Entry /\ r.captured # None /\ r.generation # None
  BY <1>1, PublicationAssumption DEF Receipt, Entry, PublicationAssumption
<1>3. expected \in Entry
  BY <1>2, EntriesType DEF Stored, Inv, TypeOK, Index, Entry
<1>4. /\ StartRestore(o, r.family, r.captured, expected)
      /\ GoTo(o, "running") /\ rolling' = [rolling EXCEPT ![o] = c]
      /\ discard => c \in waived'
      /\ ~discard => Stored(r.family) \in {r.captured, r.generation}
  BY DEF StartRollback, MayRollBack
<1>5. expected = None => c \in waived'
  BY <1>2, <1>4
<1>6. expected \in {r.captured, r.generation} \/ c \in waived'
  BY <1>4
<1> HIDE DEF expected
<1>7. /\ job'[o].phase = "reread" /\ job'[o].restore /\ job'[o].family = r.family
      /\ job'[o].target = r.captured /\ job'[o].expected = expected
  BY <1>w, <1>2, <1>3, <1>4, RestoreStarts
<1>8. command'[o] = "running" /\ rolling'[o] = c
  BY <1>w, <1>4, GoToStays DEF ConversionTypeOK
<1>9. /\ receipt'[c] # None /\ receipt'[c].family = r.family
      /\ receipt'[c].captured = r.captured /\ receipt'[c].generation = r.generation
  BY <1>1, ConversionAssumption DEF Kept, Follows, ConversionAssumption
<1>10. /\ ~Free(o)' => /\ At(o, "running")' /\ job'[o].restore
                       /\ job'[o].expected = None => rolling'[o] \in waived'
       /\ job'[o].phase # "swapping"
       /\ rolling'[o] \in Converters /\ receipt'[rolling'[o]] # None
  BY <1>5, <1>7, <1>8, <1>9 DEF At
<1>11. Restoring(rolling[o], job[o].family, job[o].target, job[o].expected)'
  BY <1>6, <1>7, <1>8, <1>9 DEF Restoring
<1> QED BY <1>10, <1>11 DEF OperatorInv

LEMMA OwnOperatorStep ==
    ASSUME Inv, CInv, Kept, NEW o \in Operators, Rollback(o)
    PROVE  OperatorInv(o)'
<1>w. o \in Writers /\ o \in Commands /\ TypeOK /\ ConversionTypeOK
  BY DEF Writers, Commands, Inv, CInv
<1>i. OperatorInv(o)
  BY DEF CInv, OperatorsInv, OperatorInv
<1>k. /\ \A c \in Converters : receipt[c] # None =>
            /\ receipt'[c] # None /\ receipt'[c].family = receipt[c].family
            /\ receipt'[c].captured = receipt[c].captured
            /\ receipt'[c].generation = receipt[c].generation
      /\ waived \subseteq waived'
  BY ConversionAssumption DEF Kept, Follows, ConversionAssumption
<1>f. ASSUME Free(o)', UNCHANGED rolling,
             command'[o] \in {"returned", "raised", "ended"},
             command'[o] # "ended" => At(o, "running")
      PROVE  OperatorInv(o)'
  BY <1>f, <1>i, <1>k DEF OperatorInv, Free, At
<1>1. ASSUME NEW c \in Converters, NEW discard \in BOOLEAN, StartRollback(o, c, discard)
      PROVE  OperatorInv(o)'
  BY <1>1, StartedRollback
<1>2. CASE RestoreGoesOn(o)
  <2>1. Carries(o) /\ ~Free(o)
    BY <1>2, <1>w, WorkStays DEF RestoreGoesOn, Works
  <2>2. At(o, "running") /\ UNCHANGED <<command, rolling>>
    BY <1>2 DEF RestoreGoesOn
  <2>3. Restoring(rolling[o], job[o].family, job[o].target, job[o].expected)'
    BY <1>i, <1>k, <2>1, <2>2 DEF OperatorInv, Carries, Restoring, At
  <2>4. job'[o].phase = "swapping" /\ job'[o].expected # None =>
           Entries(job'[o].seen)[job'[o].family] = job'[o].expected
    <3>1. CASE RestoreRead(o)
      <4>1. job[o] \in Job /\ job \in [Writers -> Job]
        BY <1>w DEF TypeOK
      <4>2. \/ /\ job' = [job EXCEPT ![o] = [job[o] EXCEPT !.phase = "swapping", !.seen = pointer]]
               /\ CanRestore(job[o])
            \/ ~(job'[o].phase = "swapping")
        BY <3>1, <4>1, <1>w DEF RestoreRead, IdleJob, RefusedJob, Job
      <4>3. CASE job' = [job EXCEPT ![o] = [job[o] EXCEPT !.phase = "swapping", !.seen = pointer]]
                 /\ CanRestore(job[o])
        <5>1. job'[o] = [job[o] EXCEPT !.phase = "swapping", !.seen = pointer]
          BY <4>1, <4>3, <1>w
        <5>2. job'[o].seen = pointer
          BY <4>1, <5>1 DEF Job
        <5> QED BY <2>1, <4>3, <5>2 DEF CanRestore, Carries
      <4> QED BY <4>2, <4>3
    <3>2. CASE Swap(o)
      <4>1. job[o] \in Job /\ job \in [Writers -> Job]
        BY <1>w DEF TypeOK
      <4> QED BY <3>2, <4>1, <1>w DEF Swap, IdleJob, Job
    <3>3. CASE TimeOut(o)
      <4>1. UNCHANGED job
        BY <1>2, <3>3, <1>w DEF RestoreGoesOn, TimeOut, Free, IdleJob, TypeOK
      <4> QED BY <4>1, <1>i DEF OperatorInv
    <3> QED BY <1>2, <3>1, <3>2, <3>3 DEF RestoreGoesOn
  <2>5. job[o].restore /\ (job[o].expected = None => rolling[o] \in waived)
    BY <1>i, <2>1 DEF OperatorInv
  <2> QED BY <1>i, <1>k, <2>1, <2>2, <2>3, <2>4, <2>5 DEF OperatorInv, At, Carries, Entries
<1>3. CASE RestoreReturns(o)
  <2>1. Free(o)'
    BY <1>3, <1>w DEF RestoreReturns, Swap, Free, IdleJob, TypeOK
  <2> QED BY <1>3, <1>w, <1>f, <2>1, GoToStays DEF RestoreReturns
<1>4. CASE RestoreRaises(o)
  <2>1. Free(o)'
    BY <1>4, <1>w DEF RestoreRaises, Fail, Free, IdleJob, TypeOK
  <2> QED BY <1>4, <1>w, <1>f, <2>1, GoToStays DEF RestoreRaises
<1>5. CASE RecordRestored(o) \/ SettleRollback(o)
  <2>1. Free(o) /\ job' = job
    BY <1>5, <1>i DEF RecordRestored, SettleRollback, OperatorInv, At, vars
  <2> QED BY <1>5, <1>w, <1>f, <2>1, GoToStays DEF RecordRestored, SettleRollback, Free
<1>6. CASE Die(o)
  <2>1. Free(o)'
    BY <1>6, <1>w DEF Die, Fail, Free, IdleJob, TypeOK, vars
  <2> QED BY <1>6, <1>w, <1>f, <2>1, GoToStays DEF Die
<1> QED BY <1>1, <1>2, <1>3, <1>4, <1>5, <1>6 DEF Rollback

LEMMA QuietOperator ==
    ASSUME CInv, Kept, NEW o \in Operators, job'[o] = job[o], command'[o] = command[o],
           rolling'[o] = rolling[o]
    PROVE  OperatorInv(o)'
<1>1. OperatorInv(o)
  BY DEF CInv, OperatorsInv, OperatorInv
<1>2. /\ \A c \in Converters : receipt[c] # None => receipt'[c] # None
      /\ waived \subseteq waived'
  BY ConversionAssumption DEF Kept, Follows, ConversionAssumption
<1>3. ~Free(o) => Restoring(rolling[o], job[o].family, job[o].target, job[o].expected)'
  BY <1>1, StableRestoring DEF OperatorInv, At, Restoring
<1> QED BY <1>1, <1>2, <1>3 DEF OperatorInv, At, Free, Restoring, Entries

LEMMA OperatorsStep ==
    ASSUME Inv, CInv, [CNext]_cvars, Kept
    PROVE  OperatorsInv'
<1> SUFFICES ASSUME NEW o \in Operators PROVE OperatorInv(o)'
  BY DEF OperatorsInv, OperatorInv
<1>w. o \in Writers /\ o \in Commands /\ o \notin Converters
  BY ConversionAssumption DEF ConversionAssumption, Writers, Commands
<1>1. ASSUME NEW c \in Converters, Conversion(c) PROVE OperatorInv(o)'
  BY <1>w, <1>1, ConversionAlone, QuietOperator DEF Alone
<1>2. ASSUME NEW p \in Operators, Rollback(p) PROVE OperatorInv(o)'
  <2>1. CASE p = o
    BY <1>2, <2>1, OwnOperatorStep
  <2>2. CASE p # o
    BY <1>w, <1>2, <2>2, RollbackAlone, QuietOperator DEF Alone
  <2> QED BY <2>1, <2>2
<1>3. CASE Others
  BY <1>w, <1>3, OthersAlone, QuietOperator
<1>4. CASE UNCHANGED cvars
  BY <1>4, QuietOperator DEF cvars, vars
<1> QED BY <1>1, <1>2, <1>3, <1>4 DEF CNext

-----------------------------------------------------------------------------
LEMMA ConversionInit == CInit => Inv /\ CInv
<1> SUFFICES ASSUME CInit PROVE Inv /\ CInv
  OBVIOUS
<1>1. Init /\ Inv
  BY InitInv DEF CInit
<1>2. \A w \in Writers : Free(w)
  BY <1>1 DEF Init, IdleJob, Free
<1>3. \A w \in Writers : job[w].phase = "idle"
  BY <1>1 DEF Init, IdleJob
<1>4. /\ \A c \in Converters : c \in Writers /\ c \in Publishers /\ c \in Commands
      /\ \A o \in Operators : o \in Writers /\ o \in Commands
      /\ \A p \in Publishers : p \in Writers
  BY ConversionAssumption DEF ConversionAssumption, Writers, Commands
<1>5. ConversionTypeOK
  BY DEF CInit, ConversionTypeOK, Steps
<1>6. ReceiptsInv
  BY DEF CInit, ReceiptsInv
<1>7. ConvertersInv
  BY <1>2, <1>3, <1>4 DEF CInit, ConvertersInv, At
<1>8. OperatorsInv
  BY <1>2, <1>3, <1>4 DEF CInit, OperatorsInv
<1>9. OnlyOperatorsRestore
  BY <1>2, <1>4 DEF OnlyOperatorsRestore
<1>10. RequestsInv /\ LandedInv
  BY <1>1 DEF Init, RequestsInv, LandedInv
<1>11. ReportsInv
  BY DEF CInit, ReportsInv
<1> QED BY <1>1, <1>5, <1>6, <1>7, <1>8, <1>9, <1>10, <1>11 DEF CInv

LEMMA ConversionStep ==
    ASSUME Inv, CInv, [CNext]_cvars
    PROVE  Inv' /\ CInv' /\ [Next]_vars
<1>1. [Next]_vars
  BY ProtocolStep
<1>2. Inv'
  BY <1>1, InvStep
<1>3. Grown
  BY <1>1, Growth DEF Inv
<1>4. Kept
  BY Keeping DEF Inv
<1>5. ConversionTypeOK'
  BY <1>4, ConversionTypeStep DEF CInv
<1>6. ReceiptsInv'
  BY <1>3, <1>4, ReceiptsInvStep
<1>7. ConvertersInv' /\ OperatorsInv'
  BY <1>4, ConvertersStep, OperatorsStep
<1>8. OnlyOperatorsRestore'
  BY <1>1, PublishersStep
<1>9. RequestsInv' /\ LandedInv'
  BY <1>1, <1>4, RequestsStep, LandedStep
<1>10. ReportsInv'
  BY <1>3, <1>4, ReportsStep
<1> QED BY <1>1, <1>2, <1>5, <1>6, <1>7, <1>8, <1>9, <1>10 DEF CInv

(* The invariant of the receipts holds, and so does the protocol's.  *)
THEOREM ConversionInvariance == CSpec => [](Inv /\ CInv)
<1>1. Inv /\ CInv /\ [CNext]_cvars => (Inv /\ CInv)'
  BY ConversionStep
<1> QED BY <1>1, ConversionInit, PTL DEF CSpec

(* The conversion and rollback commands use the publication protocol as it *)
(* is: each step of theirs is a step of Publication or leaves the bucket   *)
(* alone, so every theorem about Publication holds of them.                *)
THEOREM CommandsKeepTheProtocol == CSpec => KeepsTheProtocol
<1>1. CInit => Init
  BY DEF CInit
<1>2. Inv /\ CInv /\ [CNext]_cvars => [Next]_vars
  BY ConversionStep
<1> QED BY <1>1, <1>2, ConversionInvariance, PTL DEF CSpec, Spec, KeepsTheProtocol

(* The receipt of a conversion that moved the pointer is enough to undo    *)
(* the move, also when the process died or the answer was lost.            *)
THEOREM ReceiptIsEnough == CSpec => []ReceiptSuffices
<1>1. Inv /\ CInv => ReceiptSuffices
  <2> SUFFICES ASSUME Inv, CInv, NEW c \in Converters, NEW g \in Generations, <<c, g>> \in landed
               PROVE  LET r == receipt[c] IN
                      /\ r # None /\ r.generation = g /\ r.publish # "none"
                      /\ r.captured = root[g].prior
                      /\ r.captured \in EverSelected /\ Complete(r.captured)
                      /\ Stored(r.family) = g => OwnershipFree(r.family, r.captured, Entries(pointer))
    BY DEF ReceiptSuffices
  <2> DEFINE r == receipt[c]
  <2>1. r # None /\ r.generation = g /\ r.publish # "none"
    BY DEF CInv, LandedInv, Undertaken
  <2>2. r \in Receipt
    BY <2>1 DEF CInv, ConversionTypeOK
  <2>3. root[g] # None /\ root[g].family = r.family /\ root[g].prior = r.captured
    BY <2>1 DEF CInv, ReceiptsInv
  <2>n. root[r.captured].layout.receipts = {}
    BY <2>1 DEF CInv, ReceiptsInv, Native
  <2>4. r.captured \in Generations /\ r.captured # None /\ r.family \in Families
    BY <2>2, PublicationAssumption DEF Receipt, PublicationAssumption
  <2>5. r.captured \in EverSelected
    BY <2>3, <2>4 DEF Inv, RootsInv
  <2>6. Complete(r.captured)
    BY <2>5 DEF Inv, SelectedInv, Ready
  <2>7. ASSUME Stored(r.family) = g
        PROVE  OwnershipFree(r.family, r.captured, Entries(pointer))
    <3>1. Claims(r.captured) \subseteq Claims(g)
      <4>1. g \in EverSelected
        <5>1. c \in Writers
          BY ConversionAssumption DEF ConversionAssumption, Writers
        <5> QED BY <5>1 DEF EverSelected
      <4>2. MembershipHeld(g, r.captured)
        BY <2>3, <4>1 DEF Inv, SelectedInv, Ready
      <4> QED BY <2>4, <2>n, <4>2 DEF MembershipHeld, Claims
    <3>2. \A h \in Families \ {r.family} : Entries(pointer)[h] # None =>
             Claims(Entries(pointer)[h]) \cap Claims(g) = {}
      BY <2>4, <2>7, PublicationAssumption DEF Inv, OneOwner, Stored, PublicationAssumption
    <3> QED BY <3>1, <3>2 DEF OwnershipFree
  <2> QED BY <2>1, <2>3, <2>5, <2>6, <2>7
<1> QED BY <1>1, ConversionInvariance, PTL

(* However conversions, rollbacks, scheduled runs and late requests        *)
(* interleave, a family only moves on from what its new generation was     *)
(* built from, or back along a receipt; the rest needs --discard-newer.    *)
THEOREM DiscardsAreAskedFor == CSpec => NothingDiscardedUnseen
<1>1. ASSUME Inv, CInv, [CNext]_cvars, NEW f \in Families, Stored(f)' # Stored(f)
      PROVE  \/ Stored(f)' # None /\ root'[Stored(f)'].prior = Stored(f)
             \/ Stored(f) # None /\ \E c \in Converters :
                   receipt[c] # None /\ receipt[c].generation = Stored(f) /\ receipt[c].captured = Stored(f)'
             \/ \E c \in waived : receipt[c].captured = Stored(f)'
  <2>1. ~UNCHANGED <<pointer, landed>>
    BY <1>1 DEF Stored, Entries
  <2>2. PICK put \in Moving : Store(put) /\ UNCHANGED <<root, stored>>
    BY <1>1, <2>1, ConversionStep, MovingSteps
  <2>3. put \in Put /\ SafePut(put) /\ Authorised(put)
    BY <1>1, MovingAuthorised
  <2>4. pointer = put.expect
    BY <2>1, <2>2 DEF Store
  <2>5. Entries(pointer)' = [Entries(pointer) EXCEPT ![put.family] = put.target]
    BY <1>1, <2>1, <2>2, <2>3, StoreSelects
  <2>6. Entries(pointer) \in Index
    BY <1>1, EntriesType DEF Inv, TypeOK
  <2>7. f = put.family /\ Stored(f)' = put.target
    BY <1>1, <2>5, <2>6 DEF Stored, Index
  <2>8. CASE ~put.restore
    <3>1. put.target \in Generations /\ Entries(put.expect)[f] = root[put.target].prior
      BY <2>3, <2>7, <2>8 DEF SafePut, BuiltFor, SafeAgainst, FamilyUnchanged
    <3>2. put.target # None
      BY <3>1, PublicationAssumption DEF PublicationAssumption
    <3> QED BY <2>2, <2>4, <2>7, <3>1, <3>2 DEF Stored
  <2>9. CASE put.restore
    <3>1. PICK c \in Converters : Restoring(c, put.family, put.target, Entries(put.expect)[put.family])
      BY <2>3, <2>9 DEF Authorised
    <3>2. /\ receipt[c] # None /\ receipt[c].captured = put.target
          /\ c \in waived \/ Stored(f) \in {receipt[c].captured, receipt[c].generation}
      BY <2>4, <2>7, <3>1 DEF Restoring, Stored
    <3>3. receipt[c].generation # None
      BY <1>1, <3>2, PublicationAssumption DEF CInv, ConversionTypeOK, Receipt, PublicationAssumption
    <3> QED BY <1>1, <2>7, <3>2, <3>3
  <2> QED BY <2>8, <2>9
<1>2. Inv /\ CInv /\ [CNext]_cvars =>
        [\A f \in Families : Stored(f)' # Stored(f) =>
          \/ Stored(f)' # None /\ root'[Stored(f)'].prior = Stored(f)
          \/ Stored(f) # None /\ \E c \in Converters :
                receipt[c] # None /\ receipt[c].generation = Stored(f) /\ receipt[c].captured = Stored(f)'
          \/ \E c \in waived : receipt[c].captured = Stored(f)']_cvars
  BY <1>1
<1> QED BY <1>2, ConversionInvariance, PTL DEF CSpec, NothingDiscardedUnseen

(* A publish call that returned, and a receipt that records its publish as *)
(* published or moved, are right: the generation was selected, whatever    *)
(* answers were lost on the way.                                           *)
THEOREM ReportsAreTrue == CSpec => []ReportsInv
<1>1. CInv => ReportsInv
  BY DEF CInv
<1> QED BY <1>1, ConversionInvariance, PTL

-----------------------------------------------------------------------------
(* What a rollback command that returns has done. *)

Returns(o) == At(o, "returned")' /\ ~At(o, "returned")

(* When restore_family returns, the stored index names what the conversion *)
(* had captured: another writer that moved the family first makes it raise. *)
RollbackLands ==
    [][\A o \in Operators : Returns(o) =>
          Stored(receipt[rolling[o]].family)' = receipt[rolling[o]].captured]_cvars

LEMMA OnlyRestoresReturn ==
    ASSUME Inv, CInv, [CNext]_cvars, NEW o \in Operators, Returns(o)
    PROVE  RestoreReturns(o)
<1>w. o \in Commands /\ o \notin Converters /\ ConversionTypeOK
  BY ConversionAssumption DEF ConversionAssumption, Commands, CInv
<1>1. ASSUME NEW c \in Converters, Conversion(c) PROVE FALSE
  BY <1>w, <1>1, ConversionAlone DEF Alone, Returns, At
<1>2. ASSUME NEW p \in Operators, Rollback(p), p # o PROVE FALSE
  BY <1>w, <1>2, RollbackAlone DEF Alone, Returns, At
<1>3. CASE Rollback(o)
  <2>1. ASSUME NEW step \in {"running", "raised", "ended"}, GoTo(o, step) PROVE FALSE
    BY <1>w, <2>1, GoToStays DEF Returns, At
  <2>2. ASSUME NEW c \in Converters, NEW discard \in BOOLEAN, StartRollback(o, c, discard)
        PROVE  FALSE
    BY <2>1, <2>2 DEF StartRollback
  <2>3. CASE RestoreRaises(o) \/ RecordRestored(o) \/ SettleRollback(o) \/ Die(o)
    BY <2>1, <2>3 DEF RestoreRaises, RecordRestored, SettleRollback, Die
  <2>4. CASE RestoreGoesOn(o)
    BY <2>4 DEF RestoreGoesOn, Returns, At
  <2> QED BY <1>3, <2>2, <2>3, <2>4 DEF Rollback
<1>4. CASE Others \/ UNCHANGED cvars
  BY <1>4 DEF Others, cvars, Returns, At
<1> QED BY <1>1, <1>2, <1>3, <1>4 DEF CNext

LEMMA ReturnedRollback ==
    ASSUME Inv, CInv, NEW o \in Operators, RestoreReturns(o)
    PROVE  Stored(receipt[rolling[o]].family)' = receipt[rolling[o]].captured
<1> DEFINE c == rolling[o]
           f == job[o].family
<1>w. o \in Writers
  BY DEF Writers
<1>r. receipt'[rolling'[o]].family = receipt[c].family
  BY DEF RestoreReturns
<1>1. /\ ~Free(o)
      /\ (RestoreRead(o) /\ job'[o].phase = "idle") \/ (Swap(o) /\ pointer = job[o].seen)
  <2>1. (RestoreRead(o) /\ job'[o].phase = "idle") \/ (Swap(o) /\ pointer = job[o].seen)
    BY DEF RestoreReturns
  <2>2. RestoreRead(o) \/ Swap(o) => job[o].phase \in {"reread", "swapping"}
    BY DEF RestoreRead, Swap
  <2> QED BY <2>1, <2>2 DEF Free
<1>2. job[o].restore /\ Restoring(c, f, job[o].target, job[o].expected)
  BY <1>1 DEF CInv, OperatorsInv
<1>3. receipt[c].family = f /\ receipt[c].captured = job[o].target
  BY <1>2 DEF Restoring
<1>4. job[o] \in Job
  BY <1>w DEF Inv, TypeOK
<1>5. CASE RestoreRead(o) /\ job'[o].phase = "idle"
  <2>1. Entries(pointer)[f] = job[o].target
    <3>1. [job[o] EXCEPT !.phase = "swapping", !.seen = pointer].phase # "idle"
      BY <1>4 DEF Job
    <3>2. RefusedJob.phase # "idle"
      BY DEF RefusedJob, IdleJob
    <3>3. job \in [Writers -> Job]
      BY DEF Inv, TypeOK
    <3> SUFFICES ASSUME Entries(pointer)[f] # job[o].target PROVE FALSE
      OBVIOUS
    <3>4. job'[o] \in {[job[o] EXCEPT !.phase = "swapping", !.seen = pointer], RefusedJob}
      BY <1>w, <1>5, <3>3 DEF RestoreRead
    <3> QED BY <1>5, <3>1, <3>2, <3>4
  <2>2. Entries(pointer)' = Entries(pointer)
    BY <1>5 DEF RestoreRead, Entries
  <2> QED BY <1>3, <1>r, <2>1, <2>2 DEF Stored
<1>6. CASE Swap(o) /\ pointer = job[o].seen
  <2> DEFINE put == Request(o, job[o])
  <2>1. put \in Put /\ Store(put) /\ UNCHANGED <<root, stored>> /\ SafePut(put)
    BY <1>6, <1>w, MovingSafe DEF Moving, Swap
  <2>2. put.expect = pointer /\ put.family = f /\ put.target = job[o].target
    BY <1>6 DEF Request
  <2>3. pointer' = [Entries(pointer) EXCEPT ![f] = job[o].target]
    BY <2>1, <2>2 DEF Store
  <2>4. Entries(pointer) \in Index /\ f \in Families
    <3>1. put.family \in Families
      BY <2>1 DEF Put
    <3> QED BY <2>2, <3>1, EntriesType DEF Inv, TypeOK
  <2>5. pointer' \in Index /\ pointer'[f] = job[o].target
    <3>1. put.target \in Entry
      BY <2>1 DEF Put
    <3>2. job[o].target \in Entry
      BY <2>2, <3>1
    <3> HIDE DEF f, put
    <3> QED BY <2>3, <2>4, <3>2 DEF Index
  <2>6. Entries(pointer)' = pointer'
    BY <2>5, PublicationAssumption DEF PublicationAssumption, Entries
  <2> QED BY <1>3, <1>r, <2>5, <2>6 DEF Stored
<1> QED BY <1>1, <1>5, <1>6

(* However scheduled publishers, late requests and other commands          *)
(* interleave with it.                                                     *)
THEOREM ReturnedRollbacksLand == CSpec => RollbackLands
<1>1. Inv /\ CInv /\ [CNext]_cvars =>
        [\A o \in Operators : Returns(o) =>
            Stored(receipt[rolling[o]].family)' = receipt[rolling[o]].captured]_cvars
  BY OnlyRestoresReturn, ReturnedRollback
<1> QED BY <1>1, ConversionInvariance, PTL DEF CSpec, RollbackLands
=============================================================================
