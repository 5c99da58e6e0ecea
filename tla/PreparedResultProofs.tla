------------------------ MODULE PreparedResultProofs ------------------------
(***************************************************************************)
(* The cursor of a prepared result, for all lists of parameters, answers    *)
(* of the server, sizes of fetches and of the data frame: the invariants,    *)
(* that it implements ResultStream, that fetch() only descends, and that its     *)
(* steps are those that Connection has for a result.                        *)
(***************************************************************************)
EXTENDS PreparedResult, SequenceLemmas

(* The number of rows is that of the list, unless a list is unfit.           *)
InPlace == bound /\ ~Unfit => n_rows = Len(params.rows)

Unparameterised == kind = "plain" => bound /\ params = NoList /\ i = 0 /\ n_rows = 0

InOrder ==
    bound /\ nParams > 0 /\ ~Unfit =>
      /\ Len(executed) <= Len(params.rows)
      /\ \A k \in 1..Len(executed) : executed[k] = params.rows[k]
      /\ ~Broken => Len(executed) = i

(* A frame that is full ends the fetch before the end of the rows is seen.   *)
Framed ==
    /\ max = NULL => out = <<>>
    /\ max # NULL => /\ bound /\ max \in Int /\ capacity >= 1 /\ Len(out) <= capacity
                     /\ Full => ~complete

RowType == (Params \cup {NULL}) \X (Nat \ {0})

Types ==
    /\ kind \in Kinds
    /\ pSpec \in BOOLEAN /\ cached \in BOOLEAN /\ bound \in BOOLEAN
    /\ complete \in BOOLEAN /\ crashed \in BOOLEAN
    /\ params = [cols |-> params.cols, rows |-> params.rows, supported |-> params.supported]
    /\ params.supported \in BOOLEAN
    /\ params.cols \in 0..(nParams + 1)
    /\ params.rows \in Seq(Params) /\ Len(params.rows) <= MaxBind
    /\ i \in Nat /\ n_rows \in Nat /\ i <= n_rows /\ n_rows <= MaxBind
    /\ max \in FetchSizes \cup {NULL}
    /\ capacity \in Nat
    /\ out \in Seq(RowType \cup {Blank}) /\ (cached => out \in Seq(RowType))
    /\ cursor \in {"none", "rows"}
    /\ wire \in Seq(RowType)
    /\ executed \in Seq(Params \cup {NULL})

IInv ==
    /\ Types
    /\ InPlace
    /\ Unparameterised
    /\ InOrder
    /\ Framed
    /\ HasCompletedHonest
    /\ OutsideNeedsUnfit

LEMMA TruthValues ==
  /\ TRUE \in BOOLEAN /\ FALSE \in BOOLEAN
  /\ \A x, y : (x = y) \in BOOLEAN
  /\ \A x, S : (x \in S) \in BOOLEAN
  /\ \A x \in Nat : (kind = "call" /\ x > 1) \in BOOLEAN
OBVIOUS

LEMMA ParamsNumber == nParams \in Nat
BY KindAssumption DEF nParams

LEMMA ListsAreSequences ==
  /\ \A ps \in ParamLists : ps \in Seq(Params) /\ Len(ps) \in 0..MaxBind
  /\ \A ps \in Seq(Params) : Len(ps) <= MaxBind => ps \in ParamLists
BY SizeAssumption DEF ParamLists, BoundedSeq, SeqOf

LEMMA RowsAreRows ==
  ASSUME NEW p \in Params \cup {NULL}
  PROVE  Rows(p) \in Seq(RowType)
<1>1. Answer[p] \in Nat
  BY AnswerAssumption
<1>2. \A k \in 1..Answer[p] : <<p, k>> \in RowType
  BY <1>1 DEF RowType
<1>3. QED BY <1>1, <1>2 DEF Rows

LEMMA TypesOK == Types => TypeOK
<1> SUFFICES ASSUME Types PROVE TypeOK
  OBVIOUS
<1>1. params.rows \in ParamLists
  BY ListsAreSequences DEF Types
<1>2. i \in 0..MaxBind /\ n_rows \in 0..MaxBind
  BY SizeAssumption DEF Types
<1>3. QED BY <1>1, <1>2 DEF Types, TypeOK, RowType

LEMMA IInvInit == Init => IInv
<1> SUFFICES ASSUME Init PROVE IInv
  OBVIOUS
<1> USE DEF Init
<1>1. params.cols = 0 /\ params.rows = <<>>
  BY DEF NoList
<1>2. Types
  <2>1. /\ params = [cols |-> params.cols, rows |-> params.rows, supported |-> params.supported]
        /\ params.supported \in BOOLEAN
    BY DEF NoList
  <2>2. wire \in Seq(RowType)
    BY RowsAreRows
  <2>3. <<NULL>> \in Seq(Params \cup {NULL}) /\ <<>> \in Seq(Params \cup {NULL})
    OBVIOUS
  <2>4. executed \in Seq(Params \cup {NULL})
    BY <2>3
  <2>5. params.cols \in 0..(nParams + 1)
    BY <1>1, ParamsNumber
  <2>6. params.rows \in Seq(Params) /\ Len(params.rows) <= MaxBind
    BY <1>1, SizeAssumption
  <2>7. n_rows <= MaxBind
    BY SizeAssumption
  <2>8. kind \in Kinds /\ max \in FetchSizes \cup {NULL} /\ cursor \in {"none", "rows"}
    OBVIOUS
  <2>9. /\ pSpec \in BOOLEAN /\ cached \in BOOLEAN /\ bound \in BOOLEAN
        /\ complete \in BOOLEAN /\ crashed \in BOOLEAN
    BY TruthValues, Zenon
  <2>10. /\ i \in Nat /\ n_rows \in Nat /\ i <= n_rows /\ capacity \in Nat
         /\ out \in Seq(RowType \cup {Blank}) /\ out \in Seq(RowType)
    OBVIOUS
  <2>11. QED
    BY <2>1, <2>2, <2>4, <2>5, <2>6, <2>7, <2>8, <2>9, <2>10 DEF Types
<1>3. InPlace /\ Unparameterised /\ InOrder
  <2>1. bound => kind = "plain" /\ nParams = 0
    BY DEF nParams
  <2>2. Len(params.rows) = 0
    BY <1>1
  <2>3. InPlace
    BY <2>2 DEF InPlace
  <2>4. Unparameterised
    BY DEF Unparameterised
  <2>5. InOrder
    BY <2>1 DEF InOrder
  <2>6. QED BY <2>3, <2>4, <2>5
<1>4. QED
  BY <1>2, <1>3 DEF IInv, Framed, HasCompletedHonest, HasCompleted, OutsideNeedsUnfit

-----------------------------------------------------------------------------
(* dbBind() *)

(* A refused list: what it has replaced is not trusted any more. *)
LEMMA BadBindStep ==
  ASSUME IInv, NEW ps \in ParamLists, NEW cols \in 0..(nParams + 1), BadBind(cols, ps)
  PROVE  IInv'
<1> USE DEF BadBind, bindVars, fetchVars
<1>1. Types'
  BY ListsAreSequences DEF IInv, Types, nParams
<1>2. Unfit'
  BY DEF Unfit, nParams
<1>3. QED
  BY <1>1, <1>2, ParamsNumber DEF IInv, InPlace, Unparameterised, InOrder, Framed, Full,
     HasCompletedHonest, HasCompleted, OutsideNeedsUnfit, Idle, nParams

LEMMA BadTypesStep ==
  ASSUME IInv, NEW ps \in ParamLists, NEW j \in 1..nParams, BadTypes(j, ps)
  PROVE  IInv'
<1> USE DEF BadTypes, Idle, bindVars, fetchVars
<1>1. ps \in Seq(Params) /\ Len(ps) \in 0..MaxBind
  BY ListsAreSequences
<1>2. kind # "plain" /\ nParams' = nParams
  BY DEF nParams
<1>3. Types'
  BY <1>1, <1>2, ParamsNumber DEF IInv, Types
<1>4. bound => Unfit'
  BY DEF Unfit
<1>5. QED
  BY <1>2, <1>3, <1>4 DEF IInv, InPlace, Unparameterised, InOrder, Framed, Full,
     HasCompletedHonest, HasCompleted, OutsideNeedsUnfit

(* A list that validate_params() lets pass has as many rows as each column.  *)
LEMMA LengthsAgree ==
  ASSUME nParams > 0, NEW ps, NEW lengths \in Lengths(ps), ValidParams(lengths)
  PROVE  lengths[1] = Len(ps)
<1>1. PICK j \in 1..nParams : lengths[j] = Len(ps)
  BY DEF Lengths
<1>2. CASE j = 1
  BY <1>1, <1>2
<1>3. CASE j # 1
  <2>1. j \in 2..nParams
    BY <1>3, ParamsNumber
  <2>2. QED BY <1>1, <2>1 DEF ValidParams
<1>4. QED BY <1>2, <1>3

(* What is taken over of a list. *)
Taken(ps) ==
    /\ kind # "plain" /\ nParams' = nParams
    /\ ps \in Seq(Params) /\ Len(ps) \in Nat /\ Len(ps) <= MaxBind /\ n_rows' = Len(ps)
    /\ params' = [cols |-> params'.cols, rows |-> params'.rows,
                  supported |-> params'.supported]
    /\ params'.cols = nParams' /\ params'.cols \in 0..(nParams' + 1) /\ params'.rows = ps
    /\ params'.supported = TRUE /\ params'.supported \in BOOLEAN
    /\ ~Unfit'

LEMMA TakenList ==
  ASSUME NEW ps \in ParamLists, TakeParams(ps), kind' = kind
  PROVE  Taken(ps)
<1>1. ps \in Seq(Params) /\ Len(ps) \in 0..MaxBind
  BY ListsAreSequences
<1>2. kind # "plain" /\ nParams' = nParams
  BY DEF nParams, TakeParams
<1>3. /\ params' = [cols |-> params'.cols, rows |-> params'.rows,
                    supported |-> params'.supported]
      /\ params'.cols = nParams' /\ params'.rows = ps /\ params'.supported = TRUE
  BY <1>2 DEF TakeParams
<1>4. n_rows' = Len(ps)
  BY LengthsAgree DEF TakeParams
<1>5. ~Unfit'
  BY <1>3, Zenon DEF Unfit
<1>6. params'.cols \in 0..(nParams' + 1)
  BY <1>3, <1>2, ParamsNumber
<1>7. params'.supported \in BOOLEAN
  BY <1>3, TruthValues, Zenon
<1>8. Len(ps) \in Nat /\ Len(ps) <= MaxBind
  BY <1>1, SizeAssumption
<1>9. QED BY <1>1, <1>2, <1>3, <1>4, <1>5, <1>6, <1>7, <1>8 DEF Taken

LEMMA BindQueryStep ==
  ASSUME IInv, NEW ps \in ParamLists, BindQuery(ps)
  PROVE  IInv'
<1>1. TakeParams(ps) /\ kind' = kind
  BY DEF BindQuery
<1>2. max = NULL
  BY <1>1 DEF TakeParams, Idle
<1>3. /\ pSpec /\ i' = 0 /\ complete' = TRUE /\ bound' = TRUE /\ executed' = <<>>
      /\ UNCHANGED <<pSpec, cached, fetchVars, cursor, wire, crashed>>
  BY DEF BindQuery
<1>4. ~crashed
  BY <1>1 DEF TakeParams, Idle
<1>5. Taken(ps)
  BY <1>1, TakenList
<1>6. complete' \in BOOLEAN /\ bound' \in BOOLEAN
  BY <1>3, TruthValues, Zenon
<1>7. Types'
  BY <1>1, <1>3, <1>5, <1>6 DEF IInv, Types, fetchVars, Taken
<1>8. QED
  BY <1>1, <1>2, <1>3, <1>4, <1>5, <1>7 DEF fetchVars, Taken, IInv, InPlace,
     Unparameterised, InOrder, Framed, Full, Broken, HasCompletedHonest, HasCompleted,
     OutsideNeedsUnfit

LEMMA BindStatementStep ==
  ASSUME IInv, NEW ps \in ParamLists, BindStatement(ps)
  PROVE  IInv'
<1>1. TakeParams(ps) /\ kind' = kind
  BY DEF BindStatement
<1>2. max = NULL /\ ~crashed
  BY <1>1 DEF TakeParams, Idle
<1>3. /\ i' = Len(ps) /\ executed' = ps /\ bound' = TRUE
      /\ complete' = (complete /\ ps = <<>>)
      /\ UNCHANGED <<cached, max, capacity, out, crashed>>
  BY DEF BindStatement, fetchVars
<1>4. pSpec' \in BOOLEAN /\ bound' \in BOOLEAN /\ complete' \in BOOLEAN
  <2>1. /\ (kind = "call" /\ ps # <<>>) \in BOOLEAN /\ TRUE \in BOOLEAN
        /\ (complete /\ ps = <<>>) \in BOOLEAN
    OBVIOUS
  <2>2. /\ bound' = TRUE
        /\ complete' = (complete /\ ps = <<>>) /\ pSpec' = (kind = "call" /\ ps # <<>>)
    BY Zenon DEF BindStatement
  <2>3. QED BY <2>1, <2>2, Zenon
<1>5. Taken(ps)
  BY <1>1, TakenList
<1>6. wire' \in Seq(RowType) /\ cursor' \in {"none", "rows"}
  <2>1. ps \in Seq(Params)
    BY <1>5 DEF Taken
  <2>2. ps # <<>> => Rows(Last(ps)) \in Seq(RowType)
    BY <2>1, RowsAreRows DEF Last
  <2>3. QED BY <2>2 DEF BindStatement, IInv, Types
<1>7. Types'
  <2>1. executed' \in Seq(Params \cup {NULL})
    BY <1>3, <1>5 DEF Taken
  <2>2. QED BY <1>1, <1>3, <1>4, <1>6, <1>5, <2>1 DEF IInv, Types, Taken
<1>8. QED
  <2>1. ~pSpec
    BY DEF BindStatement
  <2>2. kind # "plain" /\ params'.rows = ps /\ n_rows' = Len(ps) /\ nParams' = nParams
    BY <1>5 DEF Taken
  <2>3. Len(ps) \in Nat /\ ps \in Seq(Params)
    BY <1>5 DEF Taken
  <2>4. OutsideNeedsUnfit'
    BY <1>2, <1>3 DEF OutsideNeedsUnfit
  <2>5. InPlace' /\ Unparameterised'
    BY <1>1, <2>2, <2>3 DEF InPlace, Unparameterised
  <2>6. InOrder'
    BY <1>1, <1>3, <2>2, <2>3 DEF InOrder
  <2>7. Framed'
    BY <1>2, <1>3 DEF IInv, Framed
  <2>8. HasCompletedHonest'
    BY <1>3, <2>2, <2>3 DEF HasCompletedHonest
  <2>9. QED BY <1>7, <2>4, <2>5, <2>7, <2>8, <2>6 DEF IInv

LEMMA BindStatementFailsStep ==
  ASSUME IInv, NEW ps \in ParamLists, NEW j \in 1..Len(ps), BindStatementFails(ps, j)
  PROVE  IInv'
<1>1. TakeParams(ps) /\ kind' = kind
  BY DEF BindStatementFails
<1>2. max = NULL /\ ~crashed
  BY <1>1 DEF TakeParams, Idle
<1>3. /\ i' = j /\ executed' = SubSeq(ps, 1, j - 1) /\ complete' = FALSE
      /\ cursor' = "none" /\ wire' = <<>>
      /\ UNCHANGED <<cached, bound, max, capacity, out, crashed>>
  BY DEF BindStatementFails, fetchVars
<1>4. Taken(ps)
  BY <1>1, TakenList
<1>5. ps \in Seq(Params) /\ Len(ps) \in Nat /\ Len(ps) <= MaxBind
  BY <1>4 DEF Taken
<1>6. /\ SubSeq(ps, 1, j - 1) \in Seq(Params) /\ Len(SubSeq(ps, 1, j - 1)) = j - 1
      /\ \A k \in 1..(j - 1) : SubSeq(ps, 1, j - 1)[k] = ps[k]
  BY <1>5
<1>7. pSpec' \in BOOLEAN
  <2>1. (kind = "call" /\ j > 1) \in BOOLEAN
    BY TruthValues
  <2>2. QED BY <2>1, Zenon DEF BindStatementFails
<1>8. complete' \in BOOLEAN
  BY <1>3, TruthValues, Zenon
<1>9. Types'
  <2>1. i' \in Nat /\ n_rows' \in Nat /\ i' <= n_rows' /\ n_rows' <= MaxBind
    BY <1>3, <1>5, <1>4 DEF Taken
  <2>2. executed' \in Seq(Params \cup {NULL})
    BY <1>3, <1>6
  <2>3. QED
    BY <1>1, <1>3, <1>7, <1>8, <1>4, <2>1, <2>2 DEF IInv, Types, Taken
<1>10. QED
  <2>1. kind # "plain" /\ params'.rows = ps /\ n_rows' = Len(ps)
    BY <1>4 DEF Taken
  <2>2. InPlace' /\ Unparameterised'
    BY <1>1, <2>1, <1>5 DEF InPlace, Unparameterised
  <2>3. InOrder'
    <3>1. bound' => Broken'
      BY <1>3, Zenon DEF Broken
    <3>2. QED BY <1>3, <1>5, <1>6, <2>1, <3>1 DEF InOrder
  <2>4. Framed'
    BY <1>2, <1>3 DEF IInv, Framed
  <2>5. HasCompletedHonest'
    <3>1. ~(pSpec' /\ HasCompleted')
      BY <1>3, Zenon DEF HasCompleted
    <3>2. QED BY <3>1, Zenon DEF HasCompletedHonest
  <2>6. OutsideNeedsUnfit'
    BY <1>2, <1>3 DEF OutsideNeedsUnfit
  <2>7. QED BY <1>9, <2>2, <2>3, <2>4, <2>5, <2>6 DEF IInv

-----------------------------------------------------------------------------
(* dbFetch() *)

LEMMA FetchStartStep ==
  ASSUME IInv, NEW n \in FetchSizes, FetchStart(n)
  PROVE  IInv'
<1> USE DEF FetchStart, Idle, bindVars, fetchVars
<1>1. n \in Int /\ n # NULL /\ InitialCapacity \in Nat /\ InitialCapacity >= 1
  BY SizeAssumption, NullAssumption
<1>2. QED
  BY <1>1 DEF IInv, Types, nParams, InPlace, Unparameterised, InOrder, Unfit, Broken, Framed,
     Full, HasCompletedHonest, HasCompleted, OutsideNeedsUnfit

(* What a step of fetch() leaves alone. *)
Rest == <<kind, pSpec, cached, bound, params, n_rows, crashed>>

LEMMA UnfitKept == UNCHANGED Rest => (Unfit' <=> Unfit) /\ nParams' = nParams
BY DEF Rest, Unfit, nParams

LEMMA ReadRowStep ==
  ASSUME IInv, ReadRow
  PROVE  IInv'
<1> USE DEF ReadRow, CanRead, Fetching, bindVars, fetchVars
<1>1. (Unfit' <=> Unfit) /\ nParams' = nParams
  BY UnfitKept DEF Rest
<1>2. Head(wire) \in RowType /\ Tail(wire) \in Seq(RowType)
  BY DEF IInv, Types
<1>3. Len(out) \in Nat /\ Len(out') = Len(out) + 1
  BY DEF IInv, Types
<1>4. out' \in Seq(RowType \cup {Blank}) /\ (cached => out' \in Seq(RowType))
  BY <1>2 DEF IInv, Types
<1>5. Types'
  BY <1>1, <1>2, <1>4 DEF IInv, Types
<1>6. Framed'
  BY <1>3 DEF IInv, Framed, Types, Full
<1>7. QED
  BY <1>1, <1>5, <1>6 DEF IInv, InPlace, Unparameterised, InOrder, Broken,
     HasCompletedHonest, HasCompleted, OutsideNeedsUnfit

LEMMA ReadRowInterruptedStep ==
  ASSUME IInv, ReadRowInterrupted
  PROVE  IInv'
<1> USE DEF ReadRowInterrupted, CanRead, Fetching, GiveUp, bindVars, fetchVars
<1>1. (Unfit' <=> Unfit) /\ nParams' = nParams
  BY UnfitKept DEF Rest
<1>2. Tail(wire) \in Seq(RowType)
  BY DEF IInv, Types
<1>3. Types'
  BY <1>1, <1>2 DEF IInv, Types
<1>4. QED
  BY <1>1, <1>3 DEF IInv, InPlace, Unparameterised, InOrder, Broken, Framed,
     HasCompletedHonest, HasCompleted, OutsideNeedsUnfit

LEMMA EndOfRowsStep ==
  ASSUME IInv, EndOfRows
  PROVE  IInv'
<1> USE DEF EndOfRows, Fetching, bindVars, fetchVars
<1>1. (Unfit' <=> Unfit) /\ nParams' = nParams
  BY UnfitKept DEF Rest
<1>2. Types'
  BY <1>1 DEF IInv, Types
<1>3. QED
  BY <1>1, <1>2 DEF IInv, InPlace, Unparameterised, InOrder, Broken, Framed, Full,
     HasCompletedHonest, HasCompleted, OutsideNeedsUnfit

LEMMA ReadFailsStep ==
  ASSUME IInv, ReadFails
  PROVE  IInv'
<1> USE DEF ReadFails, Fetching, GiveUp, bindVars, fetchVars
<1>1. (Unfit' <=> Unfit) /\ nParams' = nParams
  BY UnfitKept DEF Rest
<1>2. Types'
  BY <1>1 DEF IInv, Types
<1>3. QED
  BY <1>1, <1>2 DEF IInv, InPlace, Unparameterised, InOrder, Broken, Framed,
     HasCompletedHonest, HasCompleted, OutsideNeedsUnfit

(* step() only goes on when the previous execution has not failed. *)
LEMMA NextParamsStep ==
  ASSUME IInv, NextParams
  PROVE  IInv'
<1> USE DEF NextParams, MoreParams, InList, Fetching, bindVars, fetchVars
<1>1. (Unfit' <=> Unfit) /\ nParams' = nParams
  BY UnfitKept DEF Rest
<1>2. params.rows[i'] \in Params
  BY DEF IInv, Types
<1>3. /\ Len(executed') = Len(executed) + 1
      /\ \A k \in 1..Len(executed) : executed'[k] = executed[k]
      /\ executed'[Len(executed) + 1] = params.rows[i']
      /\ executed' \in Seq(Params \cup {NULL})
  BY <1>2 DEF IInv, Types
<1>4. Types'
  <2>1. i' \in Nat /\ i' <= n_rows'
    BY DEF IInv, Types
  <2>2. wire' \in Seq(RowType)
    BY <1>2, RowsAreRows
  <2>3. QED BY <1>1, <1>3, <2>1, <2>2 DEF IInv, Types
<1>5. InOrder'
  <2> SUFFICES ASSUME bound, nParams > 0, ~Unfit PROVE InOrder'
    BY <1>1 DEF InOrder
  <2>1. ~Broken
    BY DEF Broken
  <2>2. /\ Len(executed) = i
        /\ \A k \in 1..i : executed[k] = params.rows[k]
    BY <2>1 DEF IInv, InOrder
  <2>3. QED BY <1>3, <2>2 DEF InOrder, IInv, Types
<1>6. QED
  BY <1>1, <1>4, <1>5 DEF IInv, Types, InPlace, Unparameterised, Framed, Full,
     HasCompletedHonest, HasCompleted, OutsideNeedsUnfit

LEMMA NextParamsFailsStep ==
  ASSUME IInv, NextParamsFails
  PROVE  IInv'
<1> USE DEF NextParamsFails, MoreParams, InList, Fetching, GiveUp, bindVars, fetchVars
<1>1. (Unfit' <=> Unfit) /\ nParams' = nParams
  BY UnfitKept DEF Rest
<1>2. i' \in Nat /\ i' <= n_rows'
  BY DEF IInv, Types
<1>3. Types'
  <2>1. out' \in Seq(RowType \cup {Blank}) /\ out' \in Seq(RowType)
    OBVIOUS
  <2>2. wire' \in Seq(RowType) /\ complete' \in BOOLEAN /\ max' \in FetchSizes \cup {NULL}
    <3>1. wire' \in Seq(RowType)
      OBVIOUS
    <3>2. complete' \in BOOLEAN /\ max' \in FetchSizes \cup {NULL}
      BY TruthValues, Zenon
    <3>3. QED BY <3>1, <3>2, Zenon
  <2>3. QED BY <1>1, <1>2, <2>1, <2>2 DEF IInv, Types
<1>4. QED
  BY <1>1, <1>3 DEF IInv, Types, InPlace, Unparameterised, InOrder, Broken, Framed,
     HasCompletedHonest, HasCompleted, OutsideNeedsUnfit

LEMMA NextParamsUnsupportedStep ==
  ASSUME IInv, NextParamsUnsupported
  PROVE  IInv'
<1> USE DEF NextParamsUnsupported, MoreParams, Fetching, GiveUp, bindVars, fetchVars
<1>1. (Unfit' <=> Unfit) /\ nParams' = nParams
  BY UnfitKept DEF Rest
<1>2. Unfit
  BY DEF IInv, Framed, Unfit
<1>3. Types'
  BY <1>1 DEF IInv, Types
<1>4. QED
  BY <1>1, <1>2, <1>3 DEF IInv, InPlace, Unparameterised, InOrder, Broken, Framed,
     HasCompletedHonest, HasCompleted, OutsideNeedsUnfit

(* The list in place is as long as it is said to be, and as wide. *)
LEMMA NextParamsOutsideStep ==
  ASSUME IInv, NextParamsOutside
  PROVE  IInv'
<1> USE DEF NextParamsOutside, MoreParams, InList, Fetching, bindVars, fetchVars
<1>1. (Unfit' <=> Unfit) /\ nParams' = nParams
  BY DEF Unfit, nParams
<1>2. Unfit
  BY ParamsNumber DEF IInv, Types, Framed, InPlace, Unfit
<1>3. Types'
  BY <1>1 DEF IInv, Types
<1>4. QED
  BY <1>1, <1>2, <1>3 DEF IInv, InPlace, Unparameterised, InOrder, Broken, Framed, Full,
     HasCompletedHonest, HasCompleted, OutsideNeedsUnfit

LEMMA ReturnStep ==
  ASSUME IInv, Return
  PROVE  IInv'
<1> USE DEF Return, Fetching, GiveUp, bindVars, fetchVars
<1>1. (Unfit' <=> Unfit) /\ nParams' = nParams
  BY UnfitKept DEF Rest
<1>2. Types'
  BY <1>1 DEF IInv, Types
<1>3. QED
  BY <1>1, <1>2 DEF IInv, InPlace, Unparameterised, InOrder, Broken, Framed,
     HasCompletedHonest, HasCompleted, OutsideNeedsUnfit

-----------------------------------------------------------------------------
LEMMA IInvStep == IInv /\ [Next]_vars => IInv'
<1> SUFFICES ASSUME IInv, [Next]_vars PROVE IInv'
  OBVIOUS
<1>1. CASE UNCHANGED vars
  BY <1>1 DEF vars, bindVars, fetchVars, IInv, Types, nParams, InPlace, Unparameterised,
     InOrder, Unfit, Broken, Framed, Full, HasCompletedHonest, HasCompleted, OutsideNeedsUnfit
<1>2. CASE Bind
  BY <1>1, <1>2, BadBindStep, BadTypesStep, BindQueryStep, BindStatementStep,
     BindStatementFailsStep DEF Bind, BindUneven
<1>3. CASE \E n \in FetchSizes : FetchStart(n)
  BY <1>3, FetchStartStep
<1>4. CASE FetchStep
  BY <1>4, ReadRowStep, ReadRowInterruptedStep, EndOfRowsStep, ReadFailsStep, NextParamsStep,
     NextParamsFailsStep, NextParamsUnsupportedStep, NextParamsOutsideStep, ReturnStep DEF FetchStep
<1>5. QED BY <1>1, <1>2, <1>3, <1>4 DEF Next

THEOREM Invariance == Spec => []IInv
BY IInvInit, IInvStep, PTL DEF Spec

(* Every variable of MariaResultPrep and MariaBinding keeps its type. *)
THEOREM TypeCorrect == Spec => []TypeOK
<1>1. IInv => TypeOK
  BY TypesOK DEF IInv
<1>2. QED BY <1>1, Invariance, PTL

(* A write to the data frame stays inside what has been allocated. *)
THEOREM WritesInsideFrame == Spec => []WritesInFrame
<1>1. IInv => WritesInFrame
  BY DEF IInv, Framed, WritesInFrame
<1>2. QED BY <1>1, Invariance, PTL

(* Parameter rows are executed in order, each once. *)
THEOREM ExecutionsInOrder == Spec => []ExecutedInOrder
<1>1. IInv => ExecutedInOrder
  <2> SUFFICES ASSUME IInv, bound, nParams > 0, ~Unfit
               PROVE  IsPrefix(executed, params.rows) /\ (~Broken => Len(executed) = i)
    BY DEF ExecutedInOrder
  <2>1. /\ Len(executed) <= Len(params.rows)
        /\ \A k \in 1..Len(executed) : executed[k] = params.rows[k]
        /\ ~Broken => Len(executed) = i
    BY DEF IInv, InOrder
  <2>2. SubSeq(executed, 1, Len(executed)) = SubSeq(params.rows, 1, Len(executed))
    BY <2>1 DEF IInv, Types
  <2>3. QED BY <2>1, <2>2 DEF IsPrefix
<1>2. QED BY <1>1, Invariance, PTL

(* dbHasCompleted() is right once the first parameter row has run. *)
THEOREM CompletionHonest == Spec => []HasCompletedHonest
<1>1. IInv => HasCompletedHonest
  BY DEF IInv
<1>2. QED BY <1>1, Invariance, PTL

(* No parameter is read outside the list while a list is bound that          *)
(* init_binding() has not refused: validate_params() keeps the place, the     *)
(* number of rows and the columns in step, over rebinding, failures and       *)
(* interrupts.                                                                *)
THEOREM InsideList == Spec => []OutsideNeedsUnfit
<1>1. IInv => OutsideNeedsUnfit
  BY DEF IInv
<1>2. QED BY <1>1, Invariance, PTL

-----------------------------------------------------------------------------
(* The stream of rows *)

(* What the server answers to the parameter rows after the j-th. *)
After(r, j, n) == FlattenSeq([k \in 1..(n - j) |-> Rows(r[j + k])])
(* ... and to all of a list. *)
RowsOf(ps) == FlattenSeq([k \in 1..Len(ps) |-> Rows(ps[k])])

LEMMA AfterArgs ==
  ASSUME NEW r \in Seq(Params), NEW j \in Nat, NEW n \in Nat, j <= n, n <= Len(r)
  PROVE  /\ [k \in 1..(n - j) |-> Rows(r[j + k])] \in Seq(Seq(RowType))
         /\ Len([k \in 1..(n - j) |-> Rows(r[j + k])]) = n - j
         /\ \A k \in 1..(n - j) : [m \in 1..(n - j) |-> Rows(r[j + m])][k] = Rows(r[j + k])
<1>1. \A k \in 1..(n - j) : r[j + k] \in Params
  BY Len(r) \in Nat
<1>2. \A k \in 1..(n - j) : Rows(r[j + k]) \in Seq(RowType)
  BY <1>1, RowsAreRows
<1>3. n - j \in Nat
  OBVIOUS
<1>4. QED BY <1>2, <1>3

LEMMA AfterTyped ==
  ASSUME NEW r \in Seq(Params), NEW j \in Nat, NEW n \in Nat, j <= n, n <= Len(r)
  PROVE  After(r, j, n) \in Seq(RowType)
BY AfterArgs, FlattenTyped DEF After

(* The answer to the next row comes first. *)
LEMMA AfterNext ==
  ASSUME NEW r \in Seq(Params), NEW j \in Nat, NEW n \in Nat, j < n, n <= Len(r)
  PROVE  After(r, j, n) = Rows(r[j + 1]) \o After(r, j + 1, n)
<1> DEFINE s == [k \in 1..(n - j) |-> Rows(r[j + k])]
           t == [k \in 1..(n - (j + 1)) |-> Rows(r[(j + 1) + k])]
<1>1. s \in Seq(Seq(RowType)) /\ Len(s) = n - j /\ \A k \in 1..(n - j) : s[k] = Rows(r[j + k])
  <2>1. j <= n
    OBVIOUS
  <2>2. QED BY <2>1, AfterArgs
<1>2. /\ t \in Seq(Seq(RowType)) /\ Len(t) = n - (j + 1)
      /\ \A k \in 1..(n - (j + 1)) : t[k] = Rows(r[(j + 1) + k])
  <2>1. j + 1 \in Nat /\ j + 1 <= n
    OBVIOUS
  <2>2. QED BY <2>1, AfterArgs
<1>3. s[1] = Rows(r[j + 1]) /\ Len(s) = Len(t) + 1
  BY <1>1, <1>2
<1>4. \A k \in 1..Len(t) : t[k] = s[k + 1]
  <2> TAKE k \in 1..Len(t)
  <2>1. k \in 1..(n - (j + 1)) /\ k + 1 \in 1..(n - j) /\ (j + 1) + k = j + (k + 1)
    BY <1>2
  <2>2. QED BY <2>1, <1>1, <1>2
<1> HIDE DEF s, t
<1>5. FlattenSeq(s) = s[1] \o FlattenSeq(t)
  BY <1>1, <1>2, <1>3, <1>4, FlattenFirst
<1>6. QED BY <1>3, <1>5, Zenon DEF After, s, t

LEMMA AfterEnd ==
  ASSUME NEW r, NEW n \in Nat
  PROVE  After(r, n, n) = <<>>
<1>1. [k \in 1..(n - n) |-> Rows(r[n + k])] = <<>>
  OBVIOUS
<1>2. Len(<<>>) = 0
  OBVIOUS
<1>3. QED BY <1>1, <1>2, FlattenEmpty, Zenon DEF After

LEMMA AfterStart ==
  ASSUME NEW r \in Seq(Params)
  PROVE  After(r, 0, Len(r)) = RowsOf(r)
<1>1. [k \in 1..(Len(r) - 0) |-> Rows(r[0 + k])] = [k \in 1..Len(r) |-> Rows(r[k])]
  <2>1. Len(r) \in Nat /\ Len(r) - 0 = Len(r) /\ \A k \in 1..Len(r) : 0 + k = k
    OBVIOUS
  <2>2. QED BY <2>1, Zenon
<1>2. QED BY <1>1, Zenon DEF After, RowsOf

(* The variables of the stream. *)
sList == IF Promised /\ bound THEN params.rows ELSE <<>>
sTodo == IF Promised THEN Todo ELSE <<>>
sGot == IF Promised THEN got ELSE <<>>
sAsked == IF Promised THEN max ELSE NULL

(* Steps of the stream, in terms of its variables. *)
LEMMA AsStutter ==
  ASSUME UNCHANGED <<sList, sTodo, sGot, sAsked>>
  PROVE  [Stream!Next]_(Stream!svars)
BY Zenon DEF Stream!svars, sList, sTodo, sGot, sAsked

LEMMA AsBind ==
  ASSUME NEW ps \in ParamLists, sAsked = NULL, sAsked' = NULL, sList' = ps,
         sTodo' = RowsOf(ps), sGot' = <<>>
  PROVE  Stream!Next
<1>1. [qs \in ParamLists |-> RowsOf(qs)][ps] = RowsOf(ps)
  BY Zenon
<1>2. Stream!Bind(ps)
  BY <1>1, Zenon DEF Stream!Bind, sList, sTodo, sGot, sAsked, RowsOf
<1>3. ps \in DOMAIN [qs \in ParamLists |-> RowsOf(qs)]
  BY Zenon
<1>4. QED BY <1>2, <1>3, Zenon DEF Stream!Next, RowsOf

LEMMA AsForget ==
  ASSUME sAsked = NULL, sAsked' = NULL, sList' = <<>>, sTodo' = <<>>, sGot' = <<>>
  PROVE  Stream!Next
<1>1. <<>> \in ParamLists
  <2>1. <<>> \in Seq(Params) /\ Len(<<>>) = 0
    BY EmptySeq
  <2>2. Len(<<>>) <= MaxBind
    BY <2>1, SizeAssumption
  <2>3. QED BY <2>1, <2>2, ListsAreSequences, Zenon
<1>2. RowsOf(<<>>) = <<>>
  <2>1. [k \in 1..Len(<<>>) |-> Rows(<<>>[k])] = <<>> /\ Len(<<>>) = 0
    OBVIOUS
  <2>2. QED BY <2>1, FlattenEmpty, Zenon DEF RowsOf
<1>3. QED BY <1>1, <1>2, AsBind, Zenon

LEMMA AsAsk ==
  ASSUME NEW n \in FetchSizes, sAsked = NULL, sAsked' = n, UNCHANGED <<sList, sTodo, sGot>>
  PROVE  Stream!Next
BY Zenon DEF Stream!Next, Stream!Ask, sList, sTodo, sGot, sAsked

LEMMA AsFail ==
  ASSUME sAsked # NULL, sAsked' = NULL, sTodo' = <<>>, UNCHANGED <<sList, sGot>>
  PROVE  Stream!Next
BY Zenon DEF Stream!Next, Stream!Fail, sList, sTodo, sGot, sAsked

LEMMA AsInterrupt ==
  ASSUME NEW k \in 1..Len(sTodo), sAsked # NULL, sAsked' = NULL,
         sTodo' = SubSeq(sTodo, k + 1, Len(sTodo)), UNCHANGED <<sList, sGot>>
  PROVE  Stream!Next
BY Zenon DEF Stream!Next, Stream!Interrupt, Stream!Drop, sList, sTodo, sGot, sAsked

(* How many rows are handed out. *)
sShare == IF sAsked < 0 \/ sAsked > Len(sTodo) THEN Len(sTodo) ELSE sAsked

LEMMA AsReply ==
  ASSUME sAsked # NULL, sAsked' = NULL, sGot' = sGot \o SubSeq(sTodo, 1, sShare),
         sTodo' = SubSeq(sTodo, sShare + 1, Len(sTodo)), UNCHANGED sList
  PROVE  Stream!Next
BY Zenon DEF Stream!Next, Stream!Reply, Stream!Share, Stream!Drop, sList, sTodo, sGot, sAsked, sShare

(* What a step of the stream relies on besides IInv: the metadata of queries  *)
(* is there from the start, the frame of fetch(n) has n rows, and no fetch()  *)
(* has rows when there is no result set to read from.                         *)
Steady ==
    /\ kind \in {"plain", "query"} => pSpec /\ cached
    /\ max # NULL => /\ max # 0
                     /\ max > 0 => capacity = max
                     /\ ~complete /\ cursor = "none" => out = <<>>

LEMMA SteadyInit == Init => Steady
<1> SUFFICES ASSUME Init PROVE Steady
  OBVIOUS
<1>1. kind \in {"plain", "query"} => pSpec /\ cached
  BY Zenon DEF Init
<1>2. QED BY <1>1 DEF Init, Steady

LEMMA SteadyStep == IInv /\ Steady /\ [Next]_vars => Steady'
<1> SUFFICES ASSUME IInv, Steady, [Next]_vars PROVE Steady'
  OBVIOUS
<1> USE DEF Steady
<1>1. CASE UNCHANGED vars
  BY <1>1 DEF vars, bindVars, fetchVars
<1>2. CASE Bind
  <2>1. CASE ~UNCHANGED vars
    <3>1. /\ UNCHANGED <<kind, cached>> /\ max' = NULL
          /\ kind \in {"plain", "query"} => pSpec'
      BY <1>2, <2>1 DEF Bind, BindUneven, BadBind, BadTypes, BindQuery, BindStatement,
         BindStatementFails, TakeParams, Idle, fetchVars
    <3>2. QED BY <3>1
  <2>2. QED BY <1>1, <2>1
<1>3. ASSUME NEW n \in FetchSizes, FetchStart(n)
      PROVE  Steady'
  <2>1. out = <<>>
    BY <1>3 DEF FetchStart, Idle, IInv, Framed
  <2>2. QED BY <1>3, <2>1, SizeAssumption DEF FetchStart, bindVars
<1>4. CASE FetchStep
  <2>1. UNCHANGED <<kind, pSpec, cached>>
    BY <1>4 DEF FetchStep, ReadRow, ReadRowInterrupted, EndOfRows, ReadFails, NextParams,
       NextParamsFails, NextParamsUnsupported, NextParamsOutside, Return
  <2>2. CASE ReadRow
    <3>1. max > 0 => capacity' = capacity
      BY <2>2 DEF ReadRow, CanRead, Full, IInv, Types
    <3>2. QED BY <2>1, <2>2, <3>1 DEF ReadRow, CanRead
  <2>3. CASE ReadRowInterrupted \/ ReadFails \/ NextParamsFails \/ NextParamsUnsupported \/ Return
    BY <2>1, <2>3 DEF ReadRowInterrupted, ReadFails, NextParamsFails, NextParamsUnsupported,
       Return, GiveUp
  <2>4. CASE EndOfRows \/ NextParams \/ NextParamsOutside
    BY <2>1, <2>4 DEF EndOfRows, NextParams, NextParamsOutside, fetchVars
  <2>5. QED BY <1>4, <2>2, <2>3, <2>4 DEF FetchStep
<1>5. QED BY <1>1, <1>2, <1>3, <1>4 DEF Next

(* Without a promise the stream does not change. *)
LEMMA Unpromised ==
  ASSUME ~Promised, ~Promised'
  PROVE  UNCHANGED <<sList, sTodo, sGot, sAsked>>
BY Zenon DEF sList, sTodo, sGot, sAsked

(* What is left on the wire of the execution under way. *)
Left == IF complete THEN <<>> ELSE wire

(* Of a query with a list that is fit. *)
LEMMA PromisedState ==
  ASSUME IInv, Steady, Promised, bound
  PROVE  /\ ~Unfit /\ cached /\ pSpec
         /\ params.rows \in Seq(Params) /\ Len(params.rows) \in Nat
         /\ n_rows = Len(params.rows) /\ n_rows \in Nat /\ i \in Nat /\ i <= n_rows
         /\ After(params.rows, i, n_rows) \in Seq(RowType)
         /\ out \in Seq(RowType) /\ wire \in Seq(RowType) /\ Left \in Seq(RowType)
         /\ sList = params.rows /\ sGot = got /\ sAsked = max
         /\ sTodo = IF Broken THEN <<>> ELSE out \o Left \o After(params.rows, i, n_rows)
<1>1. ~Unfit /\ cached /\ pSpec
  BY DEF Promised, Steady
<1>2. params.rows \in Seq(Params) /\ i \in Nat /\ i <= n_rows /\ n_rows \in Nat
  BY DEF IInv, Types
<1>3. n_rows = Len(params.rows)
  BY <1>1 DEF IInv, InPlace
<1>4. After(params.rows, i, n_rows) \in Seq(RowType)
  BY <1>2, <1>3, AfterTyped
<1>5. out \in Seq(RowType) /\ wire \in Seq(RowType)
  BY <1>1 DEF IInv, Types
<1>6. Left \in Seq(RowType)
  BY <1>5 DEF Left
<1>7. sList = params.rows /\ sGot = got /\ sAsked = max
  BY Zenon DEF sList, sGot, sAsked
<1>8. sTodo = IF Broken THEN <<>> ELSE out \o Left \o After(params.rows, i, n_rows)
  BY Zenon DEF sTodo, Todo, After, Left
<1>9. Len(params.rows) \in Nat
  BY <1>2
<1>10. QED BY <1>1, <1>2, <1>3, <1>4, <1>5, <1>6, <1>7, <1>8, <1>9

LEMMA TodoNext ==
  ASSUME Promised', bound'
  PROVE  sTodo' = IF Broken' THEN <<>>
                  ELSE out' \o Left' \o After(params'.rows, i', n_rows')
BY Zenon DEF sTodo, Todo, After, Left

LEMMA PromiseKept ==
  ASSUME UNCHANGED Rest
  PROVE  (Promised' <=> Promised) /\ sList' = sList
<1>1. UNCHANGED <<kind, bound, params>> /\ (Unfit' <=> Unfit)
  BY UnfitKept DEF Rest
<1>2. Promised' <=> Promised
  BY <1>1 DEF Promised
<1>3. QED BY <1>1, <1>2 DEF sList

LEMMA StreamInit == Init => Stream!Init
<1> SUFFICES ASSUME Init PROVE Stream!Init
  OBVIOUS
<1>1. /\ params.rows = <<>> /\ max = NULL /\ got = <<>> /\ i = 0 /\ n_rows = 0
      /\ out = <<>> /\ ~complete
  BY DEF Init, NoList
<1>2. sList = <<>> /\ sGot = <<>> /\ sAsked = NULL
  BY <1>1, Zenon DEF sList, sGot, sAsked
<1>3. sTodo \in {<<>>, Rows(NULL)}
  <2>1. CASE ~(Promised /\ bound)
    BY <2>1, Zenon DEF sTodo, Todo
  <2>2. CASE Promised /\ bound
    <3>1. kind = "plain"
      BY <2>2, Zenon DEF Init
    <3>2. wire = Rows(NULL) /\ cursor = "rows"
      BY <3>1, Zenon DEF Init
    <3>3. ~Broken
      BY <3>2 DEF Broken
    <3>4. IInv /\ Steady
      BY IInvInit, SteadyInit
    <3>5. sTodo = out \o Left \o After(params.rows, i, n_rows)
      BY <2>2, <3>3, <3>4, PromisedState, Zenon
    <3>6. After(params.rows, i, n_rows) = <<>>
      BY <1>1, AfterEnd
    <3>7. Left = Rows(NULL)
      BY <1>1, <3>2, Zenon DEF Left
    <3>8. Rows(NULL) \in Seq(RowType)
      BY RowsAreRows
    <3>9. <<>> \o Rows(NULL) \o <<>> = Rows(NULL)
      BY <3>8, ConcatEmptySeq
    <3>10. QED BY <1>1, <3>5, <3>6, <3>7, <3>9
  <2>3. QED BY <2>1, <2>2
<1>4. QED BY <1>2, <1>3, Zenon DEF Stream!Init, sList, sTodo, sGot, sAsked

LEMMA UnchangedStreams ==
  ASSUME UNCHANGED vars
  PROVE  [Stream!Next]_(Stream!svars)
<1>1. UNCHANGED <<kind, bound, complete, params, i, n_rows, max, out, cursor, wire, got>>
  BY DEF vars, bindVars, fetchVars
<1>2. UNCHANGED <<sList, sTodo, sGot, sAsked>>
  BY <1>1, Zenon DEF sList, sTodo, sGot, sAsked, Promised, Unfit, nParams, Todo, Broken
<1>3. QED BY <1>2, AsStutter

(* dbBind(): a new stream, or none when the list is unfit. *)
LEMMA BindStreams ==
  ASSUME IInv, Steady, Bind
  PROVE  [Stream!Next]_(Stream!svars)
<1> SUFFICES ASSUME ~UNCHANGED vars
             PROVE  [Stream!Next]_(Stream!svars)
  BY UnchangedStreams
<1>1. PICK ps \in ParamLists :
        \/ \E cols \in 0..(nParams + 1) : BadBind(cols, ps)
        \/ \E j \in 1..nParams : BadTypes(j, ps)
        \/ BindQuery(ps) \/ BindStatement(ps)
        \/ \E j \in 1..Len(ps) : BindStatementFails(ps, j)
  BY DEF Bind, BindUneven
<1>2. /\ max = NULL /\ max' = NULL /\ kind' = kind /\ nParams' = nParams
      /\ out = <<>> /\ out' = <<>> /\ kind # "plain"
  <2>1. max = NULL /\ UNCHANGED <<max, out>> /\ kind' = kind /\ nParams > 0
    <3>1. CASE \E cols \in 0..(nParams + 1) : BadBind(cols, ps)
      BY <3>1 DEF BadBind, Idle, fetchVars
    <3>2. CASE \E j \in 1..nParams : BadTypes(j, ps)
      BY <3>2, ParamsNumber DEF BadTypes, Idle, fetchVars
    <3>3. CASE BindQuery(ps) \/ BindStatement(ps) \/ \E j \in 1..Len(ps) : BindStatementFails(ps, j)
      BY <3>3 DEF BindQuery, BindStatement, BindStatementFails, TakeParams, Idle, fetchVars
    <3>4. QED BY <1>1, <3>1, <3>2, <3>3
  <2>2. out = <<>>
    BY <2>1 DEF IInv, Framed
  <2>3. QED BY <2>1, <2>2 DEF nParams
<1>3. sAsked = NULL /\ sAsked' = NULL
  BY <1>2, Zenon DEF sAsked
<1>4. ASSUME ~(Promised' /\ bound'), sGot' = <<>>
      PROVE  Stream!Next
  <2>1. sList' = <<>> /\ sTodo' = <<>>
    BY <1>4, Zenon DEF sList, sTodo, Todo
  <2>2. QED BY <2>1, <1>3, <1>4, AsForget, Zenon
<1>5. ASSUME NEW cols \in 0..(nParams + 1), BadBind(cols, ps)
      PROVE  [Stream!Next]_(Stream!svars)
  <2>1. cols # nParams /\ params'.cols = cols /\ UNCHANGED <<bound, got>>
    BY <1>5 DEF BadBind
  <2>2. bound => ~Promised'
    BY <2>1, <1>2, Zenon DEF Promised, Unfit
  <2>3. CASE bound
    <3>1. sGot' = <<>>
      BY <2>2, <2>3, Zenon DEF sGot
    <3>2. QED BY <2>2, <2>3, <3>1, <1>4
  <2>4. CASE ~bound
    <3>1. Promised' <=> Promised
      BY <2>1, <2>4, <1>2, Zenon DEF Promised
    <3>2. UNCHANGED <<sList, sTodo, sGot, sAsked>>
      BY <2>1, <2>4, <3>1, <1>3, Zenon DEF sList, sTodo, sGot, Todo
    <3>3. QED BY <3>2, AsStutter
  <2>5. QED BY <2>3, <2>4
<1>6. ASSUME NEW j \in 1..nParams, BadTypes(j, ps)
      PROVE  Stream!Next
  <2>1. params'.supported = FALSE /\ got' = <<>>
    BY <1>6 DEF BadTypes
  <2>2. ~(Promised' /\ bound')
    BY <2>1, Zenon DEF Promised, Unfit
  <2>3. sGot' = <<>>
    BY <2>1, Zenon DEF sGot
  <2>4. QED BY <2>2, <2>3, <1>4
<1>7. ASSUME BindQuery(ps)
      PROVE  Stream!Next
  <2>1. TakeParams(ps) /\ i' = 0 /\ complete' = TRUE /\ bound' = TRUE /\ got' = <<>>
    BY <1>7 DEF BindQuery, TakeParams
  <2>2. Taken(ps)
    BY <2>1, <1>2, TakenList
  <2>3. sGot' = <<>>
    BY <2>1, Zenon DEF sGot
  <2>4. CASE Promised'
    <3>1. params'.rows = ps /\ n_rows' = Len(ps) /\ ps \in Seq(Params)
      BY <2>2, Zenon DEF Taken
    <3>2. sList' = ps
      BY <2>1, <2>4, <3>1, Zenon DEF sList
    <3>3. ~Broken' /\ Left' = <<>>
      BY <2>1, Zenon DEF Broken, Left
    <3>4. sTodo' = out' \o Left' \o After(ps, 0, Len(ps))
      BY <2>1, <2>4, <3>1, <3>3, TodoNext, Zenon
    <3>5. After(ps, 0, Len(ps)) = RowsOf(ps) /\ RowsOf(ps) \in Seq(RowType)
      <4>1. Len(ps) \in Nat /\ Len(ps) <= Len(ps) /\ 0 <= Len(ps)
        BY <3>1
      <4>2. QED BY <3>1, <4>1, AfterStart, AfterTyped
    <3>6. <<>> \o <<>> = <<>> /\ <<>> \o RowsOf(ps) = RowsOf(ps)
      BY <3>5, ConcatEmptySeq
    <3>7. sTodo' = RowsOf(ps)
      BY <1>2, <3>3, <3>4, <3>5, <3>6, Zenon
    <3>8. QED BY <1>3, <2>3, <3>2, <3>7, AsBind
  <2>5. CASE ~Promised'
    BY <2>3, <2>5, <1>4
  <2>6. QED BY <2>4, <2>5
<1>8. ASSUME BindStatement(ps) \/ \E j \in 1..Len(ps) : BindStatementFails(ps, j)
      PROVE  Stream!Next
  <2>1. ~pSpec /\ got' = <<>>
    BY <1>8 DEF BindStatement, BindStatementFails, TakeParams
  <2>2. ~Promised'
    BY <2>1, <1>2 DEF Steady, Promised
  <2>3. sGot' = <<>>
    BY <2>1, Zenon DEF sGot
  <2>4. QED BY <2>2, <2>3, <1>4
<1>9. QED BY <1>1, <1>5, <1>6, <1>7, <1>8

(* dbFetch(): what is asked for, and what becomes of it. *)
LEMMA FetchStartStreams ==
  ASSUME IInv, Steady, NEW n \in FetchSizes, FetchStart(n)
  PROVE  [Stream!Next]_(Stream!svars)
<1>1. /\ max = NULL /\ max' = n
      /\ UNCHANGED <<kind, bound, complete, params, i, n_rows, out, cursor, wire, got>>
  BY DEF FetchStart, Idle, bindVars
<1>2. Promised' <=> Promised
  BY <1>1, Zenon DEF Promised, Unfit, nParams
<1>3. UNCHANGED <<sList, sGot, sTodo>>
  BY <1>1, <1>2, Zenon DEF sList, sGot, sTodo, Todo, Broken
<1>4. CASE Promised
  <2>1. sAsked = NULL /\ sAsked' = n
    BY <1>1, <1>2, <1>4, Zenon DEF sAsked
  <2>2. QED BY <1>3, <2>1, AsAsk
<1>5. CASE ~Promised
  BY <1>2, <1>5, Unpromised, AsStutter
<1>6. QED BY <1>4, <1>5

LEMMA FetchingBound == IInv /\ max # NULL => bound
BY DEF IInv, Framed

(* A row moves from the wire to the frame; the stream is the same. *)
LEMMA ReadRowStreams ==
  ASSUME IInv, Steady, Promised, ReadRow
  PROVE  [Stream!Next]_(Stream!svars)
<1>1. /\ UNCHANGED Rest /\ UNCHANGED <<max, got, i, complete, cursor>> /\ max # NULL
      /\ ~complete /\ cursor = "rows" /\ wire # <<>> /\ wire' = Tail(wire)
      /\ out' = Append(out, IF cached THEN Head(wire) ELSE Blank)
  BY DEF ReadRow, CanRead, Fetching, bindVars, Rest
<1>2. bound /\ bound' /\ params' = params /\ n_rows' = n_rows /\ Promised' /\ sList' = sList
  BY <1>1, FetchingBound, PromiseKept DEF Rest
<1>3. ~Broken /\ ~Broken' /\ Left = wire /\ Left' = Tail(wire)
  BY <1>1 DEF Broken, Left
<1>4. /\ cached /\ out \in Seq(RowType) /\ wire \in Seq(RowType)
      /\ sTodo = out \o wire \o After(params.rows, i, n_rows)
  BY <1>2, <1>3, PromisedState
<1>5. sTodo' = out' \o Tail(wire) \o After(params.rows, i, n_rows)
  BY <1>1, <1>2, <1>3, TodoNext, Zenon
<1>6. out' \o Tail(wire) = out \o wire
  <2>1. out' = Append(out, Head(wire))
    BY <1>1, <1>4, Zenon
  <2>2. QED BY <1>1, <1>4, <2>1, MoveHead, Zenon
<1>7. sTodo' = sTodo
  BY <1>4, <1>5, <1>6, Zenon
<1>8. sGot' = sGot /\ sAsked' = sAsked
  BY <1>1, <1>2, Zenon DEF sGot, sAsked
<1>9. QED BY <1>2, <1>7, <1>8, AsStutter

(* The rows read so far, and the one just read, are lost. *)
LEMMA ReadRowInterruptedStreams ==
  ASSUME IInv, Steady, Promised, ReadRowInterrupted
  PROVE  [Stream!Next]_(Stream!svars)
<1>1. /\ UNCHANGED Rest /\ UNCHANGED <<got, i, complete, cursor>> /\ max # NULL
      /\ ~complete /\ cursor = "rows" /\ wire # <<>> /\ wire' = Tail(wire)
      /\ out' = <<>> /\ max' = NULL
  BY DEF ReadRowInterrupted, CanRead, Fetching, GiveUp, bindVars, Rest
<1>2. bound /\ bound' /\ params' = params /\ n_rows' = n_rows /\ Promised' /\ sList' = sList
  BY <1>1, FetchingBound, PromiseKept DEF Rest
<1>3. ~Broken /\ ~Broken' /\ Left = wire /\ Left' = Tail(wire)
  BY <1>1 DEF Broken, Left
<1> DEFINE A == After(params.rows, i, n_rows)
           r == Append(out, Head(wire))
           k == Len(r)
<1>4. /\ out \in Seq(RowType) /\ wire \in Seq(RowType) /\ A \in Seq(RowType)
      /\ sTodo = out \o wire \o A /\ sAsked = max
  BY <1>2, <1>3, PromisedState
<1>5. sTodo' = <<>> \o Tail(wire) \o A
  BY <1>1, <1>2, <1>3, TodoNext, Zenon
<1>6. /\ Tail(wire) \in Seq(RowType) /\ r \in Seq(RowType) /\ k \in Nat /\ k >= 1
  BY <1>1, <1>4
<1> HIDE DEF A, k
<1>7. sTodo = r \o (Tail(wire) \o A)
  <2>1. sTodo = (r \o Tail(wire)) \o A
    BY <1>1, <1>4, MoveHead, Zenon
  <2>2. Reassociated(r, Tail(wire), A)
    BY <1>4, <1>6, Associative
  <2>3. QED BY <2>1, <2>2, Zenon DEF Reassociated
<1>8. sTodo' = Tail(wire) \o A /\ Tail(wire) \o A \in Seq(RowType)
  BY <1>4, <1>5, <1>6, ConcatEmptySeq, ConcatProperties
<1>9. /\ sTodo' = SubSeq(sTodo, k + 1, Len(sTodo))
      /\ Len(sTodo) = k + Len(sTodo')
  <2> HIDE DEF r
  <2>1. QED BY <1>6, <1>7, <1>8, Sections DEF k
<1>10. k \in 1..Len(sTodo)
  <2>1. Len(sTodo') \in Nat
    BY <1>8
  <2>2. QED BY <1>6, <1>9, <2>1
<1>11. sGot' = sGot /\ sAsked' = NULL /\ sAsked # NULL
  BY <1>1, <1>2, <1>4, Zenon DEF sGot, sAsked
<1>12. QED BY <1>2, <1>9, <1>10, <1>11, AsInterrupt

LEMMA EndOfRowsStreams ==
  ASSUME IInv, Steady, Promised, EndOfRows
  PROVE  [Stream!Next]_(Stream!svars)
<1>1. /\ UNCHANGED Rest /\ UNCHANGED <<max, got, i, out>> /\ max # NULL
      /\ ~complete /\ cursor = "rows" /\ wire = <<>> /\ complete' = TRUE
  BY DEF EndOfRows, Fetching, bindVars, fetchVars, Rest
<1>2. bound /\ bound' /\ params' = params /\ n_rows' = n_rows /\ Promised' /\ sList' = sList
  BY <1>1, FetchingBound, PromiseKept DEF Rest
<1>3. ~Broken /\ ~Broken' /\ Left = <<>> /\ Left' = <<>>
  BY <1>1, Zenon DEF Broken, Left
<1>4. sTodo = out \o Left \o After(params.rows, i, n_rows)
  BY <1>2, <1>3, PromisedState
<1>5. sTodo' = out' \o Left' \o After(params'.rows, i', n_rows')
  BY <1>2, <1>3, TodoNext, Zenon
<1>6. sTodo' = sTodo
  BY <1>1, <1>2, <1>3, <1>4, <1>5, Zenon
<1>7. sGot' = sGot /\ sAsked' = sAsked
  BY <1>1, <1>2, Zenon DEF sGot, sAsked
<1>8. QED BY <1>2, <1>6, <1>7, AsStutter

(* The next parameter row is executed: its rows were those to come first. *)
LEMMA NextParamsStreams ==
  ASSUME IInv, Steady, Promised, NextParams
  PROVE  [Stream!Next]_(Stream!svars)
<1>1. /\ UNCHANGED Rest /\ UNCHANGED <<max, got, out>> /\ max # NULL
      /\ complete /\ i < n_rows /\ i' = i + 1 /\ complete' = FALSE
      /\ cursor' = "rows" /\ wire' = Rows(params.rows[i'])
  BY DEF NextParams, MoreParams, Fetching, bindVars, fetchVars, Rest
<1>2. bound /\ bound' /\ params' = params /\ n_rows' = n_rows /\ Promised' /\ sList' = sList
  BY <1>1, FetchingBound, PromiseKept DEF Rest
<1>3. ~Broken /\ ~Broken' /\ Left = <<>> /\ Left' = Rows(params.rows[i + 1])
  BY <1>1 DEF Broken, Left
<1> DEFINE A == After(params.rows, i + 1, n_rows)
           r == Rows(params.rows[i + 1])
<1>4. /\ out \in Seq(RowType) /\ params.rows \in Seq(Params) /\ n_rows = Len(params.rows)
      /\ n_rows \in Nat /\ i \in Nat
      /\ sTodo = out \o <<>> \o After(params.rows, i, n_rows)
  BY <1>2, <1>3, PromisedState
<1>5. sTodo' = out \o r \o A
  BY <1>1, <1>2, <1>3, TodoNext, Zenon
<1>6. After(params.rows, i, n_rows) = r \o A
  <2>1. n_rows <= Len(params.rows) /\ i < n_rows
    BY <1>1, <1>4
  <2>2. QED BY <1>4, <2>1, AfterNext, Zenon
<1>7. r \in Seq(RowType) /\ A \in Seq(RowType)
  <2>1. params.rows[i + 1] \in Params
    BY <1>1, <1>4
  <2>2. i + 1 \in Nat /\ i + 1 <= n_rows /\ n_rows <= Len(params.rows)
    BY <1>1, <1>4
  <2>3. QED BY <1>4, <2>1, <2>2, RowsAreRows, AfterTyped
<1> HIDE DEF A, r
<1>8. sTodo' = sTodo
  <2>1. out \o <<>> = out
    BY <1>4, ConcatEmptySeq
  <2>2. Reassociated(out, r, A)
    BY <1>4, <1>7, Associative
  <2>3. QED BY <1>4, <1>5, <1>6, <2>1, <2>2, Zenon DEF Reassociated
<1>9. sGot' = sGot /\ sAsked' = sAsked
  BY <1>1, <1>2, Zenon DEF sGot, sAsked
<1>10. QED BY <1>2, <1>8, <1>9, AsStutter

(* A failure leaves no result set: the stream ends. *)
LEMMA FailureStreams ==
  ASSUME IInv, Steady, Promised, ReadFails \/ NextParamsFails
  PROVE  [Stream!Next]_(Stream!svars)
<1>1. /\ UNCHANGED Rest /\ got' = got /\ max # NULL /\ max' = NULL
      /\ ~complete' /\ cursor' = "none"
  BY DEF ReadFails, NextParamsFails, MoreParams, Fetching, GiveUp, bindVars, fetchVars, Rest
<1>2. bound /\ bound' /\ Promised' /\ sList' = sList
  BY <1>1, FetchingBound, PromiseKept DEF Rest
<1>3. Broken'
  BY <1>1, <1>2, Zenon DEF Broken
<1>4. sTodo' = <<>>
  BY <1>2, <1>3, TodoNext, Zenon
<1>5. sGot' = sGot /\ sAsked' = NULL /\ sAsked # NULL
  BY <1>1, <1>2, Zenon DEF sGot, sAsked
<1>6. QED BY <1>2, <1>4, <1>5, AsFail

(* Only a list that is unfit leads here. *)
LEMMA UnfitStreams ==
  ASSUME IInv, Steady, Promised, NextParamsUnsupported \/ NextParamsOutside
  PROVE  [Stream!Next]_(Stream!svars)
<1>1. MoreParams /\ (~params.supported \/ ~InList)
  BY DEF NextParamsUnsupported, NextParamsOutside
<1>2. bound /\ i < n_rows
  BY <1>1, FetchingBound DEF MoreParams, Fetching
<1>3. ~Unfit /\ n_rows = Len(params.rows)
  BY <1>2, PromisedState
<1>4. InList
  BY <1>2, <1>3, ParamsNumber DEF InList, Unfit
<1>5. QED BY <1>1, <1>3, <1>4 DEF Unfit

(* fetch(n) has n rows when the frame is full, all of them otherwise. *)
LEMMA ShareOf ==
  ASSUME NEW m \in Int, m # 0, NEW c \in Nat, m > 0 => c = m,
         NEW o \in Nat, NEW r \in Nat, NEW t, t = o + r, o <= c,
         (m > 0 /\ o >= c) \/ r = 0
  PROVE  (IF m < 0 \/ m > t THEN t ELSE m) = o
OBVIOUS

(* What is handed out is the beginning of the stream, as long as was asked for *)
(* or all there is.                                                            *)
LEMMA ReturnStreams ==
  ASSUME IInv, Steady, Promised, Return
  PROVE  [Stream!Next]_(Stream!svars)
<1>1. /\ UNCHANGED Rest /\ UNCHANGED <<i, complete, cursor, wire>> /\ max # NULL
      /\ Full \/ (complete /\ i >= n_rows)
      /\ got' = got \o out /\ out' = <<>> /\ max' = NULL
  BY DEF Return, Fetching, GiveUp, bindVars, Rest
<1>2. bound /\ bound' /\ params' = params /\ n_rows' = n_rows /\ Promised' /\ sList' = sList
  BY <1>1, FetchingBound, PromiseKept DEF Rest
<1> DEFINE A == After(params.rows, i, n_rows)
           r == Left \o A
<1>3. /\ max \in Int /\ max # 0 /\ (max > 0 => capacity = max)
      /\ Len(out) <= capacity /\ capacity >= 1 /\ capacity \in Nat
      /\ (~complete /\ cursor = "none" => out = <<>>)
  BY <1>1 DEF Steady, IInv, Framed, Types
<1>4. ~Broken /\ ~Broken'
  <2>1. CASE Full
    <3>1. Len(out) >= 1
      BY <2>1, <1>3 DEF Full
    <3>2. out # <<>>
      BY <3>1, EmptySeq
    <3>3. QED BY <1>1, <1>3, <3>2 DEF Broken
  <2>2. CASE complete /\ i >= n_rows
    BY <1>1, <2>2 DEF Broken
  <2>3. QED BY <1>1, <2>1, <2>2
<1>5. /\ out \in Seq(RowType) /\ Left \in Seq(RowType) /\ A \in Seq(RowType)
      /\ sTodo = out \o Left \o A /\ sAsked = max /\ sGot = got
      /\ i \in Nat /\ n_rows \in Nat /\ i <= n_rows
  BY <1>2, <1>4, PromisedState
<1>6. Left' = Left
  BY <1>1, Zenon DEF Left
<1>7. sTodo' = <<>> \o Left \o A
  BY <1>1, <1>2, <1>4, <1>6, TodoNext, Zenon
<1> HIDE DEF A
<1>8. r \in Seq(RowType) /\ <<>> \o Left = Left
  BY <1>5, ConcatProperties, ConcatEmptySeq
<1>9. sTodo = out \o r
  <2>1. Reassociated(out, Left, A)
    BY <1>5, Associative
  <2>2. QED BY <1>5, <2>1, Zenon DEF Reassociated
<1>10. sTodo' = r
  BY <1>7, <1>8, Zenon
<1>11. complete /\ i >= n_rows => Len(r) = 0
  <2> SUFFICES ASSUME complete, i >= n_rows PROVE Len(r) = 0
    OBVIOUS
  <2>1. i = n_rows
    BY <1>5
  <2>2. A = <<>>
    BY <1>5, <2>1, AfterEnd DEF A
  <2>3. Left = <<>>
    BY Zenon DEF Left
  <2>4. r = <<>>
    BY <2>2, <2>3, EmptySeq, ConcatEmptySeq
  <2>5. QED BY <2>4
<1> HIDE DEF r
<1>12. /\ SubSeq(sTodo, 1, Len(out)) = out
       /\ SubSeq(sTodo, Len(out) + 1, Len(sTodo)) = r
       /\ Len(sTodo) = Len(out) + Len(r) /\ Len(out) \in Nat /\ Len(r) \in Nat
  BY <1>5, <1>8, <1>9, Sections
<1>13. sShare = Len(out)
  <2>1. (max > 0 /\ Len(out) >= capacity) \/ Len(r) = 0
    BY <1>1, <1>11 DEF Full
  <2>2. (IF max < 0 \/ max > Len(sTodo) THEN Len(sTodo) ELSE max) = Len(out)
    BY <1>3, <1>12, <2>1, ShareOf
  <2>3. QED BY <1>5, <2>2, Zenon DEF sShare
<1>14. sGot' = sGot \o SubSeq(sTodo, 1, sShare)
  BY <1>1, <1>2, <1>5, <1>12, <1>13, Zenon DEF sGot
<1>15. sTodo' = SubSeq(sTodo, sShare + 1, Len(sTodo))
  BY <1>10, <1>12, <1>13, Zenon
<1>16. sAsked # NULL /\ sAsked' = NULL
  BY <1>1, <1>2, <1>5, Zenon DEF sAsked
<1>17. QED BY <1>2, <1>14, <1>15, <1>16, AsReply, Zenon

LEMMA FetchStreams ==
  ASSUME IInv, Steady, FetchStep
  PROVE  [Stream!Next]_(Stream!svars)
<1>1. CASE Promised
  BY <1>1, ReadRowStreams, ReadRowInterruptedStreams, EndOfRowsStreams, NextParamsStreams,
     FailureStreams, UnfitStreams, ReturnStreams DEF FetchStep
<1>2. CASE ~Promised
  <2>1. UNCHANGED <<kind, bound, params>>
    BY DEF FetchStep, ReadRow, ReadRowInterrupted, EndOfRows, ReadFails, NextParams,
       NextParamsFails, NextParamsUnsupported, NextParamsOutside, Return, bindVars
  <2>2. ~Promised'
    BY <1>2, <2>1, Zenon DEF Promised, Unfit, nParams
  <2>3. QED BY <1>2, <2>2, Unpromised, AsStutter
<1>3. QED BY <1>1, <1>2

LEMMA StreamStep ==
  ASSUME IInv, Steady, [Next]_vars
  PROVE  [Stream!Next]_(Stream!svars)
<1>1. CASE UNCHANGED vars
  BY <1>1, UnchangedStreams
<1>2. CASE Bind
  BY <1>2, BindStreams
<1>3. CASE \E n \in FetchSizes : FetchStart(n)
  BY <1>3, FetchStartStreams
<1>4. CASE FetchStep
  BY <1>4, FetchStreams
<1>5. QED BY <1>1, <1>2, <1>3, <1>4 DEF Next

(* A prepared query gives its caller the stream of rows, however fetch(),    *)
(* failures and new bindings follow each other: every step is a step of the  *)
(* stream, or leaves it alone.                                               *)
THEOREM RefinesStream == Spec => ImplementsStream
<1>1. Init => Steady /\ Stream!Init
  BY SteadyInit, StreamInit
<1>2. IInv /\ Steady /\ [Next]_vars => Steady' /\ [Stream!Next]_(Stream!svars)
  BY SteadyStep, StreamStep
<1>3. QED BY <1>1, <1>2, Invariance, PTL DEF Spec, ImplementsStream, Stream!Spec

-----------------------------------------------------------------------------
(* A fetch() gets on *)

(* The parameter rows not yet executed, and what is left of the execution    *)
(* under way, its end included.                                              *)
Ahead == <<n_rows - i, IF complete THEN 0 ELSE Len(wire) + 1>>

Smaller == {ss \in Nat \X Nat : ss[1] < ss[2]}
Nearer == LexPairOrdering(Smaller, Smaller, Nat, Nat)

(* A turn of fetch() ends the call or brings its end nearer. *)
FetchGetsOn ==
    [][Fetching => max' = NULL \/ crashed' \/ <<Ahead', Ahead>> \in Nearer]_vars

(* There is no endless way nearer. *)
LEMMA NearerEnds == IsWellFoundedOn(Nearer, Nat \X Nat)
<1>1. IsWellFoundedOn(Smaller, Nat)
  BY NatLessThanWellFounded, Zenon DEF OpToRel, Smaller
<1>2. QED BY <1>1, WFLexPairOrdering, Zenon DEF Nearer

LEMMA NearerIs ==
  ASSUME NEW a \in Nat, NEW b \in Nat, NEW c \in Nat, NEW d \in Nat, a < c \/ (a = c /\ b < d)
  PROVE  <<<<a, b>>, <<c, d>>>> \in Nearer
<1>1. <<a, b>> \in Nat \X Nat /\ <<c, d>> \in Nat \X Nat
  OBVIOUS
<1>2. a < c => <<a, c>> \in Smaller
  BY DEF Smaller
<1>3. b < d => <<b, d>> \in Smaller
  BY DEF Smaller
<1> DEFINE x == <<a, b>>
           y == <<c, d>>
           p == <<x, y>>
<1>4. x[1] = a /\ x[2] = b /\ y[1] = c /\ y[2] = d
  OBVIOUS
<1> HIDE DEF x, y
<1>5. p[1] = x /\ p[2] = y
  OBVIOUS
<1>6. p \in (Nat \X Nat) \X (Nat \X Nat)
  BY <1>1 DEF x, y
<1>7. <<p[1][1], p[2][1]>> \in Smaller
        \/ (p[1][1] = p[2][1] /\ <<p[1][2], p[2][2]>> \in Smaller)
  BY <1>2, <1>3, <1>4, <1>5
<1> HIDE DEF p
<1>8. p \in Nearer
  BY <1>6, <1>7, Zenon DEF Nearer, LexPairOrdering
<1>9. QED BY <1>8 DEF p, x, y

(* Both are numbers. *)
LEMMA AheadTyped ==
  ASSUME IInv
  PROVE  n_rows - i \in Nat /\ Len(wire) \in Nat /\ complete \in BOOLEAN
BY DEF IInv, Types

(* Each turn of the loops of fetch() either ends the call or brings it nearer *)
(* to its end: a row less on the wire, or its end seen, or a parameter row    *)
(* less to execute.  The loop thus ends for every list and every answer.     *)
THEOREM FetchDescends == Spec => FetchGetsOn
<1>1. ASSUME IInv, IInv', Next, Fetching, max' # NULL, ~crashed'
      PROVE  <<Ahead', Ahead>> \in Nearer
  <2>0. /\ n_rows - i \in Nat /\ Len(wire) \in Nat
        /\ n_rows' - i' \in Nat /\ Len(wire') \in Nat
    <3>1. n_rows - i \in Nat /\ Len(wire) \in Nat
      BY <1>1, AheadTyped
    <3>2. n_rows' - i' \in Nat /\ Len(wire') \in Nat
      BY <1>1 DEF IInv, Types
    <3>3. QED BY <3>1, <3>2
  <2>1. FetchStep
    <3>1. ~Idle
      BY <1>1 DEF Fetching, Idle
    <3>2. QED BY <1>1, <3>1 DEF Next, Bind, BindUneven, BadBind, BadTypes, BindQuery,
                BindStatement, BindStatementFails, TakeParams, FetchStart
  <2>2. CASE ReadRow
    <3>1. n_rows' - i' = n_rows - i /\ complete' = complete /\ ~complete
      BY <2>2 DEF ReadRow, CanRead, bindVars
    <3>2. Len(wire') < Len(wire)
      BY <1>1, <2>2 DEF ReadRow, CanRead, IInv, Types
    <3>3. QED BY <2>0, <3>1, <3>2, NearerIs DEF Ahead
  <2>3. CASE EndOfRows
    <3>1. n_rows' - i' = n_rows - i /\ complete' /\ ~complete
      BY <2>3 DEF EndOfRows, bindVars
    <3>2. QED BY <2>0, <3>1, NearerIs DEF Ahead
  <2>4. CASE NextParams
    <3>1. n_rows' - i' < n_rows - i
      BY <1>1, <2>4 DEF NextParams, IInv, Types
    <3>2. QED BY <2>0, <3>1, NearerIs DEF Ahead
  <2>5. CASE ReadRowInterrupted \/ ReadFails \/ NextParamsFails \/ NextParamsUnsupported \/ Return
    BY <1>1, <2>5 DEF ReadRowInterrupted, ReadFails, NextParamsFails, NextParamsUnsupported,
       Return, GiveUp
  <2>6. CASE NextParamsOutside
    BY <1>1, <2>6 DEF NextParamsOutside
  <2>7. QED BY <2>1, <2>2, <2>3, <2>4, <2>5, <2>6 DEF FetchStep
<1>2. IInv /\ IInv' /\ [Next]_vars
        => [Fetching => max' = NULL \/ crashed' \/ <<Ahead', Ahead>> \in Nearer]_vars
  BY <1>1
<1>3. QED BY <1>2, Invariance, PTL DEF Spec, FetchGetsOn

-----------------------------------------------------------------------------
(* The cursor as DbConnection sees it *)

(* What Connection keeps of the statement; it only reads here.               *)
Sent(k) ==
    [effect |-> "read", rows |-> k # "statement", meta |-> k \in {"plain", "query"},
     params |-> k # "plain", isStatement |-> FALSE]

(* fetch() has seen the end of an execution and goes on to the next.         *)
Between == Fetching /\ complete /\ executed # <<>> /\ i < n_rows
Done == complete /\ ~Between
RowsAhead == IF bound /\ pSpec THEN n_rows - i ELSE 0
OnWire == IF cursor = "rows" \/ Between THEN "result" ELSE "NULL"
Record(m, s, o, p, b, c, l) ==
    [impl |-> m, stmt |-> s, open |-> o, spec |-> p, bound |-> b, complete |-> c, left |-> l]
Cursor == Record("prep", Sent(kind), TRUE, pSpec, bound, Done, RowsAhead)

(* One result, "result", on a connection to which nothing else happens.      *)
Conn == INSTANCE Connection WITH
    Results <- {"result"},
    Work <- {},
    Statements <- {Sent(k) : k \in Kinds},
    SessionLoss <- FALSE,
    NULL <- "NULL",
    pConn <- "open",
    pCurrentResult <- "result",
    transacting <- FALSE,
    conRef <- TRUE,
    results <- [r \in {"result"} |-> Cursor],
    pending <- "NULL",
    held <- {"result"},
    connHeld <- TRUE,
    alive <- TRUE,
    unread <- OnWire,
    work <- [w \in {} |-> "unused"],
    verdict <- [w \in {} |-> "none"],
    crashed <- "no"

(* Whatever a turn of bind() or fetch() does to a query or a statement is one *)
(* of the uses of a result in Connection, or changes nothing there.  This    *)
(* leaves out CALLs, whose rows Connection counts otherwise, and the steps    *)
(* that end with an unfit list bound, which Connection does not have.        *)
StepsOfConnection ==
    [][kind # "call" /\ ~crashed' /\ ~(bound' /\ Unfit')
         => [Conn!UseResult("result")]_(Conn!vars)]_vars

Kept == UNCHANGED <<kind, pSpec, bound>>

(* What Connection does not see. *)
LEMMA Unmoved ==
  ASSUME Kept, UNCHANGED <<Done, RowsAhead, OnWire>>
  PROVE  UNCHANGED Conn!vars
<1>1. Cursor' = Cursor
  BY DEF Kept, Cursor, Sent, Record
<1>2. UNCHANGED OnWire
  OBVIOUS
<1> HIDE DEF Cursor, OnWire
<1>3. QED BY <1>1, <1>2 DEF Conn!vars, Conn!connVars

(* The statement only reads: no unit of work changes. *)
LEMMA NoWork ==
  /\ [w \in {} |-> "unused"] \in Conn!Executed(Sent(kind), [w \in {} |-> "unused"])
  /\ Conn!Enlist
<1>1. Sent(kind).effect = "read"
  BY DEF Sent
<1>2. QED BY <1>1 DEF Conn!Executed, Conn!Enlist

(* How each of the calls changes the record. *)
LEMMA FetchMoves ==
  ASSUME Kept
  PROVE  [r \in {"result"} |-> Cursor]'
           = [[r \in {"result"} |-> Cursor] EXCEPT !["result"].complete = Done',
               !["result"].left = RowsAhead']
<1>1. PICK m, s, o, p0, b0, c0, l0, c, l :
        /\ Cursor = Record(m, s, o, p0, b0, c0, l0)
        /\ Cursor' = Record(m, s, o, p0, b0, c, l)
        /\ (c = Done') /\ (l = RowsAhead')
  BY Zenon DEF Kept, Cursor
<1> HIDE DEF Cursor
<1>2. [[Cursor EXCEPT !.complete = c] EXCEPT !.left = l] = Cursor'
  <2>1. [Record(m, s, o, p0, b0, c0, l0) EXCEPT !.complete = c]
         = Record(m, s, o, p0, b0, c, l0)
    BY DEF Record
  <2>2. [Record(m, s, o, p0, b0, c, l0) EXCEPT !.left = l]
         = Record(m, s, o, p0, b0, c, l)
    BY DEF Record
  <2>3. QED BY <1>1, <2>1, <2>2
<1>3. [[r \in {"result"} |-> Cursor] EXCEPT !["result"].complete = c, !["result"].left = l]
        = [r \in {"result"} |-> [[Cursor EXCEPT !.complete = c] EXCEPT !.left = l]]
  OBVIOUS
<1>4. [[r \in {"result"} |-> Cursor] EXCEPT !["result"].complete = c, !["result"].left = l]
        = [r \in {"result"} |-> Cursor]'
  BY <1>2, <1>3
<1>5. QED BY <1>1, <1>4, Zenon

LEMMA RowsBoundMoves ==
  ASSUME kind' = kind, pSpec' = pSpec
  PROVE  [r \in {"result"} |-> Cursor]'
           = [[r \in {"result"} |-> Cursor] EXCEPT !["result"].complete = Done',
               !["result"].left = RowsAhead',
             !["result"].bound = bound']
<1>1. PICK m, s, o, p0, b0, c0, l0, c, l, b :
        /\ Cursor = Record(m, s, o, p0, b0, c0, l0)
        /\ Cursor' = Record(m, s, o, p0, b, c, l)
        /\ (c = Done') /\ (l = RowsAhead') /\ (b = bound')
  BY Zenon DEF Kept, Cursor
<1> HIDE DEF Cursor
<1>2. [[[Cursor EXCEPT !.complete = c] EXCEPT !.left = l] EXCEPT !.bound = b] = Cursor'
  <2>1. [Record(m, s, o, p0, b0, c0, l0) EXCEPT !.complete = c]
         = Record(m, s, o, p0, b0, c, l0)
    BY DEF Record
  <2>2. [Record(m, s, o, p0, b0, c, l0) EXCEPT !.left = l]
         = Record(m, s, o, p0, b0, c, l)
    BY DEF Record
  <2>3. [Record(m, s, o, p0, b0, c, l) EXCEPT !.bound = b]
         = Record(m, s, o, p0, b, c, l)
    BY DEF Record
  <2>4. QED BY <1>1, <2>1, <2>2, <2>3
<1>3. [[r \in {"result"} |-> Cursor] EXCEPT !["result"].complete = c, !["result"].left = l,
             !["result"].bound = b]
        = [r \in {"result"} |-> [[[Cursor EXCEPT !.complete = c] EXCEPT !.left = l]
               EXCEPT !.bound = b]]
  OBVIOUS
<1>4. [[r \in {"result"} |-> Cursor] EXCEPT !["result"].complete = c, !["result"].left = l,
             !["result"].bound = b]
        = [r \in {"result"} |-> Cursor]'
  BY <1>2, <1>3
<1>5. QED BY <1>1, <1>4, Zenon

LEMMA FailureMoves ==
  ASSUME kind' = kind, bound' = bound
  PROVE  [r \in {"result"} |-> Cursor]'
           = [[r \in {"result"} |-> Cursor] EXCEPT !["result"].complete = Done',
               !["result"].spec = pSpec',
             !["result"].left = RowsAhead']
<1>1. PICK m, s, o, p0, b0, c0, l0, c, p, l :
        /\ Cursor = Record(m, s, o, p0, b0, c0, l0)
        /\ Cursor' = Record(m, s, o, p, b0, c, l)
        /\ (c = Done') /\ (p = pSpec') /\ (l = RowsAhead')
  BY Zenon DEF Kept, Cursor
<1> HIDE DEF Cursor
<1>2. [[[Cursor EXCEPT !.complete = c] EXCEPT !.spec = p] EXCEPT !.left = l] = Cursor'
  <2>1. [Record(m, s, o, p0, b0, c0, l0) EXCEPT !.complete = c]
         = Record(m, s, o, p0, b0, c, l0)
    BY DEF Record
  <2>2. [Record(m, s, o, p0, b0, c, l0) EXCEPT !.spec = p]
         = Record(m, s, o, p, b0, c, l0)
    BY DEF Record
  <2>3. [Record(m, s, o, p, b0, c, l0) EXCEPT !.left = l]
         = Record(m, s, o, p, b0, c, l)
    BY DEF Record
  <2>4. QED BY <1>1, <2>1, <2>2, <2>3
<1>3. [[r \in {"result"} |-> Cursor] EXCEPT !["result"].complete = c, !["result"].spec = p,
             !["result"].left = l]
        = [r \in {"result"} |-> [[[Cursor EXCEPT !.complete = c] EXCEPT !.spec = p]
               EXCEPT !.left = l]]
  OBVIOUS
<1>4. [[r \in {"result"} |-> Cursor] EXCEPT !["result"].complete = c, !["result"].spec = p,
             !["result"].left = l]
        = [r \in {"result"} |-> Cursor]'
  BY <1>2, <1>3
<1>5. QED BY <1>1, <1>4, Zenon

LEMMA ExecutedMoves ==
  ASSUME kind' = kind
  PROVE  [r \in {"result"} |-> Cursor]'
           = [[r \in {"result"} |-> Cursor] EXCEPT !["result"].bound = bound',
               !["result"].left = RowsAhead',
             !["result"].complete = Done', !["result"].spec = pSpec']
<1>1. PICK m, s, o, p0, b0, c0, l0, b, l, c, p :
        /\ Cursor = Record(m, s, o, p0, b0, c0, l0)
        /\ Cursor' = Record(m, s, o, p, b, c, l)
        /\ (b = bound') /\ (l = RowsAhead') /\ (c = Done') /\ (p = pSpec')
  BY Zenon DEF Kept, Cursor
<1> HIDE DEF Cursor
<1>2. [[[[Cursor EXCEPT !.bound = b] EXCEPT !.left = l] EXCEPT !.complete = c]
               EXCEPT !.spec = p] = Cursor'
  <2>1. [Record(m, s, o, p0, b0, c0, l0) EXCEPT !.bound = b]
         = Record(m, s, o, p0, b, c0, l0)
    BY DEF Record
  <2>2. [Record(m, s, o, p0, b, c0, l0) EXCEPT !.left = l]
         = Record(m, s, o, p0, b, c0, l)
    BY DEF Record
  <2>3. [Record(m, s, o, p0, b, c0, l) EXCEPT !.complete = c]
         = Record(m, s, o, p0, b, c, l)
    BY DEF Record
  <2>4. [Record(m, s, o, p0, b, c, l) EXCEPT !.spec = p]
         = Record(m, s, o, p, b, c, l)
    BY DEF Record
  <2>5. [[Cursor EXCEPT !.bound = b] EXCEPT !.left = l] = Record(m, s, o, p0, b, c0, l)
    BY <1>1, <2>1, <2>2
  <2>6. [[[Cursor EXCEPT !.bound = b] EXCEPT !.left = l] EXCEPT !.complete = c]
         = Record(m, s, o, p0, b, c, l)
    BY <2>3, <2>5
  <2>7. QED BY <1>1, <2>4, <2>6
<1>3. [[r \in {"result"} |-> Cursor] EXCEPT !["result"].bound = b, !["result"].left = l,
             !["result"].complete = c, !["result"].spec = p]
        = [r \in {"result"} |-> [[[[Cursor EXCEPT !.bound = b] EXCEPT !.left = l]
               EXCEPT !.complete = c] EXCEPT !.spec = p]]
  OBVIOUS
<1>4. [[r \in {"result"} |-> Cursor] EXCEPT !["result"].bound = b, !["result"].left = l,
             !["result"].complete = c, !["result"].spec = p]
        = [r \in {"result"} |-> Cursor]'
  BY <1>2, <1>3
<1>5. QED BY <1>1, <1>4, Zenon

(* The result is current, and its connection is in order. *)
LEMMA CanFetch ==
  ASSUME bound, pSpec
  PROVE  Conn!Fetchable("result") /\ Conn!InSync("NULL") /\ Conn!InSync(Conn!Flushed("result"))
<1>1. OnWire \in {"result", "NULL"}
  BY DEF OnWire
<1>2. Conn!Flushed("result") = "NULL"
  BY <1>1 DEF Conn!Flushed
<1>3. Conn!InSync("NULL")
  BY DEF Conn!InSync
<1>4. Conn!Fetchable("result")
  BY DEF Conn!Fetchable, Conn!Ready, Cursor, Record
<1>5. QED BY <1>2, <1>3, <1>4

(* Each use of the result, from what it does to the cursor. *)
LEMMA IsFetchSome ==
  ASSUME bound, pSpec, Kept, Done \/ OnWire = "result",
         RowsAhead \in Nat, RowsAhead' \in Nat, RowsAhead' < RowsAhead,
         ~Done', OnWire' = "result"
  PROVE  Conn!FetchSome("result")
<1>1. Conn!CanStep("result")
  BY DEF Conn!CanStep, Cursor, Record
<1>2. [r \in {"result"} |-> Cursor]["result"].left = RowsAhead
      /\ [r \in {"result"} |-> Cursor]["result"].stmt = Sent(kind)
  BY DEF Cursor, Record
<1>4. RowsAhead' \in 0..(RowsAhead - 1) /\ RowsAhead > 0
  OBVIOUS
<1>5. [r \in {"result"} |-> Cursor]'
         = [[r \in {"result"} |-> Cursor] EXCEPT !["result"].complete = FALSE,
               !["result"].left = RowsAhead']
  <2>1. kind' = kind /\ pSpec' = pSpec /\ bound' = bound /\ Done' = FALSE
    BY DEF Kept, Done
  <2>2. QED BY <2>1, FetchMoves, Zenon
<1>6. Conn!Fetchable("result") /\ Conn!InSync(Conn!Flushed("result"))
  BY CanFetch
<1> HIDE DEF Cursor, RowsAhead, Done, OnWire
<1>7. QED BY <1>1, <1>2, <1>4, <1>5, <1>6, NoWork DEF Conn!FetchSome, Conn!connVars

LEMMA IsFetchAll ==
  ASSUME bound, pSpec, Kept, kind \in {"plain", "query"}, ~Done, OnWire = "result",
         RowsAhead = 0, Done', RowsAhead' = 0, OnWire' = "NULL"
  PROVE  Conn!FetchAll("result")
<1>1. Conn!CanStep("result")
  BY DEF Conn!CanStep, Cursor, Record
<1>2. /\ [r \in {"result"} |-> Cursor]["result"].left = RowsAhead
      /\ [r \in {"result"} |-> Cursor]["result"].stmt = Sent(kind)
      /\ [r \in {"result"} |-> Cursor]["result"].complete = Done
  BY DEF Cursor, Record
<1>3. Sent(kind).meta
  BY DEF Sent
<1>4. [r \in {"result"} |-> Cursor]'
         = [[r \in {"result"} |-> Cursor] EXCEPT !["result"].complete = TRUE,
               !["result"].left = 0]
  <2>1. Done' = TRUE
    BY DEF Done
  <2>2. QED BY <2>1, FetchMoves
<1>5. Conn!Fetchable("result") /\ Conn!InSync(Conn!Flushed("result"))
  BY CanFetch
<1> HIDE DEF Cursor, RowsAhead, Done, OnWire
<1>6. QED BY <1>1, <1>2, <1>3, <1>4, <1>5, NoWork DEF Conn!FetchAll, Conn!connVars

LEMMA IsFetchFails ==
  ASSUME bound, pSpec, Kept, ~Done \/ RowsAhead > 0, RowsAhead \in Nat,
         RowsAhead' \in 0..RowsAhead, Done => RowsAhead' < RowsAhead,
         ~Done', OnWire' = "NULL"
  PROVE  Conn!FetchFails("result", FALSE)
<1>1. Conn!Flushed("result") = "NULL"
  BY DEF Conn!Flushed, OnWire
<1>2. /\ [r \in {"result"} |-> Cursor]["result"].left = RowsAhead
      /\ [r \in {"result"} |-> Cursor]["result"].stmt = Sent(kind)
      /\ [r \in {"result"} |-> Cursor]["result"].complete = Done
  BY DEF Cursor, Record
<1>3. [r \in {"result"} |-> Cursor]'
         = [[r \in {"result"} |-> Cursor] EXCEPT !["result"].complete = FALSE,
               !["result"].left = RowsAhead']
  <2>1. Done' = FALSE
    BY DEF Done
  <2>2. QED BY <2>1, FetchMoves
<1>4. Conn!Fetchable("result")
  BY CanFetch
<1> HIDE DEF Cursor, RowsAhead, Done, OnWire
<1>5. QED BY <1>1, <1>2, <1>3, <1>4, NoWork DEF Conn!FetchFails, Conn!connVars

LEMMA CanBind ==
  ASSUME kind # "plain"
  PROVE  /\ Conn!Bindable("result")
         /\ [r \in {"result"} |-> Cursor]["result"].open
         /\ [r \in {"result"} |-> Cursor]["result"].spec = pSpec
         /\ [r \in {"result"} |-> Cursor]["result"].stmt = Sent(kind)
         /\ [r \in {"result"} |-> Cursor]["result"].complete = Done
BY DEF Conn!Bindable, Conn!Ready, Cursor, Record, Sent

LEMMA IsBindRows ==
  ASSUME kind # "plain", pSpec, kind' = kind, pSpec' = pSpec, bound', Done',
         RowsAhead' \in 0..MaxBind, OnWire' = OnWire
  PROVE  Conn!BindRows("result", RowsAhead')
<1>1. [r \in {"result"} |-> Cursor]'
        = [[r \in {"result"} |-> Cursor] EXCEPT !["result"].complete = TRUE,
             !["result"].left = RowsAhead', !["result"].bound = TRUE]
  <2>1. (Done' = TRUE) /\ (bound' = TRUE)
    BY DEF Done
  <2>2. QED BY <2>1, RowsBoundMoves
<1>2. Conn!Bindable("result") /\ [r \in {"result"} |-> Cursor]["result"].open
      /\ [r \in {"result"} |-> Cursor]["result"].spec
  BY CanBind
<1> HIDE DEF Cursor, RowsAhead, Done, OnWire
<1>3. QED BY <1>1, <1>2 DEF Conn!BindRows, Conn!connVars

LEMMA IsBindExecute ==
  ASSUME NEW k \in Nat, kind = "statement", ~pSpec, kind' = kind, ~pSpec', bound',
         ~Done, ~Done', RowsAhead' = 0, OnWire = "NULL", OnWire' = "NULL"
  PROVE  Conn!BindExecute("result", k)
<1>1. [r \in {"result"} |-> Cursor]'
        = [[r \in {"result"} |-> Cursor] EXCEPT !["result"].bound = TRUE, !["result"].left = 0,
             !["result"].complete = FALSE, !["result"].spec = FALSE]
  <2>1. Done' = FALSE /\ bound' = TRUE /\ pSpec' = FALSE
    BY DEF Done
  <2>2. QED BY <2>1, ExecutedMoves
<1>2. /\ Conn!Bindable("result") /\ [r \in {"result"} |-> Cursor]["result"].open
      /\ ~[r \in {"result"} |-> Cursor]["result"].spec
      /\ [r \in {"result"} |-> Cursor]["result"].stmt = Sent(kind)
      /\ [r \in {"result"} |-> Cursor]["result"].complete = FALSE
  BY CanBind DEF Done
<1>3. ~Conn!SpecAfterExecute(Sent(kind)) /\ ~Sent(kind).rows
  BY DEF Conn!SpecAfterExecute, Sent
<1>4. Conn!InSync(Conn!Flushed("result"))
  BY DEF Conn!InSync, Conn!Flushed
<1> HIDE DEF Cursor, RowsAhead, Done, OnWire
<1>5. QED BY <1>1, <1>2, <1>3, <1>4, NoWork DEF Conn!BindExecute, Conn!connVars

LEMMA IsBindFails ==
  ASSUME NEW k \in Nat, k > 0, kind = "statement", ~pSpec, kind' = kind, ~pSpec', bound' = bound,
         ~Done', RowsAhead' = 0, OnWire' = "NULL"
  PROVE  Conn!BindFails("result", k, FALSE)
<1>1. [r \in {"result"} |-> Cursor]'
        = [[r \in {"result"} |-> Cursor] EXCEPT !["result"].complete = FALSE,
             !["result"].spec =
               FALSE /\ Conn!SpecAfterExecute([r \in {"result"} |-> Cursor]["result"].stmt),
             !["result"].left = 0]
  <2> DEFINE sp == FALSE /\ Conn!SpecAfterExecute([r \in {"result"} |-> Cursor]["result"].stmt)
  <2>1. Done' = FALSE /\ pSpec' = FALSE /\ sp = FALSE
    BY DEF Done
  <2>2. pSpec' = sp
    BY <2>1
  <2> HIDE DEF sp
  <2>3. [r \in {"result"} |-> Cursor]'
          = [[r \in {"result"} |-> Cursor] EXCEPT !["result"].complete = FALSE,
               !["result"].spec = sp, !["result"].left = 0]
    BY <2>1, <2>2, FailureMoves
  <2>4. QED BY <2>3 DEF sp
<1>2. /\ Conn!Bindable("result") /\ [r \in {"result"} |-> Cursor]["result"].open
      /\ ~[r \in {"result"} |-> Cursor]["result"].spec
  BY CanBind
<1>3. Conn!Flushed("result") = "NULL"
  BY DEF Conn!Flushed, OnWire
<1>4. 0 \in 0..(k - 1) /\ (FALSE => Conn!InSync(Conn!Flushed("result")))
  OBVIOUS
<1> DEFINE f == [r \in {"result"} |-> Cursor]
           sp == FALSE /\ Conn!SpecAfterExecute(f["result"].stmt)
<1>5. (0 > 0 => sp) /\ f' = [f EXCEPT !["result"].complete = FALSE, !["result"].spec = sp,
                                    !["result"].left = 0]
  BY <1>1
<1>6. \E l \in 0..(k - 1) :
        (l > 0 => sp) /\ f' = [f EXCEPT !["result"].complete = FALSE, !["result"].spec = sp,
                                       !["result"].left = l]
  BY <1>4, <1>5, Zenon
<1> HIDE DEF f, sp, OnWire
<1>7. QED BY <1>2, <1>3, <1>4, <1>6, NoWork DEF Conn!BindFails, Conn!connVars, f, sp

-----------------------------------------------------------------------------
(* A statement without rows never has a result set.                          *)
WithoutRows ==
    kind = "statement" => ~pSpec /\ cursor = "none" /\ ~complete /\ max = NULL

(* It is inductive. *)
LEMMA WithoutRowsStep == WithoutRows /\ [Next]_vars => WithoutRows'
<1> SUFFICES ASSUME WithoutRows, [Next]_vars, kind' = "statement" PROVE WithoutRows'
  BY DEF WithoutRows
<1> USE DEF WithoutRows
<1>1. CASE UNCHANGED vars
  BY <1>1 DEF vars, bindVars, fetchVars
<1>2. CASE Bind
  <2>1. PICK ps \in ParamLists :
          \/ \E cols \in 0..(nParams + 1) : BadBind(cols, ps)
          \/ \E j \in 1..nParams : BadTypes(j, ps)
          \/ BindQuery(ps) \/ BindStatement(ps)
          \/ \E j \in 1..Len(ps) : BindStatementFails(ps, j)
          \/ UNCHANGED vars
    BY <1>2 DEF Bind, BindUneven
  <2>2. ASSUME NEW j, BindStatement(ps) \/ BindStatementFails(ps, j)
        PROVE  WithoutRows'
    BY <2>2 DEF BindStatement, BindStatementFails, TakeParams, Idle, fetchVars
  <2>3. ASSUME BindQuery(ps) PROVE WithoutRows'
    BY <2>3 DEF BindQuery
  <2>4. ASSUME NEW cols, BadBind(cols, ps) PROVE WithoutRows'
    BY <2>4 DEF BadBind, fetchVars
  <2>5. ASSUME NEW j, BadTypes(j, ps) PROVE WithoutRows'
    BY <2>5 DEF BadTypes, fetchVars
  <2>6. QED BY <1>1, <2>1, <2>2, <2>3, <2>4, <2>5
<1>3. ASSUME NEW n \in FetchSizes, FetchStart(n) PROVE WithoutRows'
  BY <1>3 DEF FetchStart
<1>4. CASE FetchStep
  BY <1>4 DEF FetchStep, ReadRow, ReadRowInterrupted, EndOfRows, ReadFails, NextParams,
     NextParamsFails, NextParamsUnsupported, NextParamsOutside, Return, CanRead, MoreParams, Fetching
<1>5. QED BY <1>1, <1>2, <1>3, <1>4 DEF Next

(* A query's rows come from a parameter row that has been taken. *)
Underway == kind = "query" /\ ~complete /\ cursor = "rows" /\ ~Unfit => i > 0

(* It is inductive: only taking a parameter row starts an execution. *)
LEMMA UnderwayStep == Types /\ Underway /\ Steady /\ [Next]_vars => Underway'
<1> SUFFICES ASSUME Types, Underway, Steady, [Next]_vars,
                    kind' = "query", ~complete', cursor' = "rows", ~Unfit'
             PROVE  i' > 0
  BY DEF Underway
<1> USE DEF Underway, Unfit, nParams
<1>1. CASE UNCHANGED vars
  BY <1>1 DEF vars, bindVars, fetchVars
<1>2. CASE Bind
  <2>1. PICK ps \in ParamLists :
          \/ \E cols \in 0..(nParams + 1) : BadBind(cols, ps)
          \/ \E j \in 1..nParams : BadTypes(j, ps)
          \/ BindQuery(ps) \/ BindStatement(ps)
          \/ \E j \in 1..Len(ps) : BindStatementFails(ps, j)
          \/ UNCHANGED vars
    BY <1>2 DEF Bind, BindUneven
  <2>2. ASSUME NEW j, BindStatement(ps) \/ BindStatementFails(ps, j) PROVE FALSE
    BY <2>2 DEF BindStatement, BindStatementFails, TakeParams, Steady
  <2>3. ASSUME BindQuery(ps) PROVE FALSE
    BY <2>3 DEF BindQuery
  <2>4. ASSUME NEW cols, BadBind(cols, ps) PROVE FALSE
    BY <2>4 DEF BadBind
  <2>5. ASSUME NEW j, BadTypes(j, ps) PROVE FALSE
    BY <2>5 DEF BadTypes
  <2>6. QED BY <1>1, <2>1, <2>2, <2>3, <2>4, <2>5
<1>3. ASSUME NEW n \in FetchSizes, FetchStart(n) PROVE i' > 0
  BY <1>3 DEF FetchStart, bindVars
<1>4. CASE FetchStep
  <2>1. CASE NextParams \/ NextParamsFails
    BY <2>1 DEF NextParams, NextParamsFails, Types
  <2>2. CASE ReadRow \/ ReadRowInterrupted \/ EndOfRows \/ ReadFails \/ NextParamsUnsupported
             \/ NextParamsOutside \/ Return
    BY <2>2 DEF ReadRow, ReadRowInterrupted, EndOfRows, ReadFails, NextParamsUnsupported,
       NextParamsOutside, Return, bindVars
  <2>3. QED BY <1>4, <2>1, <2>2 DEF FetchStep
<1>5. QED BY <1>1, <1>2, <1>3, <1>4 DEF Next

(* Binding. *)
LEMMA BindOfConnection ==
  ASSUME IInv, IInv', WithoutRows, WithoutRows', Steady, kind # "call", Bind,
         ~UNCHANGED vars, ~crashed', ~(bound' /\ Unfit')
  PROVE  Conn!UseResult("result") \/ UNCHANGED Conn!vars
<1> USE DEF WithoutRows
<1>0. /\ kind \in {"plain", "query", "statement"}
      /\ RowsAhead' \in Nat /\ RowsAhead' <= MaxBind
      /\ Types /\ Types' /\ max = NULL /\ ~Between
  <2>1. kind \in {"plain", "query", "statement"} /\ Types /\ Types'
    BY KindAssumption DEF IInv, Types
  <2>2. RowsAhead' \in Nat /\ RowsAhead' <= MaxBind
    <3>1. i' \in Nat /\ n_rows' \in Nat /\ i' <= n_rows' /\ n_rows' <= MaxBind
      BY <2>1 DEF Types
    <3>2. RowsAhead' = n_rows' - i' \/ RowsAhead' = 0
      BY DEF RowsAhead
    <3>3. QED BY <3>1, <3>2, SizeAssumption
  <2>3. max = NULL
    BY DEF Bind, BindUneven, BadBind, BadTypes, BindQuery, BindStatement, BindStatementFails,
       TakeParams, Idle
  <2>4. QED BY <2>1, <2>2, <2>3 DEF Between, Fetching
<1>1. PICK ps \in ParamLists :
        \/ \E cols \in 0..(nParams + 1) : BadBind(cols, ps)
        \/ \E j \in 1..nParams : BadTypes(j, ps)
        \/ BindQuery(ps) \/ BindStatement(ps)
        \/ \E j \in 1..Len(ps) : BindStatementFails(ps, j)
  BY DEF Bind, BindUneven
<1>2. Len(ps) \in Nat /\ Len(ps) <= MaxBind /\ (Len(ps) = 0 <=> ps = <<>>)
  BY ListsAreSequences
<1>3. ASSUME NEW cols, BadBind(cols, ps)
      PROVE  UNCHANGED Conn!vars
  <2>1. Kept /\ UNCHANGED <<complete, i, n_rows, max, cursor, executed, crashed>>
    BY <1>3 DEF BadBind, Kept, fetchVars
  <2>2. UNCHANGED <<Done, RowsAhead, OnWire>>
    BY <2>1 DEF Kept, Done, RowsAhead, OnWire, Between, Fetching
  <2>3. QED BY <2>1, <2>2, Unmoved
<1>4. ASSUME NEW j, BadTypes(j, ps)
      PROVE  UNCHANGED Conn!vars
  <2>1. Kept /\ UNCHANGED <<complete, max, cursor, crashed>> /\ Unfit'
    BY <1>4 DEF BadTypes, Kept, fetchVars, Unfit
  <2>2. ~bound /\ ~bound'
    BY <2>1 DEF Kept
  <2>3. ~Between'
    BY <1>0, <2>1 DEF Between, Fetching
  <2>4. UNCHANGED <<Done, RowsAhead, OnWire>>
    BY <1>0, <2>1, <2>2, <2>3 DEF Kept, Done, RowsAhead, OnWire
  <2>5. QED BY <2>1, <2>4, Unmoved
<1>5. ASSUME BindQuery(ps)
      PROVE  Conn!UseResult("result")
  <2>1. /\ pSpec /\ kind # "plain" /\ bound' /\ complete'
        /\ UNCHANGED <<kind, pSpec, max, cursor>>
    BY <1>5 DEF BindQuery, TakeParams, nParams, fetchVars
  <2>2. ~Between'
    BY <1>0, <2>1 DEF Between, Fetching
  <2>3. Done' /\ OnWire' = OnWire
    BY <1>0, <2>1, <2>2 DEF Done, OnWire
  <2>4. RowsAhead' \in 0..MaxBind
    BY <1>0, SizeAssumption
  <2>5. Conn!BindRows("result", RowsAhead')
    BY <2>1, <2>3, <2>4, IsBindRows
  <2>6. QED BY <2>4, <2>5 DEF Conn!UseResult
<1>6. ASSUME BindStatement(ps) \/ \E j \in 1..Len(ps) : BindStatementFails(ps, j)
      PROVE  /\ kind = "statement" /\ kind' = kind /\ ~pSpec /\ ~pSpec' /\ ~Done /\ ~Done'
             /\ RowsAhead' = 0 /\ OnWire = "NULL" /\ OnWire' = "NULL"
  <2>1. ~pSpec /\ kind' = kind /\ kind # "plain"
    BY <1>6 DEF BindStatement, BindStatementFails, TakeParams, nParams
  <2>2. kind = "statement"
    BY <1>0, <2>1 DEF Steady
  <2>3. QED BY <1>0, <2>1, <2>2 DEF Done, RowsAhead, OnWire, Between, Fetching
<1>7. ASSUME BindStatement(ps)
      PROVE  Conn!UseResult("result")
  <2>1. bound'
    BY <1>7 DEF BindStatement
  <2>2. Conn!BindExecute("result", Len(ps))
    BY <1>2, <1>6, <1>7, <2>1, IsBindExecute
  <2>3. Len(ps) \in 0..MaxBind
    BY <1>2, SizeAssumption
  <2>4. QED BY <2>2, <2>3 DEF Conn!UseResult
<1>8. ASSUME NEW j \in 1..Len(ps), BindStatementFails(ps, j)
      PROVE  Conn!UseResult("result")
  <2>1. bound' = bound /\ Len(ps) > 0
    BY <1>2, <1>8 DEF BindStatementFails
  <2>2. Conn!BindFails("result", Len(ps), FALSE)
    BY <1>2, <1>6, <1>8, <2>1, IsBindFails
  <2>3. Len(ps) \in 0..MaxBind
    BY <1>2, SizeAssumption
  <2>4. QED BY <2>2, <2>3 DEF Conn!UseResult
<1>9. QED BY <1>1, <1>3, <1>4, <1>5, <1>7, <1>8

(* Fetching. *)
LEMMA FetchOfConnection ==
  ASSUME IInv, IInv', WithoutRows, Underway, Steady, kind # "call",
         FetchStep \/ \E n \in FetchSizes : FetchStart(n), ~crashed', ~(bound' /\ Unfit')
  PROVE  Conn!UseResult("result") \/ UNCHANGED Conn!vars
<1>0. /\ RowsAhead \in Nat /\ RowsAhead' \in Nat
      /\ Types /\ Types'
      /\ i \in Nat /\ n_rows \in Nat /\ i <= n_rows
      /\ i' \in Nat /\ n_rows' \in Nat /\ i' <= n_rows'
  <2>1. Types /\ Types'
    BY DEF IInv
  <2>2. i \in Nat /\ n_rows \in Nat /\ i <= n_rows
    BY <2>1 DEF Types
  <2>3. i' \in Nat /\ n_rows' \in Nat /\ i' <= n_rows'
    BY <2>1 DEF Types
  <2>4. (RowsAhead = n_rows - i \/ RowsAhead = 0) /\ (RowsAhead' = n_rows' - i' \/ RowsAhead' = 0)
    BY DEF RowsAhead
  <2>5. QED BY <2>1, <2>2, <2>3, <2>4
<1>1. ASSUME NEW n \in FetchSizes, FetchStart(n)
      PROVE  UNCHANGED Conn!vars
  <2>1. /\ bound /\ pSpec /\ Kept /\ max = NULL
        /\ UNCHANGED <<complete, params, i, n_rows, cursor, executed, crashed>>
    BY <1>1 DEF FetchStart, Idle, bindVars, Kept
  <2>2. ~Unfit
    BY <2>1 DEF Unfit, nParams, Kept
  <2>3. ~(complete /\ executed # <<>> /\ i < n_rows)
    BY <1>0, <2>1, <2>2 DEF IInv, HasCompletedHonest, HasCompleted, Types
  <2>4. ~Between /\ ~Between'
    BY <2>1, <2>3 DEF Between
  <2>5. UNCHANGED <<Done, RowsAhead, OnWire>>
    BY <2>1, <2>4 DEF Done, RowsAhead, OnWire, Kept
  <2>6. QED BY <2>1, <2>5, Unmoved
<1>2. ASSUME FetchStep
      PROVE  /\ bound /\ pSpec /\ kind \in {"plain", "query"} /\ Kept /\ Fetching
             /\ n_rows - i \in Nat /\ RowsAhead = n_rows - i /\ RowsAhead' = n_rows' - i'
  <2>1. Fetching
    BY <1>2 DEF FetchStep, ReadRow, ReadRowInterrupted, EndOfRows, ReadFails, NextParams,
       NextParamsFails, NextParamsUnsupported, NextParamsOutside, Return, CanRead, MoreParams
  <2>2. kind \in {"plain", "query"}
    BY <1>0, <2>1, KindAssumption DEF Types, WithoutRows, Fetching
  <2>3. bound /\ pSpec
    BY <2>1, <2>2 DEF Steady, IInv, Framed, Fetching
  <2>4. Kept
    BY <1>2 DEF FetchStep, ReadRow, ReadRowInterrupted, EndOfRows, ReadFails, NextParams,
       NextParamsFails, NextParamsUnsupported, NextParamsOutside, Return, Kept
  <2>5. QED BY <1>0, <2>1, <2>2, <2>3, <2>4 DEF RowsAhead, Types, Kept
<1>3. ASSUME FetchStep, ReadRow \/ ReadRowInterrupted
      PROVE  UNCHANGED Conn!vars
  <2>1. ~complete /\ ~complete' /\ UNCHANGED <<i, n_rows, cursor>>
    BY <1>3 DEF ReadRow, ReadRowInterrupted, CanRead, bindVars
  <2>2. UNCHANGED <<Done, RowsAhead, OnWire>>
    BY <1>2, <1>3, <2>1 DEF Done, RowsAhead, OnWire, Between, Kept
  <2>3. QED BY <1>2, <1>3, <2>2, Unmoved
<1>4. ASSUME FetchStep, EndOfRows
      PROVE  Conn!UseResult("result") \/ UNCHANGED Conn!vars
  <2>1. /\ ~complete /\ complete' /\ cursor = "rows" /\ cursor' = "none"
        /\ UNCHANGED <<i, n_rows, max, crashed, executed, params>>
    BY <1>4 DEF EndOfRows, bindVars, fetchVars
  <2>2. Fetching' /\ ~Between /\ ~Done /\ OnWire = "result"
    BY <1>2, <1>4, <2>1 DEF Fetching, Between, Done, OnWire
  <2>3. CASE i < n_rows
    <3>1. executed # <<>>
      <4>1. kind = "query" /\ nParams > 0
        BY <1>2, <1>4, <2>3, KindAssumption DEF IInv, Unparameterised, nParams
      <4>2. ~Unfit /\ bound
        BY <1>2, <1>4, <2>1 DEF Unfit, nParams, Kept
      <4>3. Len(executed) = i
        BY <2>1, <4>1, <4>2 DEF IInv, InOrder, Broken
      <4>4. i > 0
        BY <2>1, <4>1, <4>2 DEF Underway
      <4>5. QED BY <4>3, <4>4
    <3>2. Between'
      BY <2>1, <2>2, <2>3, <3>1 DEF Between
    <3>3. UNCHANGED <<Done, RowsAhead, OnWire>>
      BY <1>2, <1>4, <2>1, <2>2, <3>2 DEF Done, RowsAhead, OnWire, Kept
    <3>4. QED BY <1>2, <1>4, <3>3, Unmoved
  <2>4. CASE ~(i < n_rows)
    <3>1. ~Between' /\ Done' /\ OnWire' = "NULL"
      BY <2>1, <2>4 DEF Between, Done, OnWire
    <3>2. RowsAhead = 0 /\ RowsAhead' = 0
      <4>1. RowsAhead = n_rows - i /\ RowsAhead' = n_rows' - i'
        BY <1>2, <1>4
      <4>2. QED BY <1>0, <2>1, <2>4, <4>1
    <3>3. Conn!FetchAll("result")
      BY <1>2, <1>4, <2>2, <3>1, <3>2, IsFetchAll
    <3>4. QED BY <3>3 DEF Conn!UseResult
  <2>5. QED BY <2>3, <2>4
<1>5. ASSUME FetchStep, ReadFails
      PROVE  Conn!UseResult("result")
  <2>1. /\ ~complete /\ ~complete' /\ cursor' = "none"
        /\ UNCHANGED <<i, n_rows>>
    BY <1>5 DEF ReadFails, bindVars
  <2>2. ~Done /\ ~Done' /\ OnWire' = "NULL"
    BY <2>1 DEF Done, OnWire, Between
  <2>3. RowsAhead' \in 0..RowsAhead
    BY <1>0, <1>2, <1>5, <2>1
  <2>4. Conn!FetchFails("result", FALSE)
    BY <1>0, <1>2, <1>5, <2>2, <2>3, IsFetchFails
  <2>5. QED BY <2>4 DEF Conn!UseResult
<1>6. ASSUME FetchStep, NextParams
      PROVE  Conn!UseResult("result")
  <2>1. /\ complete /\ i < n_rows /\ ~complete' /\ cursor' = "rows"
        /\ i' = i + 1 /\ n_rows' = n_rows
    BY <1>6 DEF NextParams, MoreParams
  <2>2. (Done \/ OnWire = "result") /\ ~Done' /\ OnWire' = "result"
    BY <2>1 DEF Done, OnWire
  <2>3. RowsAhead' < RowsAhead
    <3>1. RowsAhead = n_rows - i /\ RowsAhead' = n_rows' - i'
      BY <1>2, <1>6
    <3>2. QED BY <1>0, <2>1, <3>1
  <2>4. Conn!FetchSome("result")
    BY <1>0, <1>2, <1>6, <2>2, <2>3, IsFetchSome
  <2>5. QED BY <2>4 DEF Conn!UseResult
<1>7. ASSUME FetchStep, NextParamsFails
      PROVE  Conn!UseResult("result")
  <2>1. /\ complete /\ i < n_rows /\ ~complete' /\ cursor' = "none"
        /\ i' = i + 1 /\ n_rows' = n_rows
    BY <1>7 DEF NextParamsFails, MoreParams
  <2>2. ~Done' /\ OnWire' = "NULL"
    BY <2>1 DEF Done, OnWire, Between
  <2>3. RowsAhead' < RowsAhead /\ RowsAhead > 0 /\ RowsAhead' \in 0..RowsAhead
    <3>1. RowsAhead = n_rows - i /\ RowsAhead' = n_rows' - i'
      BY <1>2, <1>7
    <3>2. QED BY <1>0, <2>1, <3>1
  <2>4. Conn!FetchFails("result", FALSE)
    BY <1>0, <1>2, <1>7, <2>2, <2>3, IsFetchFails
  <2>5. QED BY <2>4 DEF Conn!UseResult
<1>8. ASSUME FetchStep, NextParamsUnsupported \/ NextParamsOutside
      PROVE  FALSE
  <2>1. ~params'.supported /\ bound'
    BY <1>2, <1>8 DEF NextParamsUnsupported, NextParamsOutside, bindVars, Kept
  <2>2. QED BY <2>1 DEF Unfit
<1>9. ASSUME FetchStep, Return
      PROVE  UNCHANGED Conn!vars
  <2>1. UNCHANGED <<complete, i, n_rows, cursor, executed>> /\ max' = NULL
    BY <1>9 DEF Return, GiveUp, bindVars
  <2>2. ~Between'
    BY <2>1 DEF Between, Fetching
  <2>3. ~Between
    <3>1. Full => ~complete
      BY <1>2, <1>9 DEF IInv, Framed, Fetching
    <3>2. QED BY <1>0, <1>9, <3>1 DEF Return, Between, Types
  <2>4. UNCHANGED <<Done, RowsAhead, OnWire>>
    BY <1>2, <1>9, <2>1, <2>2, <2>3 DEF Done, RowsAhead, OnWire, Kept
  <2>5. QED BY <1>2, <1>9, <2>4, Unmoved
<1>10. QED BY <1>1, <1>3, <1>4, <1>5, <1>6, <1>7, <1>8, <1>9 DEF FetchStep

(* Connection's model of bind and fetch has every step that the loops make,  *)
(* and leaves the wire, the rows ahead and completion as they do.            *)
THEOREM AgreesWithConnection == Spec => StepsOfConnection
<1>1. Init => Steady /\ WithoutRows /\ Underway
  <2>1. ASSUME Init PROVE WithoutRows /\ Underway
    <3>1. kind = "statement" => ~pSpec /\ cursor = "none"
      BY <2>1 DEF Init
    <3>2. kind = "query" => cursor = "none"
      BY <2>1 DEF Init
    <3>3. ~complete /\ max = NULL
      BY <2>1 DEF Init
    <3>4. QED BY <3>1, <3>2, <3>3 DEF WithoutRows, Underway
  <2>2. QED BY <2>1, SteadyInit
<1>2. IInv /\ Steady /\ WithoutRows /\ Underway /\ [Next]_vars
        => Steady' /\ WithoutRows' /\ Underway'
  BY SteadyStep, WithoutRowsStep, UnderwayStep DEF IInv
<1>3. ASSUME IInv, IInv', Steady, WithoutRows, WithoutRows', Underway, [Next]_vars,
             kind # "call", ~crashed', ~(bound' /\ Unfit')
      PROVE  [Conn!UseResult("result")]_(Conn!vars)
  <2>1. CASE UNCHANGED vars
    <3>1. Kept /\ UNCHANGED <<complete, i, n_rows, cursor, executed, max, crashed>>
      BY <2>1 DEF vars, bindVars, fetchVars, Kept
    <3>2. UNCHANGED <<Done, RowsAhead, OnWire>>
      BY <3>1 DEF Done, RowsAhead, OnWire, Between, Fetching, Kept
    <3>3. QED BY <3>1, <3>2, Unmoved
  <2>2. CASE Bind
    BY <1>3, <2>1, <2>2, BindOfConnection
  <2>3. CASE FetchStep \/ \E n \in FetchSizes : FetchStart(n)
    BY <1>3, <2>3, FetchOfConnection
  <2>4. QED BY <1>3, <2>1, <2>2, <2>3 DEF Next
<1>4. IInv /\ IInv' /\ Steady /\ WithoutRows /\ WithoutRows' /\ Underway /\ [Next]_vars
        => [kind # "call" /\ ~crashed' /\ ~(bound' /\ Unfit')
              => [Conn!UseResult("result")]_(Conn!vars)]_vars
  BY <1>3
<1>5. QED BY <1>1, <1>2, <1>4, Invariance, PTL DEF Spec, StepsOfConnection

=============================================================================
