---------------------------- MODULE MCStatements ----------------------------
(* Instances of the parser and of the binding of a statement for TLC.  In  *)
(* each behaviour one of the two is at work and the other stays as it      *)
(* began: Placeholders takes a query apart by bytes, and Bind takes it by  *)
(* the lexemes that Placeholders finds.                                    *)
EXTENDS Placeholders, Bind

VARIABLE bound

NilSlice == Value("slice", 0, <<>>, TRUE)

(* The values a field may have, with the tags that make a difference. *)
MCFields ==
  LET values == {Null, Scalar(0), Scalar(1), Opaque(1), Object(1), Slice(<<>>), NilSlice,
                 Slice(<<Scalar(2), Scalar(3)>>), Slice(<<Scalar(3), Scalar(2)>>),
                 Slice(<<Object(2)>>)}
  IN  {Field(v, json, omit) : v \in values, json \in BOOLEAN, omit \in BOOLEAN}
        \ {Field(v, TRUE, TRUE) : v \in {Scalar(1), Opaque(1)}}

(* Every field before a scalar, and some before a list. *)
Objects ==
  LET plain == Field(Scalar(4), FALSE, FALSE)
      list == Field(Slice(<<Scalar(5), Scalar(6)>>), FALSE, FALSE)
  IN  {[a |-> f, b |-> plain] : f \in MCFields}
        \cup {[a |-> f, b |-> list] : f \in {g \in MCFields : ~g.json /\ ~g.omitEmpty}}

(* A struct or map, a value, a Valuer, a list, a nil and something else. *)
OneArgs ==
  {Arg("object", Null, <<o>>) : o \in Objects}
    \cup {Arg("object", Null, <<[a |-> Field(Scalar(1), FALSE, FALSE)]>>),
          Arg("scalar", Scalar(1), <<>>), Arg("scalar", Opaque(1), <<>>),
          Arg("valuer", Opaque(2), <<>>),
          Arg("slice", Slice(<<Scalar(2), Scalar(3)>>), <<>>), Arg("slice", Slice(<<>>), <<>>),
          Arg("anys", Slice(<<Scalar(2), Null>>), <<>>), Arg("nil", Null, <<>>),
          Arg("other", Null, <<>>)}

Row(x, y) == [a |-> Field(Scalar(x), FALSE, TRUE), b |-> Field(Scalar(y), FALSE, FALSE)]

(* Batches of none, one and two rows, one with a column missing, and two   *)
(* with a value that is a list, which only a json tag makes a value.       *)
BatchArgs ==
  {Arg("batch", Null, <<>>), Arg("batch", Null, <<Row(1, 2)>>),
   Arg("batch", Null, <<Row(1, 2), Row(0, 3)>>),
   Arg("batch", Null, <<Row(1, 2), [b |-> Field(Scalar(1), FALSE, FALSE)]>>),
   Arg("batch", Null, <<[a |-> Field(Slice(<<Scalar(1)>>), FALSE, FALSE)]>>),
   Arg("batch", Null, <<[a |-> Field(Slice(<<Scalar(1)>>), TRUE, FALSE)]>>)}

MCArgs == OneArgs \cup BatchArgs

StatementsInit ==
  /\ bound \in BOOLEAN
  /\ BindInit
  /\ IF bound THEN query = <<>> /\ i = 1 /\ mode = "scan" /\ open = 0 /\ places = <<>>
              ELSE Init

Parse == ~bound /\ Next /\ UNCHANGED <<bound, bindVars>>
BindStep == bound /\ BindNext /\ UNCHANGED <<bound, vars>>

(* The parser runs to its end: it waits for nothing. *)
StatementsSpec ==
  /\ StatementsInit /\ [][Parse \/ BindStep]_<<bound, vars, bindVars>>
  /\ WF_<<bound, vars, bindVars>>(Parse)
=============================================================================
