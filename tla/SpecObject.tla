----------------------------- MODULE SpecObject -----------------------------
(***************************************************************************)
(* The nested object of a job's spec and the locations that iteration.go   *)
(* reads and writes in it.  An object is a tree of maps, lists and scalars; *)
(* a scalar is its text, since the conversion to the type of the scalar it *)
(* replaces is left out.  A location is the sequence of the parts between  *)
(* its dots.  What makes the program panic (an index out of range, a failed *)
(* type assertion) yields Panic.                                           *)
(***************************************************************************)
EXTENDS Naturals, Sequences, SequencesExt, Maps

Scalar(v) == [kind |-> "scalar", text |-> v]
Map(f)    == [kind |-> "map", at |-> f]     \* from names to objects
List(s)   == [kind |-> "list", at |-> s]
Nil       == [kind |-> "nil"]
Panic     == [kind |-> "panic"]

NULL_VALUE_STR == "nil"

(***************************************************************************)
(* A part is a text, possibly with a parenthesis before or after it, and   *)
(* an index "[n]" or a condition "[sub=want]".                             *)
(***************************************************************************)
PartOf(t, opens, closes) ==
    [text |-> t, open |-> opens, close |-> closes, type |-> "VALUE",
     index |-> 0, sub |-> <<>>, want |-> ""]

Part(t) == PartOf(t, FALSE, FALSE)

Parts(texts) == [i \in 1..Len(texts) |-> Part(texts[i])]

\* "(" label ")", the label given by the texts between its dots.
Quoted(label) ==
    [i \in 1..Len(label) |-> PartOf(label[i], i = 1, i = Len(label))]

\* What is read of a location so far: the keys, and of a quotation that is
\* open its texts.
Reading(opened, quote, token) ==
    [opened |-> opened, quote |-> quote, token |-> token]

\* A key of a map is the sequence of texts its name has between dots.  The
\* part that opens a quotation is not looked at for its end, so a quotation
\* of one part is lost, with all that follows it.
ReadPart(s, p) ==
    CASE s.opened /\ p.close ->
           Reading(FALSE, <<>>,
                   Append(s.token, [p EXCEPT !.text = Append(s.quote, p.text)]))
      [] s.opened /\ ~p.close ->
           Reading(TRUE, Append(s.quote, p.text), s.token)
      [] ~s.opened /\ p.open -> Reading(TRUE, <<p.text>>, s.token)
      [] OTHER -> Reading(FALSE, s.quote,
                          Append(s.token, [p EXCEPT !.text = <<p.text>>]))

Tokenized(location) ==
    LET read[i \in 0..Len(location)] ==
          IF i = 0 THEN Reading(FALSE, <<>>, <<>>)
          ELSE ReadPart(read[i - 1], location[i])
    IN  read

getToken(location) == Tokenized(location)[Len(location)].token

-----------------------------------------------------------------------------
\* Looking at a list that is not there creates an empty one.
Prepared(key, object) ==
    IF key.type # "VALUE" /\ key.text \notin DOMAIN object
    THEN Assigned(object, key.text, List(<<>>))
    ELSE object

\* Where in its list a key points; one past the end if nowhere.
IndexOf(key, list) ==
    IF key.type = "LIST" THEN key.index + 1
    ELSE LET here == {i \in 1..Len(list) :
                        /\ key.sub \in DOMAIN list[i].at
                        /\ list[i].at[key.sub] = Scalar(key.want)}
         IN  IF here = {} THEN Len(list) + 1
             ELSE CHOOSE i \in here : \A k \in here : i <= k

\* What an object, prepared for the key, has there.
getValue(key, object) ==
    IF key.text \notin DOMAIN object THEN Nil
    ELSE IF key.type = "VALUE" THEN object[key.text]
    ELSE IF object[key.text].kind # "list" THEN Panic
    ELSE LET list == object[key.text].at
             i == IndexOf(key, list)
         IN  IF i <= Len(list) THEN list[i] ELSE Nil

\* The object with x where the key points; a list grows by one at most.
Placed(key, object, x) ==
    LET list == object[key.text].at
        i == IndexOf(key, list)
        y == IF key.type = "VALUE" THEN x
             ELSE List(IF i <= Len(list) THEN [list EXCEPT ![i] = x]
                                         ELSE Append(list, x))
    IN  Map(Assigned(object, key.text, y))

\* What keys lead to one after the other: an object for each, from the one
\* they start from; Nil after one that is no map.
Visited(object, keys) ==
    LET at[i \in 0..Len(keys)] ==
          IF i = 0 THEN object
          ELSE IF at[i - 1].kind # "map" THEN Nil
          ELSE getValue(keys[i], Prepared(keys[i], at[i - 1].at))
    IN  at

\* The first key, or the last one, that does not lead to a map.
LastOf(path, keys) ==
    Min({i \in 1..Len(keys) : path[i].kind # "map" \/ i = Len(keys)})

\* The map that a key leads into, made if nothing is there.
Entered(key, object) ==
    LET next == getValue(key, Prepared(key, object))
    IN  CASE next.kind = "map" -> next
          [] next.kind = "nil" /\ key.type = "VALUE" -> Map(<<>>)
          [] next.kind = "nil" /\ key.type = "MAP" ->
               Map(Single(key.sub, Scalar(key.want)))
          [] OTHER -> Nil

\* The maps entered one after the other, and Nil.
Descent(object, keys) ==
    LET at[i \in 0..Len(keys)] ==
          IF i = 0 THEN object
          ELSE IF at[i - 1].kind # "map" THEN Nil
          ELSE Entered(keys[i], at[i - 1].at)
    IN  at

\* The map with the value where the key points.  Panics if there is a map, or
\* an empty list that the key indexes on the way to another one.
ValueSet(key, object, last, value) ==
    LET base == Prepared(key, object)
        next == getValue(key, base)
    IN  IF \/ next.kind \in {"panic", "map"}
           \/ next.kind = "list" /\ key.type = "VALUE"
           \/ next.kind = "nil" /\ last /\ key.type = "MAP"
           \/ next.kind = "nil" /\ ~last /\ base[key.text].at = <<>>
        THEN Panic
        ELSE Placed(key, base, Scalar(value))

\* The value is set at the end of the descent, and each map is put back in the
\* one it was entered from: what becomes of each.
Rebuilt(object, keys, value) ==
    LET path == Descent(object, keys)
        last == LastOf(path, keys)
        new[i \in 1..last] ==
          IF i = last
          THEN ValueSet(keys[i], path[i - 1].at, i = Len(keys), value)
          ELSE IF new[i + 1] = Panic THEN Panic
          ELSE Placed(keys[i], Prepared(keys[i], path[i - 1].at), new[i + 1])
    IN  new

updateNextValue(object, keys, value) == Rebuilt(object, keys, value)[1]

\* Writing into an object that is not there panics.
UpdateValue(object, location, value) ==
    CASE value = NULL_VALUE_STR -> object
      [] value # NULL_VALUE_STR /\ object.kind # "map" -> Panic
      [] OTHER -> updateNextValue(object, getToken(location), value)

\* What the keys lead to; the text "nil" if nothing is there.
deeperValue(object, keys) ==
    LET path == Visited(object, keys)
        last == LastOf(path, keys)
        next == path[last]
    IN  CASE next.kind \in {"panic", "map"} -> Panic
          [] next.kind = "list" /\ keys[last].type = "VALUE" -> Panic
          [] next.kind = "nil" -> Scalar(NULL_VALUE_STR)
          [] OTHER -> next

\* Looking for a list in an object that is not there panics, too.
GetValue(object, location) ==
    LET keys == getToken(location)
    IN  IF object.kind = "nil" /\ keys[1].type # "VALUE" THEN Panic
        ELSE deeperValue(object, keys)
=============================================================================
