---------------------------- MODULE JsonConvert -----------------------------
(***************************************************************************)
(* Value and object conversion of the JSON IPC (src/jsonipc/jsonipc.hh):   *)
(* Convert<T> for numbers, strings, vectors, pairs, enums, serializable    *)
(* structs and object handles, the class registry that finds methods and   *)
(* casts handles up and down the inheritance graph, and the answer         *)
(* dispatch_message() gives to a message.                                  *)
(*                                                                         *)
(* A number is counted in halves, so that the odd ones have a fraction.    *)
(* Integers have IntBits bits.  Names are sequences of characters.           *)
(***************************************************************************)
EXTENDS Integers, Sequences, SequencesExt, FiniteSets

CONSTANT IntBits
Modulus == 2 ^ IntBits

-----------------------------------------------------------------------------
(* JSON values                                                              *)
JNull == [j |-> "null"]
JBool(b) == [j |-> "bool", b |-> b]
JNum(n) == [j |-> "number", n |-> n]
JStr(s) == [j |-> "string", s |-> s]
JArr(a) == [j |-> "array", a |-> a]
JObj(f) == [j |-> "object", f |-> f]

(* C++ values: [n |-> ...] numbers, [s |-> ...] strings, [v |-> ...] lists  *)
(* and pairs, [f |-> ...] structs; NaN is the number with nan = TRUE.       *)
Num(n) == [n |-> n, nan |-> FALSE]
NaN == [n |-> 0, nan |-> TRUE]

Trunc(n) == IF n >= 0 THEN n \div 2 ELSE -((-n) \div 2)
Wrapped(signed, i) ==
  LET u == i % Modulus IN IF signed /\ u >= Modulus \div 2 THEN u - Modulus ELSE u

\* Enum<T>::get_name, get_value: entries are <<name, value>>
get_name(entries, v) ==
  LET i == SelectInSeq(entries, LAMBDA e : e[2] = v) IN IF i = 0 THEN <<>> ELSE entries[i][1]
AlNum(c) == c \notin {".", "_"}
NameMatchesPrefix(name, full) == IsPrefix(name, full)      \* mutant
NameMatches(name, full) ==
  \/ name = full
  \/ /\ Len(name) < Len(full) /\ ~AlNum(full[Len(full) - Len(name)])
     /\ IsSuffix(name, full)
get_value(entries, name, fallback) ==
  LET i == SelectInSeq(entries, LAMBDA e : NameMatches(name, e[1])) IN IF i = 0 THEN fallback ELSE entries[i][2]

enum_to_json(entries, v) ==
  LET name == get_name(entries, v) IN IF name = <<>> THEN JNum(2 * v) ELSE JStr(name)
RECURSIVE to_json(_, _)
to_json(T, x) ==
  CASE T.k \in {"int", "uint"} -> JNum(2 * x.n)
    [] T.k = "bool" -> JBool(x.n = 1)
    [] T.k = "double" -> IF x.nan THEN JNull ELSE JNum(x.n)         \* kWriteNanAndInfNullFlag
    [] T.k = "string" -> JStr(x.s)
    [] T.k = "enum" -> enum_to_json(T.entries, x.n)
    [] T.k = "vector" -> JArr([i \in DOMAIN x.v |-> to_json(T.of, x.v[i])])
    [] T.k = "pair" -> JArr(<<to_json(T.first, x.v[1]), to_json(T.second, x.v[2])>>)
    [] T.k = "struct" -> JObj([a \in DOMAIN T.fields |-> to_json(T.fields[a], x.f[a])])

Integer(signed, j) ==
  CASE j.j = "bool" -> IF j.b THEN 1 ELSE 0
    [] j.j = "number" -> Wrapped(signed, Trunc(j.n))
    [] OTHER -> 0
enum_from_json(entries, j) == IF j.j = "string" THEN get_value(entries, j.s, 0) ELSE Integer(TRUE, j)
\* Serializable::make_serializable calls the setters of the fields that are both registered and present
Sent(T, j) == IF j.j = "object" THEN DOMAIN T.fields \cap DOMAIN j.f ELSE {}
RECURSIVE Default(_)
Default(T) ==
  CASE T.k \in {"int", "uint", "bool", "double", "enum"} -> Num(0)
    [] T.k = "string" -> [s |-> <<>>]
    [] T.k = "vector" -> [v |-> <<>>]
    [] T.k = "pair" -> [v |-> <<Default(T.first), Default(T.second)>>]
    [] T.k = "struct" -> [f |-> [a \in DOMAIN T.fields |-> Default(T.fields[a])]]
RECURSIVE from_json(_, _)
from_json(T, j) ==
  CASE T.k = "int" -> Num(Integer(TRUE, j))
    [] T.k = "uint" -> Num(Integer(FALSE, j))
    [] T.k = "bool" -> Num(IF Integer(FALSE, j) # 0 THEN 1 ELSE 0)
    [] T.k = "double" -> CASE j.j = "bool" -> Num(IF j.b THEN 2 ELSE 0) [] j.j = "number" -> Num(j.n) [] OTHER -> Num(0)
    [] T.k = "string" -> [s |-> IF j.j = "string" THEN j.s ELSE <<>>]
    [] T.k = "enum" -> Num(enum_from_json(T.entries, j))
    [] T.k = "vector" -> [v |-> IF j.j = "array" THEN [i \in DOMAIN j.a |-> from_json(T.of, j.a[i])] ELSE <<>>]
    [] T.k = "pair" -> IF j.j = "array" /\ Len(j.a) >= 2
                       THEN [v |-> <<from_json(T.first, j.a[1]), from_json(T.second, j.a[2])>>] ELSE Default(T)
    [] T.k = "struct" -> [f |-> [a \in DOMAIN T.fields |-> IF a \in Sent(T, j) THEN from_json(T.fields[a], j.f[a])
                                                             ELSE Default(T.fields[a])]]

(* A value that is sent and received as the same type arrives as it was;    *)
(* NaN becomes 0 (jsonipc.hh: Convert).                                     *)
RECURSIVE NoNaN(_, _)
NoNaN(T, x) ==
  CASE T.k = "double" -> IF x.nan THEN Num(0) ELSE x
    [] T.k = "vector" -> [v |-> [i \in DOMAIN x.v |-> NoNaN(T.of, x.v[i])]]
    [] T.k = "pair" -> [v |-> <<NoNaN(T.first, x.v[1]), NoNaN(T.second, x.v[2])>>]
    [] T.k = "struct" -> [f |-> [a \in DOMAIN T.fields |-> NoNaN(T.fields[a], x.f[a])]]
    [] OTHER -> x
ValueArrives(T, x) == from_json(T, to_json(T, x)) = NoNaN(T, x)

-----------------------------------------------------------------------------
(* Class<T>: a registry maps a class to [bases, methods]; classes that were *)
(* not registered are missing from it.                                      *)
Registered(reg, c) == c \in DOMAIN reg
Bases(reg, c) == IF Registered(reg, c) THEN reg[c].bases ELSE <<>>
RECURSIVE try_upcast(_, _, _)
try_upcast(reg, c, baseclass) ==
  c = baseclass \/ \E i \in DOMAIN Bases(reg, c) : try_upcast(reg, Bases(reg, c)[i], baseclass)
RECURSIVE base_depth(_, _)
base_depth(reg, c) ==
  1 + FoldSeq(LAMBDA b, d : LET e == base_depth(reg, b) IN IF e > d THEN e ELSE d, 0, Bases(reg, c))
RECURSIVE lookup_closure(_, _, _)
lookup_closure(reg, c, m) ==
  IF Registered(reg, c) /\ m \in DOMAIN reg[c].methods THEN c
  ELSE LET found == [i \in DOMAIN Bases(reg, c) |-> lookup_closure(reg, Bases(reg, c)[i], m)]
           i == SelectInSeq(found, LAMBDA f : f # "none")
       IN IF i = 0 THEN "none" ELSE found[i]
(* Convert<shared_ptr<T>>::to_json: the handle is of the most derived class *)
(* if that was registered with a base (can_wrap_object_from_base) and leads *)
(* up to the declared class, else of the declared class.                    *)
WrapClassDeclared(reg, impl, declared) == declared         \* mutant
WrapClass(reg, impl, declared) ==
  IF Registered(reg, impl) /\ Bases(reg, impl) # <<>> /\ try_upcast(reg, impl, declared) THEN impl ELSE declared
\* object_from_json: NULL ("none") unless the handle's class leads up to the requested one
object_from_json(reg, obj, wrapclass, requested) == IF try_upcast(reg, wrapclass, requested) THEN obj ELSE "none"

(* The generated JavaScript defines every class after the classes it        *)
(* extends (ClassPrinter::sort_printers).                                   *)
sort_printers(reg, printers) == SortSeq(printers, LAMBDA a, b : base_depth(reg, a) < base_depth(reg, b))
BasesFirst(reg, printers) ==
  LET order == sort_printers(reg, printers)
  IN \A i, k \in DOMAIN order : Contains(Bases(reg, order[k]), order[i]) => i < k

-----------------------------------------------------------------------------
(* dispatch_message: msg is [parsed, id, method, array, this, n_args]; this *)
(* is the class of the handle in params[0] ("none" without a handle),       *)
(* method "missing" when the message has none.  A code of 0 is a result.    *)
ParseError == -32700
InvalidRequest == -32600
MethodNotFound == -32601
InvalidParams == -32602
InternalError == -32603
Answer(id, code) == [id |-> id, code |-> code]
\* make_closure: the number of arguments counts the handle
Called(reg, f, msg) ==
  IF msg.n_args # 1 + reg[f].methods[msg.method] THEN InvalidParams
  ELSE IF object_from_json(reg, "obj", msg.this, f) = "none" THEN InternalError ELSE 0
answer_message(reg, extra, msg) ==
  LET f == IF msg.this = "none" THEN "none" ELSE lookup_closure(reg, msg.this, msg.method)
  IN CASE ~msg.parsed -> Answer(0, ParseError)
       [] msg.parsed /\ (msg.id = 0 \/ msg.method = "missing" \/ ~msg.array) -> Answer(msg.id, InvalidRequest)
       [] OTHER -> Answer(msg.id, IF f # "none" THEN Called(reg, f, msg)
                                  ELSE IF msg.method \in extra THEN 0 ELSE MethodNotFound)
(* A handle stands for its object: an object of a registered class has one  *)
(* handle whichever base class it is sent as, the handle is accepted where  *)
(* a class it derives from is expected and nowhere else, and a call reaches *)
(* a method exactly if one of these classes has it, never without its       *)
(* object.  Derived(reg, w) are the classes w derives from.                 *)
Derived(reg, w) ==
  FoldLeft(LAMBDA S, i : S \cup UNION {ToSet(Bases(reg, c)) : c \in S}, {w}, SetToSeq(DOMAIN reg))
HandlesFaithful(reg, impl, declared) ==
  LET w == WrapClass(reg, impl, declared)
      up == Derived(reg, w)
  IN /\ declared \in up
     /\ Registered(reg, impl) /\ Bases(reg, impl) # <<>> => w = impl
     /\ \A c \in DOMAIN reg : (object_from_json(reg, "obj", w, c) = "obj") <=> c \in up
     /\ \A m \in {"get", "set", "extra", "other"}, n \in 1..2 :
          LET r == answer_message(reg, {"extra"},
                     [parsed |-> TRUE, id |-> 7, method |-> m, array |-> TRUE, this |-> w, n_args |-> n])
              arities == {reg[c].methods[m] : c \in {x \in up \cap DOMAIN reg : m \in DOMAIN reg[x].methods}}
          IN /\ r.id = 7 /\ r.code # InternalError
             /\ arities # {} => (r.code = 0 => n - 1 \in arities)
             /\ r.code = MethodNotFound <=> arities = {} /\ m # "extra"
             /\ Cardinality(arities) = 1 /\ n - 1 \in arities => r.code = 0
=============================================================================
