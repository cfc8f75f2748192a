------------------------------- MODULE SemVer -------------------------------
(***************************************************************************)
(* Versions and the requirements on them that a project states in          *)
(* .fend.toml, .node-version, .nvmrc or package.json: SemVer,              *)
(* PartialSemVer and version_satisfies of linux/src/runtime.rs.            *)
(*                                                                         *)
(* A requirement is split at "||" into clauses and a clause at white space *)
(* into words; a word is an operator ("" when it has none) and the text    *)
(* after it.                                                               *)
(***************************************************************************)
EXTENDS Integers, Sequences

\* An x, a * or a missing field of a partial version.
X == -1

\* The text of a word after its operator and the v in front: a partial version,
\* "*", nothing (Lone) or what parse_partial_semver rejects ("lts/iron",
\* "1.2.3-rc.1").  Star, Lone and Bad are not versions because of their length.
Star == <<X>>
Lone == <<>>
Bad == <<X, X>>

\* SemVer::parse: what is no release (a prerelease or a nightly) is <<>>.
Nightly == <<>>
parse(v) == Len(v) = 3

Operators == {"", "^", "~", ">=", "<=", ">", "<", "="}
PartialSemVer == Nat \X (Nat \union {X}) \X (Nat \union {X})
Words == [op : Operators, text : {Star, Lone, Bad} \union PartialSemVer]

\* The word "v".
Vee == [op |-> "", text |-> Lone]

\* A requirement.  A v that is one of several clauses ("v || 1") is left out: what
\* normalize_version makes of it depends on the order of the clauses.
Requirements == {r \in SUBSET Seq(Words) : <<Vee>> \in r => r = {<<Vee>>}}

\* The derived order of SemVer.
Lt(v, w) ==
    \/ v[1] < w[1]
    \/ v[1] = w[1] /\ v[2] < w[2]
    \/ v[1] = w[1] /\ v[2] = w[2] /\ v[3] < w[3]

Le(v, w) == v = w \/ Lt(v, w)

\* max_by, or the last of a sorted list: the greatest elements (one, when
\* versions are unique).
Latest(versions) == {v \in versions : \A w \in versions : Le(w, v)}

\* PartialSemVer::lower_bound.
lower_bound(base) == [i \in 1 .. 3 |-> IF base[i] = X THEN 0 ELSE base[i]]

\* The exclusive upper bounds of ^base and ~base.
CaretBound(base) ==
    IF base[1] > 0 THEN <<base[1] + 1, 0, 0>>
    ELSE IF base[2] # X THEN <<0, base[2] + 1, 0>>
    ELSE <<0, 0, lower_bound(base)[3] + 1>>

\* Mutant of TildeBound: the minor version is left out of account.
TildeBoundOfMajor(base) == <<base[1] + 1, 0, 0>>

TildeBound(base) ==
    IF base[2] = X THEN <<base[1] + 1, 0, 0>> ELSE <<base[1], base[2] + 1, 0>>

\* comparator_accepts.
comparator_accepts(token, v) ==
    LET base == token.text
        low == lower_bound(base)
    IN IF token.op = "" /\ base \in {Star, Lone} THEN TRUE
       ELSE IF Len(base) # 3 THEN FALSE
       ELSE CASE token.op = "^"  -> Le(low, v) /\ Lt(v, CaretBound(base))
              [] token.op = "~"  -> Le(low, v) /\ Lt(v, TildeBound(base))
              [] token.op = ">=" -> Le(low, v)
              [] token.op = "<=" -> Le(v, low)
              [] token.op = ">"  -> Lt(low, v)
              [] token.op = "<"  -> Lt(v, low)
              [] token.op = "="  -> v = low
              [] OTHER -> \A i \in 1 .. 3 : base[i] \in {v[i], X}

\* comparator_tokens: an operator that stands alone takes the next word as its
\* text, whatever that is: ">" and "=1" make ">=1", and where another operator
\* follows the text does not parse.
Alone(token) == token.text = Lone /\ token.op \in {">=", "<=", ">", "<", "="}

Together(op, word) ==
    IF word.op = "=" /\ op \in {">", "<"}
    THEN [op |-> IF op = ">" THEN ">=" ELSE "<=", joined |-> TRUE, text |-> word.text]
    ELSE [op |-> op, joined |-> TRUE, text |-> IF word.op = "" THEN word.text ELSE Bad]

Join(tokens, word) ==
    LET last == tokens[Len(tokens)] IN
    IF tokens # <<>> /\ Alone(last) /\ ~last.joined
    THEN [tokens EXCEPT ![Len(tokens)] = Together(last.op, word)]
    ELSE Append(tokens, [op |-> word.op, joined |-> FALSE, text |-> word.text])

\* The tokens of the first n words, for every n.
Joined(clause) ==
    LET tokens[n \in 0 .. Len(clause)] ==
            IF n = 0 THEN <<>> ELSE Join(tokens[n - 1], clause[n])
    IN tokens

comparator_tokens(clause) == Joined(clause)[Len(clause)]

version_satisfies(v, requirement) ==
    \E clause \in requirement :
        LET tokens == comparator_tokens(clause)
        IN tokens # <<>> /\ \A i \in DOMAIN tokens : comparator_accepts(tokens[i], v)

\* normalize_version, of the whole text of a requirement: of a v by itself nothing
\* is left, and no version satisfies that.
normalize_version(requirement) ==
    IF requirement = {<<Vee>>} THEN {<<>>} ELSE requirement

\* SemVer::is_full, of the whole text of a requirement.
is_full(requirement) ==
    \E base \in {clause[1].text : clause \in requirement \ {<<>>}} :
        /\ requirement = {<<[op |-> "", text |-> base]>>}
        /\ Len(base) = 3 /\ X \notin {base[1], base[2], base[3]}

-----------------------------------------------------------------------------
(* What a comparator means to npm, from whose package.json the engines     *)
(* requirement is taken.                                                   *)

\* The least version above all those that a partial version stands for.
NextAfter(base) ==
    IF base[2] = X THEN <<base[1] + 1, 0, 0>>
    ELSE IF base[3] = X THEN <<base[1], base[2] + 1, 0>>
    ELSE <<base[1], base[2], base[3] + 1>>

\* The fields up to the leftmost one that is not zero must agree.
SameLeftmost(base, v) ==
    \E i \in 1 .. 3 :
        /\ \A j \in 1 .. i : base[j] = v[j]
        /\ \A j \in 1 .. i - 1 : base[j] = 0
        /\ base[i] # 0 \/ i = 3 \/ base[i + 1] = X

Admits(token, v) ==
    LET base == token.text
        low == lower_bound(base)
    IN \/ base = Star
       \/ /\ Len(base) = 3
          /\ CASE token.op = "^"  -> Le(low, v) /\ SameLeftmost(base, v)
               [] token.op = "~"  -> /\ Le(low, v)
                                     /\ v[1] = base[1] /\ base[2] \in {v[2], X}
               [] token.op = ">=" -> Le(low, v)
               [] token.op = "<=" -> Lt(v, NextAfter(base))
               [] token.op = ">"  -> Le(NextAfter(base), v)
               [] token.op = "<"  -> Lt(v, low)
               [] OTHER -> Le(low, v) /\ Lt(v, NextAfter(base))

\* Comparators whose meaning comparator_accepts narrows or widens: >1 accepts
\* 1.0.1, ^0.0.1 accepts 0.0.2; <=1, =1 and ^0 accept 1.0.0, 1.0.0 and 0.0.0
\* only; and a v by itself accepts everything.
Deviates(token) ==
    LET base == token.text IN
    \/ token.op = "" /\ base = Lone
    \/ /\ Len(base) = 3
       /\ \/ token.op \in {">", "<=", "="} /\ X \in {base[2], base[3]}
          \/ token.op = "^" /\ base[1] = 0 /\ base[2] \in {0, X}

=============================================================================
