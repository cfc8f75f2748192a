------------------------------ MODULE MCSmoke ------------------------------
(***************************************************************************)
(* Instances of Smoke: short commands, a guest that does not keep to the   *)
(* protocol, and a stream of port events.                                  *)
(***************************************************************************)
EXTENDS Smoke

\* Every stream of up to three bytes, over the edges of a byte, as one or two
\* chunks, around a chunk of the other stream.
Commands ==
    {<<Ready, Output(stdout, a), Output(stderr, <<7>>), Output(stdout, b), Exit(c)>> :
        a \in {<<0>>, <<255, 1>>, <<128, 63, 254>>}, b \in {<<>>, <<255>>}, c \in {0, 1}}
    \union {<<Ready, Exit(2)>>}

\* A greeting that is none, a reply to another command, an unknown stream or
\* type, text that is no base64, an object without its fields, a long payload.
Strangers ==
    {<<Odd(4, <<1, 0>>)>>}
    \union {<<Ready, Output(stdout, <<5>>), odd, Exit(0)>> :
        odd \in {Odd(3, <<>>), Odd(3, <<2, 1>>), Odd(3, <<1, 3>>), Odd(3, <<1, 1, Pad, 0, 0, 0>>),
                 Odd(3, <<1, 1, 0>>), Odd(4, <<1>>), Odd(4, <<2, 0>>), Odd(9, <<>>),
                 Odd(3, [i \in 1..12 |-> 1])}}

Events ==
    {<<Odd(MessageType.PortEvent, <<5, 0>>), Odd(MessageType.PortEvent, <<5, 1>>)>>}

MCScripts ==
    [smoke |-> Commands \union Strangers, attached |-> Commands \union Strangers, ports |-> Events]

=============================================================================
