------------------------------ MODULE MCPrintk ------------------------------
(* Formats for model checking Printk.                                      *)
EXTENDS Printk

LOCAL T(kind, text) == [kind |-> kind, text |-> text]
LOCAL N(kind, mod, arg) == [kind |-> kind, mod |-> mod, arg |-> arg]

\* A long numeral and a short one after it, around a string; pointers, signs
\* and a zero of either conversion.
SomeFormats ==
    {<<N("d", "l", -100), T("string", <<"t", "t">>), N("u", "l", 0)>>,
     <<N("x", "", 2), T("char", <<"t">>), N("d", "h", 9)>>,
     <<N("u", "q", 200), N("p", "l", 31)>>,
     <<N("d", "", 20), N("d", "", 0)>>}

SomeLsr == {2, 22}
LongArguments == -128 .. 255
=============================================================================
