----------------------------- MODULE MCSandbox -----------------------------
(* Constants of the Sandbox specification for model checking: an entry      *)
(* function f and a function g that it may call.                            *)
EXTENDS Sandbox

CONSTANTS f, g

I(kind, arg) == [kind |-> kind, arg |-> arg]

Ret == I("ret", 0)

MCBodies ==
    [l \in {f, g} |->
       IF l = f
       THEN {<<I("load", 0), I("store", 0), Ret>>,               \* reads memory, and writes it
             <<I("rax", 1), I("store", 0), Ret>>,
             <<I("rbx", 1), Ret>>,                               \* breaks the calling convention
             <<I("push", 0), I("rbx", 1), I("load", 3), Ret>>,   \* a wild read
             <<I("jne", 1), I("div", 0), Ret>>,                  \* a loop, or a division by 0
             <<I("call", g), I("load", 0), Ret>>,
             <<I("call", f)>>}                                   \* recursion without end
       ELSE {<<I("push", 0), I("pop", 0), Ret>>,
             <<I("store", 0), I("jne", 3), Ret>>,                \* smashes the stack
             <<I("push", 0), Ret>>,                              \* leaves rsp elsewhere
             <<I("rax", 1)>>,                                    \* runs off its end
             <<I("ill", 0)>>}]

\* No function pops its return address: "sandboxing the memory dereference will catch
\* infinite recursions" is about such functions.
ASSUME ReturnAddressesKept == \A l \in {f, g} : \A code \in MCBodies[l] : KeepsReturnAddress(code)

MCrip_offset == [l \in {f, g} |-> IF l = f THEN 10 ELSE 20]

State(code, rax) ==
    [code |-> code, rax |-> rax, rbx |-> 0, rsp |-> 3, stack |-> [s \in Slots |-> 0]]

MCInputs == {State("NORMAL", 0), State("NORMAL", 1), State("SIGSEGV", 0)}
=============================================================================
