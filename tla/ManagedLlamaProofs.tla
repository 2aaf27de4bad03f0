------------------------- MODULE ManagedLlamaProofs -------------------------
(***************************************************************************)
(* Proofs about ManagedLlama, for any number of owners, callers of Close   *)
(* and deaths.                                                             *)
(*                                                                         *)
(* Close: whoever holds the once has a child that was started and not      *)
(* closed before; its result is sent after the child has ended, and the    *)
(* once is over when the result has been taken.                            *)
(*                                                                         *)
(* The port: while nobody shares it, one owner at most has a child that    *)
(* runs or dials, and there is no stray; so whoever answers is its child.  *)
(***************************************************************************)
EXTENDS ManagedLlama, TLAPS

\* Steps before there is a child, and before anybody can close it.
Before == Getting \cup {"off", "launch"}
Unclosed == Before \cup {"dial", "wait", "build"}

\* What an owner knows of its download, its child and its Close.
OwnerInv ==
  \A o \in Owners :
    /\ pc[o] \in Before => child[o] = "none"
    /\ pc[o] \in {"dial", "wait", "build", "up", "failing"} => child[o] # "none"
    /\ pc[o] = "rename" => temp[o] \in {"empty", "whole"}
    /\ pc[o] \in Unclosed => once[o] = "free" /\ calls[o] = 0
    /\ pc[o] = "failing" => calls[o] = 1
    /\ pc[o] = "failed" => calls[o] = 0
    /\ pc[o] = "closed" => once[o] = "over"
    /\ once[o] = "free" => ~cancelled[o]
    /\ once[o] # "free" => child[o] # "none"
    /\ done[o] \/ once[o] = "over" => child[o] = "reaped"

\* An owner is after the port.
After(o) == child[o] \in Running \/ pc[o] \in {"dial", "wait"}

PortInv ==
  ~shared => \A o \in Owners :
    After(o) => stray = "none" /\ \A p \in Owners \ {o} : ~After(p)

IInv == TypeOK /\ OwnerInv /\ NoChildLeft /\ PortInv /\ OwnServer

---------------------------------------------------------------------------

USE BoundAssumption

\* Before any owner starts, the invariant holds.
LEMMA IInvInit == Init => IInv
<1> SUFFICES ASSUME Init PROVE IInv
  OBVIOUS
<1> USE DEF Init
<1>1. /\ temp \in [Owners -> {"none", "partial", "empty", "whole"}]
      /\ pc \in [Owners -> Steps] /\ child \in [Owners -> Children]
      /\ once \in [Owners -> {"free", "held", "over"}]
      /\ calls \in [Owners -> 0 .. MaxClosers] /\ deaths \in 0 .. MaxDeaths
  BY DEF Steps, Children
<1>2. /\ ended \in [Owners -> BOOLEAN] /\ cancelled \in [Owners -> BOOLEAN]
      /\ done \in [Owners -> BOOLEAN] /\ shared \in BOOLEAN /\ lost \subseteq Owners
      /\ model \in {"absent", "empty", "whole"}
      /\ stray \in {"none", "booting", "listening"}
  OBVIOUS
<1>3. OwnerInv /\ NoChildLeft /\ OwnServer
  BY DEF OwnerInv, NoChildLeft, OwnServer
<1>4. PortInv
  BY DEF PortInv, After, Running
<1> QED BY <1>1, <1>2, <1>3, <1>4 DEF IInv, TypeOK

\* Every step keeps the types.
LEMMA TypeStep == TypeOK /\ OwnerInv /\ [Next]_vars => TypeOK'
<1> SUFFICES ASSUME TypeOK, OwnerInv, [Next]_vars PROVE TypeOK'
  OBVIOUS
<1> USE DEF TypeOK, Steps, Getting, Launching, Children, process, closing
<1>1. ASSUME NEW o \in Owners, Begin(o) PROVE TypeOK'
  BY <1>1 DEF Begin, Fresh, Goto
<1>2. ASSUME NEW o \in Owners, Stat(o) PROVE TypeOK'
  BY <1>2 DEF Stat, Goto
<1>3. ASSUME NEW o \in Owners, Rename(o) PROVE TypeOK'
  BY <1>3 DEF Rename, Goto, OwnerInv
<1>4. ASSUME NEW o \in Owners, Launch(o) PROVE TypeOK'
  BY <1>4 DEF Launch, Goto
<1>5. ASSUME NEW o \in Owners, Dial(o) PROVE TypeOK'
  BY <1>5 DEF Dial, Goto
<1>6. ASSUME NEW o \in Owners, Retry(o) PROVE TypeOK'
  BY <1>6 DEF Retry, Goto
<1>7. ASSUME NEW o \in Owners, Build(o) PROVE TypeOK'
  BY <1>7 DEF Build, Goto
<1>8. ASSUME NEW o \in Owners, Get(o) PROVE TypeOK'
  BY <1>8 DEF Get, Goto
<1>9. ASSUME NEW o \in Owners, Copy(o) PROVE TypeOK'
  BY <1>9 DEF Copy, Goto
<1>10. ASSUME NEW o \in Owners, FailDownload(o) PROVE TypeOK'
  BY <1>10 DEF FailDownload, Goto
<1>11. ASSUME NEW o \in Owners, GiveUp(o) PROVE TypeOK'
  BY <1>11 DEF GiveUp, Goto
<1>12. ASSUME NEW o \in Owners, ContextEnds(o) PROVE TypeOK'
  BY <1>12 DEF ContextEnds
<1>13. ASSUME NEW o \in Owners, CallClose(o) PROVE TypeOK'
  BY <1>13 DEF CallClose
<1>14. ASSUME NEW o \in Owners, CancelChild(o) PROVE TypeOK'
  BY <1>14 DEF CancelChild
<1>15. ASSUME NEW o \in Owners, TakeDone(o) PROVE TypeOK'
  BY <1>15 DEF TakeDone
<1>16. ASSUME NEW o \in Owners, CloseReturns(o) PROVE TypeOK'
  BY <1>16 DEF CloseReturns, Returns
<1>17. ASSUME NEW o \in Owners, Listen(o) PROVE TypeOK'
  BY <1>17 DEF Listen
<1>18. ASSUME NEW o \in Owners, Die(o) PROVE TypeOK'
  BY <1>18 DEF Die
<1>19. ASSUME NEW o \in Owners, Reap(o) PROVE TypeOK'
  BY <1>19 DEF Reap
<1>20. ASSUME NEW o \in Owners, OwnerDies(o) PROVE TypeOK'
  BY <1>20 DEF OwnerDies, Fresh, Goto
<1>21. CASE StrayStep
  BY <1>21 DEF StrayStep
<1>22. CASE UNCHANGED vars
  BY <1>22 DEF vars
<1> QED
  BY <1>1, <1>2, <1>3, <1>4, <1>5, <1>6, <1>7, <1>8, <1>9, <1>10, <1>11, <1>12,
     <1>13, <1>14, <1>15, <1>16, <1>17, <1>18, <1>19, <1>20, <1>21, <1>22
     DEF Next, StartStep, CloseStep

\* The first caller takes the result of a child that has ended; those that wait
\* inside of the once return after it.
LEMMA OwnerStep == TypeOK /\ OwnerInv /\ [Next]_vars => OwnerInv'
<1> SUFFICES ASSUME TypeOK, OwnerInv, [Next]_vars PROVE OwnerInv'
  OBVIOUS
<1> USE DEF TypeOK, OwnerInv, Before, Unclosed, Getting, Running, process, closing
<1>1. ASSUME NEW o \in Owners, Begin(o) PROVE OwnerInv'
  BY <1>1 DEF Begin, Fresh, Goto
<1>2. ASSUME NEW o \in Owners, Stat(o) PROVE OwnerInv'
  BY <1>2 DEF Stat, Goto
<1>3. ASSUME NEW o \in Owners, Rename(o) PROVE OwnerInv'
  BY <1>3 DEF Rename, Goto
<1>4. ASSUME NEW o \in Owners, Launch(o) PROVE OwnerInv'
  BY <1>4 DEF Launch, Goto
<1>5. ASSUME NEW o \in Owners, Dial(o) PROVE OwnerInv'
  BY <1>5 DEF Dial, Goto
<1>6. ASSUME NEW o \in Owners, Retry(o) PROVE OwnerInv'
  BY <1>6 DEF Retry, Goto
<1>7. ASSUME NEW o \in Owners, Build(o) PROVE OwnerInv'
  BY <1>7 DEF Build, Goto
<1>8. ASSUME NEW o \in Owners, Get(o) PROVE OwnerInv'
  BY <1>8 DEF Get, Goto
<1>9. ASSUME NEW o \in Owners, Copy(o) PROVE OwnerInv'
  BY <1>9 DEF Copy, Goto
<1>10. ASSUME NEW o \in Owners, FailDownload(o) PROVE OwnerInv'
  BY <1>10 DEF FailDownload, Goto
<1>11. ASSUME NEW o \in Owners, GiveUp(o) PROVE OwnerInv'
  BY <1>11 DEF GiveUp, Goto
<1>12. ASSUME NEW o \in Owners, ContextEnds(o) PROVE OwnerInv'
  BY <1>12 DEF ContextEnds
<1>13. ASSUME NEW o \in Owners, CallClose(o) PROVE OwnerInv'
  BY <1>13 DEF CallClose
<1>14. ASSUME NEW o \in Owners, CancelChild(o) PROVE OwnerInv'
  BY <1>14 DEF CancelChild, Steps, Launching
<1>15. ASSUME NEW o \in Owners, TakeDone(o) PROVE OwnerInv'
  BY <1>15 DEF TakeDone
<1>16. ASSUME NEW o \in Owners, CloseReturns(o) PROVE OwnerInv'
  BY <1>16 DEF CloseReturns, Returns
<1>17. ASSUME NEW o \in Owners, Listen(o) PROVE OwnerInv'
  BY <1>17 DEF Listen
<1>18. ASSUME NEW o \in Owners, Die(o) PROVE OwnerInv'
  BY <1>18 DEF Die
<1>19. ASSUME NEW o \in Owners, Reap(o) PROVE OwnerInv'
  BY <1>19 DEF Reap
<1>20. ASSUME NEW o \in Owners, OwnerDies(o) PROVE OwnerInv'
  BY <1>20 DEF OwnerDies, Fresh, Goto
<1>21. CASE StrayStep
  BY <1>21 DEF StrayStep
<1>22. CASE UNCHANGED vars
  BY <1>22 DEF vars
<1> QED
  BY <1>1, <1>2, <1>3, <1>4, <1>5, <1>6, <1>7, <1>8, <1>9, <1>10, <1>11, <1>12,
     <1>13, <1>14, <1>15, <1>16, <1>17, <1>18, <1>19, <1>20, <1>21, <1>22
     DEF Next, StartStep, CloseStep

\* A start fails before it has a child, or by a Close of its own.
LEMMA NoChildStep ==
  TypeOK /\ OwnerInv /\ NoChildLeft /\ [Next]_vars => NoChildLeft'
<1> SUFFICES ASSUME TypeOK, OwnerInv, NoChildLeft, [Next]_vars PROVE NoChildLeft'
  OBVIOUS
<1> USE DEF TypeOK, OwnerInv, NoChildLeft, Before, Unclosed, Getting, Running,
            process, closing
<1>1. ASSUME NEW o \in Owners, Begin(o) PROVE NoChildLeft'
  BY <1>1 DEF Begin, Fresh, Goto
<1>2. ASSUME NEW o \in Owners, Stat(o) PROVE NoChildLeft'
  BY <1>2 DEF Stat, Goto
<1>3. ASSUME NEW o \in Owners, Rename(o) PROVE NoChildLeft'
  BY <1>3 DEF Rename, Goto
<1>4. ASSUME NEW o \in Owners, Launch(o) PROVE NoChildLeft'
  BY <1>4 DEF Launch, Goto
<1>5. ASSUME NEW o \in Owners, Dial(o) PROVE NoChildLeft'
  BY <1>5 DEF Dial, Goto
<1>6. ASSUME NEW o \in Owners, Retry(o) PROVE NoChildLeft'
  BY <1>6 DEF Retry, Goto
<1>7. ASSUME NEW o \in Owners, Build(o) PROVE NoChildLeft'
  BY <1>7 DEF Build, Goto
<1>8. ASSUME NEW o \in Owners, Get(o) PROVE NoChildLeft'
  BY <1>8 DEF Get, Goto
<1>9. ASSUME NEW o \in Owners, Copy(o) PROVE NoChildLeft'
  BY <1>9 DEF Copy, Goto
<1>10. ASSUME NEW o \in Owners, FailDownload(o) PROVE NoChildLeft'
  BY <1>10 DEF FailDownload, Goto
<1>11. ASSUME NEW o \in Owners, GiveUp(o) PROVE NoChildLeft'
  BY <1>11 DEF GiveUp, Goto
<1>12. ASSUME NEW o \in Owners, ContextEnds(o) PROVE NoChildLeft'
  BY <1>12 DEF ContextEnds
<1>13. ASSUME NEW o \in Owners, CallClose(o) PROVE NoChildLeft'
  BY <1>13 DEF CallClose
<1>14. ASSUME NEW o \in Owners, CancelChild(o) PROVE NoChildLeft'
  BY <1>14 DEF CancelChild
<1>15. ASSUME NEW o \in Owners, TakeDone(o) PROVE NoChildLeft'
  BY <1>15 DEF TakeDone
<1>16. ASSUME NEW o \in Owners, CloseReturns(o) PROVE NoChildLeft'
  BY <1>16 DEF CloseReturns, Returns
<1>17. ASSUME NEW o \in Owners, Listen(o) PROVE NoChildLeft'
  BY <1>17 DEF Listen
<1>18. ASSUME NEW o \in Owners, Die(o) PROVE NoChildLeft'
  BY <1>18 DEF Die
<1>19. ASSUME NEW o \in Owners, Reap(o) PROVE NoChildLeft'
  BY <1>19 DEF Reap
<1>20. ASSUME NEW o \in Owners, OwnerDies(o) PROVE NoChildLeft'
  BY <1>20 DEF OwnerDies, Fresh, Goto
<1>21. CASE StrayStep
  BY <1>21 DEF StrayStep
<1>22. CASE UNCHANGED vars
  BY <1>22 DEF vars
<1> QED
  BY <1>1, <1>2, <1>3, <1>4, <1>5, <1>6, <1>7, <1>8, <1>9, <1>10, <1>11, <1>12,
     <1>13, <1>14, <1>15, <1>16, <1>17, <1>18, <1>19, <1>20, <1>21, <1>22
     DEF Next, StartStep, CloseStep

\* Whoever comes after the port while another one is there shares it.
LEMMA PortStep == TypeOK /\ OwnerInv /\ PortInv /\ [Next]_vars => PortInv'
<1> SUFFICES ASSUME TypeOK, OwnerInv, PortInv, [Next]_vars PROVE PortInv'
  OBVIOUS
<1> USE DEF TypeOK, OwnerInv, PortInv, After, Before, Unclosed, Getting, Running,
            process, closing
<1>1. ASSUME NEW o \in Owners, Begin(o) PROVE PortInv'
  BY <1>1 DEF Begin, Fresh, Goto
<1>2. ASSUME NEW o \in Owners, Stat(o) PROVE PortInv'
  BY <1>2 DEF Stat, Goto
<1>3. ASSUME NEW o \in Owners, Rename(o) PROVE PortInv'
  BY <1>3 DEF Rename, Goto
<1>4. ASSUME NEW o \in Owners, Launch(o) PROVE PortInv'
  <2>1. CASE UNCHANGED <<child, shared>> /\ Goto(o, "failed")
    BY <1>4, <2>1 DEF Launch, Goto
  <2>2. CASE ~UNCHANGED <<child, shared>>
    <3> SUFFICES ASSUME ~shared'
                 PROVE  stray' = "none" /\ \A p \in Owners \ {o} : ~After(p)'
      BY <1>4, <2>2 DEF Launch, Goto
    <3>1. stray = "none" /\ Others(o) = {}
      BY <1>4, <2>2 DEF Launch
    <3>2. \A p \in Owners \ {o} : ~After(p)
      BY <3>1 DEF Others
    <3> QED BY <1>4, <2>2, <3>1, <3>2 DEF Launch, Goto
  <2> QED BY <1>4, <2>1, <2>2 DEF Launch
<1>5. ASSUME NEW o \in Owners, Dial(o) PROVE PortInv'
  BY <1>5 DEF Dial, Goto
<1>6. ASSUME NEW o \in Owners, Retry(o) PROVE PortInv'
  BY <1>6 DEF Retry, Goto
<1>7. ASSUME NEW o \in Owners, Build(o) PROVE PortInv'
  BY <1>7 DEF Build, Goto
<1>8. ASSUME NEW o \in Owners, Get(o) PROVE PortInv'
  BY <1>8 DEF Get, Goto
<1>9. ASSUME NEW o \in Owners, Copy(o) PROVE PortInv'
  BY <1>9 DEF Copy, Goto
<1>10. ASSUME NEW o \in Owners, FailDownload(o) PROVE PortInv'
  BY <1>10 DEF FailDownload, Goto
<1>11. ASSUME NEW o \in Owners, GiveUp(o) PROVE PortInv'
  BY <1>11 DEF GiveUp, Goto
<1>12. ASSUME NEW o \in Owners, ContextEnds(o) PROVE PortInv'
  BY <1>12 DEF ContextEnds
<1>13. ASSUME NEW o \in Owners, CallClose(o) PROVE PortInv'
  BY <1>13 DEF CallClose
<1>14. ASSUME NEW o \in Owners, CancelChild(o) PROVE PortInv'
  BY <1>14 DEF CancelChild
<1>15. ASSUME NEW o \in Owners, TakeDone(o) PROVE PortInv'
  BY <1>15 DEF TakeDone
<1>16. ASSUME NEW o \in Owners, CloseReturns(o) PROVE PortInv'
  BY <1>16 DEF CloseReturns, Returns
<1>17. ASSUME NEW o \in Owners, Listen(o) PROVE PortInv'
  BY <1>17 DEF Listen
<1>18. ASSUME NEW o \in Owners, Die(o) PROVE PortInv'
  BY <1>18 DEF Die
<1>19. ASSUME NEW o \in Owners, Reap(o) PROVE PortInv'
  BY <1>19 DEF Reap
<1>20. ASSUME NEW o \in Owners, OwnerDies(o) PROVE PortInv'
  BY <1>20 DEF OwnerDies, Fresh, Goto
<1>21. CASE StrayStep
  BY <1>21 DEF StrayStep
<1>22. CASE UNCHANGED vars
  BY <1>22 DEF vars
<1> QED
  BY <1>1, <1>2, <1>3, <1>4, <1>5, <1>6, <1>7, <1>8, <1>9, <1>10, <1>11, <1>12,
     <1>13, <1>14, <1>15, <1>16, <1>17, <1>18, <1>19, <1>20, <1>21, <1>22
     DEF Next, StartStep, CloseStep

\* An unshared port is answered by the owner's own child.
LEMMA OwnStep ==
  TypeOK /\ OwnerInv /\ PortInv /\ OwnServer /\ [Next]_vars => OwnServer'
<1> SUFFICES ASSUME TypeOK, OwnerInv, PortInv, OwnServer, [Next]_vars
             PROVE  OwnServer'
  OBVIOUS
<1> USE DEF TypeOK, OwnerInv, OwnServer, Before, Unclosed, Getting, Running,
            process, closing
<1>1. ASSUME NEW o \in Owners, Begin(o) PROVE OwnServer'
  BY <1>1 DEF Begin, Fresh, Goto
<1>2. ASSUME NEW o \in Owners, Stat(o) PROVE OwnServer'
  BY <1>2 DEF Stat, Goto
<1>3. ASSUME NEW o \in Owners, Rename(o) PROVE OwnServer'
  BY <1>3 DEF Rename, Goto
<1>4. ASSUME NEW o \in Owners, Launch(o) PROVE OwnServer'
  BY <1>4 DEF Launch, Goto
<1>5. ASSUME NEW o \in Owners, Dial(o) PROVE OwnServer'
  BY <1>5 DEF Dial, Goto, Answered, PortInv, After
<1>6. ASSUME NEW o \in Owners, Retry(o) PROVE OwnServer'
  BY <1>6 DEF Retry, Goto
<1>7. ASSUME NEW o \in Owners, Build(o) PROVE OwnServer'
  BY <1>7 DEF Build, Goto
<1>8. ASSUME NEW o \in Owners, Get(o) PROVE OwnServer'
  BY <1>8 DEF Get, Goto
<1>9. ASSUME NEW o \in Owners, Copy(o) PROVE OwnServer'
  BY <1>9 DEF Copy, Goto
<1>10. ASSUME NEW o \in Owners, FailDownload(o) PROVE OwnServer'
  BY <1>10 DEF FailDownload, Goto
<1>11. ASSUME NEW o \in Owners, GiveUp(o) PROVE OwnServer'
  BY <1>11 DEF GiveUp, Goto
<1>12. ASSUME NEW o \in Owners, ContextEnds(o) PROVE OwnServer'
  BY <1>12 DEF ContextEnds
<1>13. ASSUME NEW o \in Owners, CallClose(o) PROVE OwnServer'
  BY <1>13 DEF CallClose
<1>14. ASSUME NEW o \in Owners, CancelChild(o) PROVE OwnServer'
  BY <1>14 DEF CancelChild
<1>15. ASSUME NEW o \in Owners, TakeDone(o) PROVE OwnServer'
  BY <1>15 DEF TakeDone
<1>16. ASSUME NEW o \in Owners, CloseReturns(o) PROVE OwnServer'
  BY <1>16 DEF CloseReturns, Returns
<1>17. ASSUME NEW o \in Owners, Listen(o) PROVE OwnServer'
  BY <1>17 DEF Listen
<1>18. ASSUME NEW o \in Owners, Die(o) PROVE OwnServer'
  BY <1>18 DEF Die
<1>19. ASSUME NEW o \in Owners, Reap(o) PROVE OwnServer'
  BY <1>19 DEF Reap
<1>20. ASSUME NEW o \in Owners, OwnerDies(o) PROVE OwnServer'
  BY <1>20 DEF OwnerDies, Fresh, Goto
<1>21. CASE StrayStep
  BY <1>21 DEF StrayStep
<1>22. CASE UNCHANGED vars
  BY <1>22 DEF vars
<1> QED
  BY <1>1, <1>2, <1>3, <1>4, <1>5, <1>6, <1>7, <1>8, <1>9, <1>10, <1>11, <1>12,
     <1>13, <1>14, <1>15, <1>16, <1>17, <1>18, <1>19, <1>20, <1>21, <1>22
     DEF Next, StartStep, CloseStep

---------------------------------------------------------------------------

\* The invariant is one of the specification.
LEMMA Invariant == Spec => []IInv
<1>1. IInv /\ [Next]_vars => IInv'
  BY TypeStep, OwnerStep, NoChildStep, PortStep, OwnStep DEF IInv
<1> QED BY IInvInit, <1>1, PTL DEF Spec

\* For any number of owners, states are well typed, and the model file is never
\* half written.
THEOREM LlamaTypeCorrect == Spec => []TypeOK
<1>1. IInv => TypeOK
  BY DEF IInv
<1> QED BY Invariant, <1>1, PTL

\* However many call Close, and wherever a start fails, no child is left behind.
THEOREM NeverAChildLeft == Spec => []NoChildLeft
<1>1. IInv => NoChildLeft
  BY DEF IInv
<1> QED BY Invariant, <1>1, PTL

\* As long as a port is not shared, an embedder that is up talks to the child it
\* has started, until that one ends.
THEOREM AlwaysOwnServer == Spec => []OwnServer
<1>1. IInv => OwnServer
  BY DEF IInv
<1> QED BY Invariant, <1>1, PTL

=============================================================================
