--------------------------- MODULE OtbrWifiProofs ---------------------------
(***************************************************************************)
(* The stored credentials belong together as long as no task touches them   *)
(* in the middle of another's copy, read or save; and in a careful          *)
(* environment the access point that worked last is the one of the next     *)
(* start.                                                                   *)
(***************************************************************************)
EXTENDS OtbrWifi, SequenceTheorems, TLAPS

(***************************************************************************)
(* The calls of each task.                                                 *)
(***************************************************************************)

CliCalls == {"idle", "ask", "ssid", "pwd", "load1", "load2", "over1", "over2", "store1", "store2"}
OtCalls == {"idle", "load1", "load2", "check", "mark", "ask", "clear"}
NetCalls == {"idle", "store1", "store2", "mark"}
PcType == /\ pc \in [Tasks -> CliCalls \cup OtCalls \cup NetCalls]
          /\ pc["cli"] \in CliCalls /\ pc["ot"] \in OtCalls /\ pc["net"] \in NetCalls

\* A task goes on with a call of its own.
LEMMA GoesOn ==
  ASSUME PcType, NEW t \in Tasks, NEW l, Goes(t, l),
         l \in (IF t = "cli" THEN CliCalls ELSE IF t = "ot" THEN OtCalls ELSE NetCalls)
  PROVE  PcType' /\ pc'[t] = l /\ \A u \in Tasks \ {t} : pc'[u] = pc[u]
BY DEF PcType, Goes, Tasks, CliCalls, OtCalls, NetCalls

\* Nothing runs before the first command.
LEMMA InitPc == Init => PcType
BY DEF Init, PcType, Tasks, CliCalls, OtCalls, NetCalls

\* Every step leaves each task at one of its calls.
LEMMA NextPc == PcType /\ [Next]_vars => PcType'
<1> SUFFICES ASSUME PcType, [Next]_vars PROVE PcType'
  OBVIOUS
<1> USE DEF At
<1>1. ASSUME NEW l \in {"idle", "ask", "load1", "over1"}, Clears(l) PROVE PcType'
  BY <1>1, GoesOn DEF Clears, Tasks, CliCalls
<1>2. CASE User
  <2>1. ASSUME pc' = pc PROVE PcType'
    BY <2>1 DEF PcType
  <2> QED
    BY <1>1, <1>2, <2>1 DEF User, CmdConnect, CmdConfigShow, CmdConfigSet, CmdRefused, CmdDisconnect, task
<1>3. CASE Command
  BY <1>3, GoesOn DEF Command, ConnectAsk, CopySsid, CopyPwd, OverSsid, OverPwd, Tasks, CliCalls
<1>4. CASE Callback
  <2>1. ASSUME pc' = pc PROVE PcType'
    BY <2>1 DEF PcType
  <2>2. CASE OnGotIp
    BY <2>2, GoesOn DEF OnGotIp, Tasks, NetCalls
  <2> QED BY <1>4, <2>1, <2>2 DEF Callback, OnConnected, OnDisconnect, task
<1>5. CASE OpenThread
  BY <1>5, GoesOn DEF OpenThread, Reconnect, Check, ReconnectAsk, Clear, Tasks, OtCalls
<1>6. ASSUME NEW t \in Tasks, Settings(t) PROVE PcType'
  <2>1. LoadSsid(t) => t \in {"cli", "ot"}
    BY DEF LoadSsid, PcType, NetCalls, Tasks
  <2>2. LoadPwd(t) => t \in {"cli", "ot"}
    BY DEF LoadPwd, PcType, NetCalls, Tasks
  <2>3. StoreSsid(t) => t \in {"cli", "net"}
    BY DEF StoreSsid, PcType, OtCalls, Tasks
  <2>4. StorePwd(t) => t \in {"cli", "net"}
    BY DEF StorePwd, PcType, OtCalls, Tasks
  <2>5. Mark(t) => t \in {"ot", "net"}
    BY DEF Mark, PcType, CliCalls, Tasks
  <2>6. CASE LoadSsid(t)
    BY <2>1, <2>6, GoesOn DEF LoadSsid, CliCalls, OtCalls
  <2>7. CASE LoadPwd(t)
    BY <2>2, <2>7, GoesOn DEF LoadPwd, CliCalls, OtCalls
  <2>8. CASE StoreSsid(t)
    BY <2>3, <2>8, GoesOn DEF StoreSsid, CliCalls, NetCalls
  <2>9. CASE StorePwd(t)
    BY <2>4, <2>9, GoesOn DEF StorePwd, CliCalls, NetCalls
  <2>10. CASE Mark(t)
    BY <2>5, <2>10, GoesOn DEF Mark, OtCalls, NetCalls
  <2> QED BY <1>6, <2>6, <2>7, <2>8, <2>9, <2>10 DEF Settings
<1>7. CASE Associate \/ Address \/ Lose
  BY <1>7 DEF Associate, Address, Lose, task, PcType
<1>8. CASE PowerCycle
  BY <1>8 DEF PowerCycle, PowerOn, PcType, Tasks, CliCalls, OtCalls, NetCalls
<1>9. CASE UNCHANGED vars
  BY <1>9 DEF vars, task, PcType
<1> QED
  BY <1>2, <1>3, <1>4, <1>5, <1>6, <1>7, <1>8, <1>9 DEF Next

(***************************************************************************)
(* What is stored belongs together.                                        *)
(***************************************************************************)

Known(c) == c \in Pairs \cup {Nothing}
Unset == <<Absent, Absent>>
FlashKnown == flash = Unset \/ Known(flash)
Together == Known(info) /\ FlashKnown

\* What the task in the middle of its two halves relies on.
Halfway(u) ==
  /\ At(u, "pwd") => info = <<arg[1], info[2]>> /\ FlashKnown
  /\ At(u, "load2") => \/ flash = Unset /\ Known(info)
                       \/ Known(flash) /\ info = <<flash[1], info[2]>>
  /\ At(u, "over1") => info = Nothing /\ FlashKnown
  /\ At(u, "over2") => info = <<arg[1], "">> /\ FlashKnown
  /\ At(u, "store2") => Known(info) /\ flash = <<info[1], flash[2]>>

\* At most one task is between its halves; when none is, RAM and flash hold known pairs.
Steady == /\ \A t, u \in Tasks : Between(t) /\ Between(u) => t = u
          /\ (\A u \in Tasks : ~Between(u)) => Together
          /\ \A u \in Tasks : Halfway(u)

HasArg == pc["cli"] \in {"ask", "ssid", "pwd", "over1", "over2"} => arg \in Pairs

IInv == PcType /\ HasArg /\ torn \in Nat /\ (torn = 0 /\ ~raced => Steady)

\* A known pair is a pair of two halves, neither of them missing.
LEMMA KnownShape ==
  ASSUME NEW c, Known(c)
  PROVE  c = <<c[1], c[2]>> /\ c[1] # Absent /\ c[2] # Absent
<1>1. CASE c = Nothing
  <2>1. Absent # ""
    BY DEF Absent
  <2> QED BY <1>1, <2>1 DEF Nothing
<1>2. CASE c \in Ssids \X Pwds
  <2>1. c[1] \in Ssids /\ c[2] \in Pwds /\ c = <<c[1], c[2]>>
    BY <1>2
  <2>2. Absent \notin Ssids /\ Absent \notin Pwds
    BY StringAssumption
  <2> QED BY <2>1, <2>2
<1> QED BY <1>1, <1>2, PairsAssumption DEF Known

\* While no task is between its two writes, what a start would read is known.
LEMMA StoredKnown ==
  ASSUME Steady, ~MidSave
  PROVE  FlashKnown /\ Known(Stored) /\ (Known(flash) => Stored = flash)
<1>1. FlashKnown
  <2>1. CASE \A u \in Tasks : ~Between(u)
    BY <2>1 DEF Steady, Together
  <2>2. ASSUME NEW u \in Tasks, Between(u) PROVE FlashKnown
    BY <2>2 DEF Steady, Halfway, Between, MidSave, FlashKnown, At
  <2> QED BY <2>1, <2>2
<1>2. Known(flash) => Stored = flash
  BY KnownShape DEF Stored, Half
<1>3. flash = Unset => Stored = Nothing
  BY DEF Stored, Half, Unset, Nothing
<1> QED BY <1>1, <1>2, <1>3 DEF FlashKnown, Known

\* A task that touches the credentials without a race finds no other between its halves.
LEMMA Untouched ==
  ASSUME Steady, NEW t \in Tasks, Touches(t), ~raced'
  PROVE  /\ ~raced /\ \A u \in Tasks \ {t} : ~Between(u)
         /\ ~Between(t) => Together
         /\ Halfway(t)
BY DEF Steady, Touches

\* It then leaves known pairs, or what it relies on for its second half.
LEMMA LeavesSteady ==
  ASSUME PcType, NEW t \in Tasks, NEW l, Goes(t, l), \A u \in Tasks \ {t} : ~Between(u),
         Halfway(t)', ~Between(t)' => Together'
  PROVE  Steady'
<1>1. \A u \in Tasks \ {t} : pc'[u] = pc[u]
  BY DEF Goes, PcType
<1>2. ASSUME NEW u \in Tasks \ {t} PROVE ~Between(u)' /\ Halfway(u)'
  BY <1>1, <1>2 DEF Between, Halfway, At
<1> QED BY <1>2 DEF Steady

\* A step that leaves the credentials alone, outside the two halves.
LEMMA LeavesAlone ==
  ASSUME PcType, Steady, UNCHANGED <<info, flash, arg>>, NEW t \in Tasks, NEW l, Goes(t, l),
         ~Between(t), l \notin {"pwd", "load2", "store2", "over1", "over2"}
  PROVE  Steady'
<1>1. pc'[t] = l /\ \A u \in Tasks \ {t} : pc'[u] = pc[u]
  BY DEF Goes, PcType
<1>2. \A u \in Tasks : Between(u)' <=> Between(u)
  BY <1>1 DEF Between
<1>3. Together => Together'
  BY DEF Together, FlashKnown, Known
<1>4. ASSUME NEW u \in Tasks PROVE Halfway(u)'
  <2>1. CASE u = t
    BY <1>1, <2>1 DEF Halfway, At
  <2>2. CASE u # t
    BY <1>1, <2>2 DEF Steady, Halfway, At, FlashKnown, Known
  <2> QED BY <2>1, <2>2
<1> QED BY <1>2, <1>3, <1>4 DEF Steady

\* A router that was never used holds nothing.
LEMMA InitInv == Init => IInv
<1> SUFFICES ASSUME Init PROVE IInv
  OBVIOUS
<1>1. PcType
  BY InitPc
<1>2. \A u \in Tasks : pc[u] = "idle"
  BY DEF Init
<1>3. Steady
  BY <1>2 DEF Init, Steady, Between, Halfway, At, Together, FlashKnown, Known, Unset
<1> QED BY <1>1, <1>2, <1>3 DEF Init, IInv, HasArg, Tasks

\* Every step preserves the invariant.
LEMMA NextInv == IInv /\ [Next]_vars => IInv'
<1> SUFFICES ASSUME IInv, [Next]_vars PROVE IInv'
  OBVIOUS
<1> USE DEF At
<1>0. PcType /\ PcType'
  BY NextPc DEF IInv
<1>a. pc \in [Tasks -> CliCalls \cup OtCalls \cup NetCalls] /\ "cli" \in Tasks /\ "ot" \in Tasks /\ "net" \in Tasks
  BY <1>0 DEF PcType, Tasks
<1>b. ASSUME torn' \in Nat, HasArg', torn' = 0 /\ ~raced' => torn = 0 /\ (Steady => Steady'), raced => raced'
      PROVE  IInv'
  BY <1>0, <1>b DEF IInv
\* The memset of a command.
<1>1. ASSUME NEW l \in {"idle", "ask", "load1", "over1"}, Clears(l), l \in {"ask", "over1"} => arg' \in Pairs
      PROVE  IInv'
  <2>1. /\ pc["cli"] = "idle" /\ info' = Nothing /\ flash' = flash /\ torn' = torn
        /\ Goes("cli", l) /\ pc'["cli"] = l /\ Touches("cli")
    BY <1>1, <1>a DEF Clears, Types, Goes
  <2>2. ASSUME Steady, ~raced' PROVE Steady'
    <3>1. Together /\ \A u \in Tasks \ {"cli"} : ~Between(u)
      BY <2>1, <2>2, <1>a, Untouched DEF Between
    <3>2. Together'
      BY <2>1, <3>1 DEF Together, FlashKnown, Known
    <3>3. Halfway("cli")'
      BY <2>1, <3>2 DEF Halfway, Together
    <3> QED BY <1>0, <1>a, <2>1, <3>1, <3>2, <3>3, LeavesSteady
  <2>3. HasArg'
    BY <1>1, <2>1 DEF HasArg
  <2> QED BY <1>b, <2>1, <2>2, <2>3 DEF IInv, Touches
<1>2. CASE User
  <2>1. ASSUME CmdDisconnect PROVE IInv'
    BY <2>1, <1>0 DEF CmdDisconnect, Types, task, ram, races, IInv, Steady, Between, Halfway, Together,
       FlashKnown, Known, HasArg
  <2> QED
    BY <1>1, <1>2, <2>1 DEF User, CmdConnect, CmdConfigShow, CmdConfigSet, CmdRefused
\* A step of task t that touches the credentials.
<1>3. ASSUME NEW t \in Tasks, NEW l, Goes(t, l), Touches(t), UNCHANGED bounds,
             t = "cli" => l \in {"pwd", "load2", "over2", "store1", "store2", "idle"},
             t = "cli" /\ l \in {"pwd", "over2"} => arg \in Pairs /\ arg' = arg, t # "cli" => arg' = arg,
             ASSUME torn = 0, Steady, ~raced, Halfway(t), ~Between(t) => Together
             PROVE  Halfway(t)' /\ (~Between(t)' => Together')
      PROVE  IInv'
  <2>1. torn' = torn /\ pc'[t] = l /\ \A u \in Tasks \ {t} : pc'[u] = pc[u]
    BY <1>3, <1>a DEF bounds, Goes
  <2>2. ASSUME Steady, torn = 0, ~raced' PROVE Steady'
    <3>1. /\ ~raced /\ \A u \in Tasks \ {t} : ~Between(u)
          /\ ~Between(t) => Together
          /\ Halfway(t)
      BY <1>3, <2>2, Untouched
    <3>2. Halfway(t)' /\ (~Between(t)' => Together')
      BY <1>3, <2>2, <3>1
    <3> QED BY <1>0, <1>3, <3>1, <3>2, LeavesSteady
  <2>3. HasArg'
    BY <1>3, <1>a, <2>1 DEF HasArg, IInv
  <2> QED BY <1>0, <1>3, <2>1, <2>2, <2>3 DEF IInv, Touches
\* A step of task t that leaves them alone.
<1>4. ASSUME NEW t \in Tasks, NEW l, Goes(t, l), TouchesNot, UNCHANGED <<info, flash, arg, bounds>>,
             ~Between(t), l \notin {"pwd", "load2", "store2", "over1", "over2", "ask"},
             t = "cli" => pc["cli"] \in {"ask", "ssid", "pwd", "over1", "over2"} \/ l # "ssid"
      PROVE  IInv'
  <2>1. torn' = torn /\ pc'[t] = l /\ \A u \in Tasks \ {t} : pc'[u] = pc[u]
    BY <1>4, <1>a DEF bounds, Goes
  <2>2. Steady => Steady'
    BY <1>0, <1>4, LeavesAlone
  <2>3. HasArg'
    BY <1>4, <1>a, <2>1 DEF HasArg, IInv
  <2> QED BY <1>0, <1>4, <2>1, <2>2, <2>3 DEF IInv, TouchesNot
<1>5. CASE ConnectAsk
  BY <1>4, <1>5, <1>a DEF ConnectAsk, Between, ram
<1>6. CASE CopySsid
  <2>1. ASSUME Steady, ~Between("cli") => Together PROVE Halfway("cli")' /\ Between("cli")'
    <3>1. Together
      BY <1>6, <2>1 DEF CopySsid, Between
    <3> QED BY <1>6, <1>a, <3>1 DEF CopySsid, Goes, Halfway, Between, Together, FlashKnown, Known
  <2>2. arg \in Pairs
    BY <1>6 DEF CopySsid, IInv, HasArg
  <2> QED BY <1>3, <1>6, <1>a, <2>1, <2>2 DEF CopySsid
<1>7. CASE CopyPwd
  <2>1. arg \in Pairs
    BY <1>7 DEF CopyPwd, IInv, HasArg
  <2>2. ASSUME Halfway("cli") PROVE Halfway("cli")' /\ Together'
    <3>1. info' = arg /\ FlashKnown
      <4>1. arg = <<arg[1], arg[2]>>
        BY <2>1, KnownShape DEF Known
      <4>2. info[1] = arg[1] /\ FlashKnown
        BY <1>7, <2>2 DEF CopyPwd, Halfway
      <4> QED BY <1>7, <4>1, <4>2 DEF CopyPwd
    <3> QED BY <1>7, <1>a, <2>1, <3>1 DEF CopyPwd, Goes, Halfway, Together, FlashKnown, Known
  <2> QED BY <1>3, <1>7, <1>a, <2>2 DEF CopyPwd
<1>8. CASE OverSsid
  <2>1. arg \in Pairs
    BY <1>8 DEF OverSsid, IInv, HasArg
  <2>2. ASSUME Halfway("cli") PROVE Halfway("cli")' /\ Between("cli")'
    <3>0. info = Nothing /\ FlashKnown
      BY <1>8, <2>2 DEF OverSsid, Halfway
    <3>1. info[1] = "" /\ info[2] = ""
      BY <3>0 DEF Nothing
    <3>2. info' = <<arg[1], "">>
      BY <1>8, <3>1 DEF OverSsid, Over
    <3> QED BY <1>8, <1>a, <3>0, <3>2 DEF OverSsid, Goes, Halfway, Between, FlashKnown, Known
  <2> QED BY <1>3, <1>8, <1>a, <2>1, <2>2 DEF OverSsid
<1>9. CASE OverPwd
  <2>1. arg \in Pairs
    BY <1>9 DEF OverPwd, IInv, HasArg
  <2>2. ASSUME Halfway("cli") PROVE Halfway("cli")' /\ Together'
    <3>1. info' = arg /\ FlashKnown
      <4>1. arg = <<arg[1], arg[2]>>
        BY <2>1, KnownShape DEF Known
      <4>0. info = <<arg[1], "">> /\ FlashKnown
        BY <1>9, <2>2 DEF OverPwd, Halfway
      <4>2. info[1] = arg[1] /\ info[2] = ""
        BY <4>0
      <4>3. info' = <<arg[1], arg[2]>>
        BY <1>9, <4>2 DEF OverPwd, Over
      <4> QED BY <4>0, <4>1, <4>3
    <3> QED BY <1>9, <1>a, <2>1, <3>1 DEF OverPwd, Goes, Halfway, Together, FlashKnown, Known
  <2> QED BY <1>3, <1>9, <1>a, <2>2 DEF OverPwd
<1>10. ASSUME NEW t \in Tasks, LoadSsid(t) PROVE IInv'
  <2>1. pc'[t] = "load2"
    BY <1>10, <1>a DEF LoadSsid, Goes
  <2>2. ASSUME Together PROVE Halfway(t)' /\ Between(t)'
    <3>1. Known(flash) => info' = <<flash[1], info'[2]>> /\ flash' = flash
      BY <1>10, KnownShape DEF LoadSsid, Load
    <3>2. flash = Unset => info' = info /\ flash' = flash
      BY <1>10, <2>2, KnownShape DEF LoadSsid, Load, Unset, Together
    <3> QED BY <2>1, <2>2, <3>1, <3>2 DEF Halfway, Between, Together, FlashKnown, Known
  <2>3. t # "net"
    BY <1>10, <1>0 DEF LoadSsid, PcType, NetCalls
  <2> QED BY <1>3, <1>10, <2>1, <2>2 DEF LoadSsid, Between
<1>11. ASSUME NEW t \in Tasks, LoadPwd(t) PROVE IInv'
  <2> DEFINE l == IF t = "ot" THEN "check" ELSE "idle"
  <2>1. pc'[t] = l
    BY <1>11, <1>a DEF LoadPwd, Goes
  <2>2. ASSUME Halfway(t) PROVE Halfway(t)' /\ Together'
    <3>1. Known(flash) => info' = flash /\ flash' = flash
      BY <1>11, <2>2, KnownShape DEF LoadPwd, Load, Halfway, Unset
    <3>2. flash = Unset => info' = info /\ Known(info) /\ flash' = flash
      BY <1>11, <2>2, KnownShape DEF LoadPwd, Load, Unset, Halfway
    <3>3. FlashKnown
      BY <1>11, <2>2 DEF LoadPwd, Halfway, FlashKnown
    <3> QED BY <2>1, <3>1, <3>2, <3>3 DEF Halfway, Together, FlashKnown, Known
  <2> QED BY <1>3, <1>11, <2>1, <2>2 DEF LoadPwd
<1>12. ASSUME NEW t \in Tasks, StoreSsid(t) PROVE IInv'
  <2>1. pc'[t] = "store2"
    BY <1>12, <1>a DEF StoreSsid, Goes
  <2>2. ASSUME Together PROVE Halfway(t)' /\ Between(t)'
    BY <1>12, <2>1, <2>2 DEF StoreSsid, ram, Halfway, Between, Together, Known
  <2>3. pc[t] = "store1"
    BY <1>12 DEF StoreSsid
  <2> QED BY <1>3, <1>12, <2>1, <2>2, <2>3 DEF StoreSsid, ram, Between
<1>13. ASSUME NEW t \in Tasks, StorePwd(t) PROVE IInv'
  <2> DEFINE l == IF t = "net" THEN "mark" ELSE "idle"
  <2>1. pc'[t] = l
    BY <1>13, <1>a DEF StorePwd, Goes
  <2>2. ASSUME Halfway(t) PROVE Halfway(t)' /\ Together'
    <3>1. flash' = info /\ info' = info /\ Known(info)
      <4>1. Known(info) /\ flash' = <<info[1], info[2]>> /\ info' = info
        BY <1>13, <2>2 DEF StorePwd, Halfway, ram
      <4> QED BY <4>1, KnownShape
    <3> QED BY <2>1, <3>1 DEF Halfway, Together, FlashKnown, Known
  <2> QED BY <1>3, <1>13, <2>1, <2>2 DEF StorePwd, ram
<1>14. ASSUME NEW t \in Tasks, Mark(t) PROVE IInv'
  <2>1. t # "cli"
    BY <1>14, <1>0 DEF Mark, PcType, CliCalls
  <2>2. CASE t = "ot"
    \* The next call asks the radio for the access point.
    <3>1. Goes("ot", "ask") /\ pc["ot"] = "mark" /\ pc' = [pc EXCEPT !["ot"] = "ask"]
          /\ UNCHANGED <<info, flash, arg, bounds>> /\ TouchesNot
      BY <1>14, <2>2 DEF Mark, Goes
    <3>2. Steady => Steady'
      BY <1>0, <1>a, <3>1, LeavesAlone DEF Between
    <3> QED BY <1>a, <1>b, <3>1, <3>2 DEF IInv, HasArg, TouchesNot, bounds
  <2>3. CASE t = "net"
    BY <1>4, <1>14, <2>3 DEF Mark, Between
  <2> QED BY <2>1, <2>2, <2>3 DEF Tasks
<1>15. CASE Reconnect
  <2>1. pc'["ot"] = "load1" /\ pc["ot"] = "idle"
    BY <1>15, <1>a DEF Reconnect, Goes
  <2>2. ASSUME Together PROVE Halfway("ot")' /\ Together'
    BY <1>15, <2>1, <2>2 DEF Reconnect, Halfway, Together, FlashKnown, Known
  <2> QED BY <1>3, <1>15, <1>a, <2>1, <2>2 DEF Reconnect, Between
<1>16. CASE Check
  <2>1. Goes("ot", "mark") \/ Goes("ot", "clear")
    BY <1>16 DEF Check
  <2> QED BY <1>4, <1>16, <1>a, <2>1 DEF Check, Between, ram
<1>17. CASE ReconnectAsk
  BY <1>4, <1>17, <1>a DEF ReconnectAsk, Between, ram
<1>18. CASE Clear
  <2>1. pc'["ot"] = "idle" /\ pc["ot"] = "clear"
    BY <1>18, <1>a DEF Clear, Goes
  <2>2. ASSUME Together PROVE Halfway("ot")' /\ Together'
    BY <1>18, <2>1, <2>2 DEF Clear, Halfway, Together, FlashKnown, Known
  <2> QED BY <1>3, <1>18, <1>a, <2>1, <2>2 DEF Clear, Between
<1>19. CASE OnGotIp
  <2>1. Goes("net", "idle") \/ Goes("net", "store1")
    BY <1>19 DEF OnGotIp
  <2> QED BY <1>4, <1>19, <1>a, <2>1 DEF OnGotIp, Takes, Between, ram
<1>20. ASSUME UNCHANGED <<pc, arg, info, flash, torn, raced>> PROVE IInv'
  BY <1>20, <1>0 DEF IInv, Steady, Between, Halfway, Together, FlashKnown, Known, HasArg
<1>21. CASE OnConnected \/ OnDisconnect \/ Associate \/ Address \/ Lose \/ UNCHANGED vars
  BY <1>20, <1>21 DEF OnConnected, OnDisconnect, Associate, Address, Lose, vars, ram, task, bounds, races
<1>22. CASE PowerCycle
  \* A cut between the two writes mixes two networks, and torn says so.
  <2>1. /\ torn' \in Nat /\ (torn' = 0 => torn = 0 /\ ~MidSave) /\ raced' = raced /\ flash' = flash
        /\ pc' = [t \in Tasks |-> "idle"] /\ (info' = Stored \/ info' = Nothing)
    BY <1>22 DEF PowerCycle, PowerOn, IInv
  <2>2. ASSUME Steady, torn' = 0 PROVE Steady'
    <3>1. FlashKnown /\ Known(Stored)
      BY <2>1, <2>2, StoredKnown
    <3>2. Together'
      BY <2>1, <3>1 DEF Together, FlashKnown, Known
    <3>3. \A u \in Tasks : pc'[u] = "idle"
      BY <2>1
    <3> QED BY <3>2, <3>3 DEF Steady, Between, Halfway
  <2>3. HasArg'
    BY <2>1, <1>a DEF HasArg
  <2> QED BY <1>b, <2>1, <2>2, <2>3
<1> QED
  BY <1>2, <1>5, <1>6, <1>7, <1>8, <1>9, <1>10, <1>11, <1>12, <1>13, <1>14, <1>15, <1>16, <1>17,
     <1>18, <1>19, <1>21, <1>22 DEF Next, Command, Settings, Callback, OpenThread

\* What wifi_lwip_connect_saved_ssid finds in flash belongs together, whatever the order of
\* commands, events, reconnections and power cycles, unless a task touched the credentials
\* in the middle of another's copy, read or save, or power was cut between two writes.
THEOREM KeepsPairs == Spec => []PairsKept
<1>1. IInv => PairsKept
  BY StoredKnown DEF IInv, PairsKept, Known
<1> QED BY <1>1, InitInv, NextInv, PTL DEF Spec

(***************************************************************************)
(* A careful environment: the access point that worked last is stored.     *)
(***************************************************************************)

Idle(t) == At(t, "idle")

\* An access point has a name, and no half of it is missing.
Real(c) == c = <<c[1], c[2]>> /\ c[1] # Absent /\ c[2] # Absent
Named(c) == Real(c) /\ c[1] # ""

\* What the next address of the link asked for would store belongs to that link.
Matching == IF saved THEN flash = asked ELSE info = asked

\* The tasks take turns, and each finds the queue empty but the callback.
Turns == /\ \A t, u \in Tasks : ~Idle(t) /\ ~Idle(u) => t = u
         /\ reconnect => \A t \in Tasks : Idle(t)
         /\ reconnect \/ ~Idle("cli") \/ ~Idle("ot") => events = <<>>
         /\ reconnect \/ ~Idle("ot") => link = "off"

\* That the link was lost is the last report of it, and a link has a name.
Reports == {"connected", "disconnect", "gotip"}
Lost(report) == report = "disconnect"
LostLast(q, down) == \A i \in 1..Len(q) : Lost(q[i]) => i = Len(q) /\ down
Links == {"off", "connecting", "up"}
InOrder == /\ events \in Seq(Reports) /\ link \in Links
           /\ LostLast(events, link = "off" /\ ~reconnect)
           /\ link # "off" \/ events # <<>> \/ ~Idle("net") => Named(asked)

\* What a command has done so far.
Commanded ==
  /\ pc["cli"] \in {"ask", "ssid", "pwd", "over1", "over2"} => arg \in Pairs
  /\ pc["cli"] \in {"ask", "ssid", "pwd", "load1", "load2"} => ~saved
  /\ pc["cli"] \in {"ssid", "pwd"} => link = "connecting" /\ asked = arg
  /\ At("cli", "pwd") => info[1] = arg[1]
  /\ pc["cli"] \in {"load1", "load2"} =>
        link # "connecting" /\ (link = "up" => lastGood = asked)
  /\ At("cli", "load2") /\ link = "up" => info[1] = asked[1]
  /\ pc["cli"] \in {"over1", "over2", "store1", "store2"} => link = "off" /\ lastGood = Nothing

\* What a reconnection has done so far.
Reconnected ==
  /\ At("ot", "load1") => info = Nothing
  /\ At("ot", "load2") => info = <<Half(1), "">>
  /\ pc["ot"] \in {"check", "mark", "ask"} => info = Stored
  /\ pc["ot"] \in {"mark", "ask"} => Usable(info)
  /\ At("ot", "ask") => saved

\* What a save has done so far.
SavedSoFar ==
  /\ ~Idle("net") => ~saved /\ lastGood = asked
  /\ At("net", "store2") => flash[1] = asked[1]
  /\ At("net", "mark") => flash = asked

\* What is stored is what worked last.
KeepsGood == Idle("net") => lastGood = Nothing \/ (Named(lastGood) /\ flash = lastGood)

\* Whatever an address would store matches.
Ahead == (link # "off" /\ Idle("cli")) \/ events # <<>> \/ ~Idle("net") => Matching

Settled == /\ Turns /\ InOrder /\ Commanded /\ Reconnected /\ SavedSoFar /\ KeepsGood /\ Ahead
           /\ Real(info) /\ flash = <<flash[1], flash[2]>>
Calm == PcType /\ boots \in Nat /\ (Careful => Settled)

\* What a user types has a name, and nothing has none.
LEMMA Names ==
  /\ \A c \in Pairs : Named(c) /\ c # Nothing
  /\ \A c : Usable(c) => c[1] # "" /\ c[2] # ""
  /\ Real(Nothing) /\ Nothing[1] = "" /\ Nothing[2] = "" /\ ~Named(Nothing)
<1>1. Real(Nothing) /\ Nothing[1] = "" /\ Nothing[2] = ""
  <2>1. Absent # ""
    BY DEF Absent
  <2> QED BY <2>1, Zenon DEF Real, Nothing
<1>2. ASSUME NEW c \in Pairs PROVE Named(c)
  <2>1. c[1] \in Ssids /\ c[2] \in Pwds /\ c = <<c[1], c[2]>>
    BY PairsAssumption
  <2>2. Absent \notin Ssids /\ Absent \notin Pwds /\ "" \notin Ssids
    BY StringAssumption
  <2> QED BY <2>1, <2>2 DEF Named, Real
<1>3. ASSUME NEW c, Usable(c) PROVE c[1] # "" /\ c[2] # ""
  <2>1. c[1] # "" /\ Strlen(c[2]) >= MinPwd
    BY <1>3, Zenon DEF Usable
  <2>2. ~(0 >= MinPwd)
    BY SizeAssumption
  <2>3. Strlen(c[2]) # 0
    BY <2>1, <2>2, Zenon
  <2>4. c[2] # ""
    BY <2>3, Zenon DEF Strlen
  <2> QED BY <2>1, <2>4
<1> QED BY <1>1, <1>2, <1>3 DEF Named

\* What a start finds usable is what is stored.
LEMMA StoredUsable ==
  ASSUME flash = <<flash[1], flash[2]>>
  PROVE  /\ Real(Stored) /\ Stored = <<Half(1), Half(2)>>
         /\ Usable(Stored) => Stored = flash /\ Named(flash)
         /\ Named(flash) => Stored = flash
<1>1. Stored = <<Half(1), Half(2)>> /\ Stored[1] = Half(1) /\ Stored[2] = Half(2)
  BY DEF Stored
<1>2. Absent # ""
  BY DEF Absent
<1>3. Half(1) # Absent /\ Half(2) # Absent
  BY <1>2 DEF Half
<1>4. (Half(1) # "" => Half(1) = flash[1]) /\ (Half(2) # "" => Half(2) = flash[2])
  BY DEF Half
<1>5. ASSUME Usable(Stored) PROVE Stored = flash /\ Named(flash)
  <2>1. Half(1) # "" /\ Half(2) # ""
    BY <1>1, <1>5, Names
  <2> QED BY <1>1, <1>3, <1>4, <2>1 DEF Named, Real
<1>6. Named(flash) => Stored = flash
  BY <1>1 DEF Named, Real, Half
<1> QED BY <1>1, <1>3, <1>5, <1>6 DEF Real

\* A router that was never used has stored nothing and waits for nothing.
LEMMA CalmInit == Init => Calm
<1> SUFFICES ASSUME Init PROVE Calm
  OBVIOUS
<1>1. events = <<>> /\ events \in Seq(Reports) /\ Len(events) = 0
  BY DEF Init
<1>2. \A t \in Tasks : pc[t] = "idle"
  BY DEF Init
<1>3. "cli" \in Tasks /\ "ot" \in Tasks /\ "net" \in Tasks
  BY DEF Tasks
<1>4. Turns /\ InOrder
  BY <1>1, <1>2, <1>3 DEF Init, Turns, InOrder, LostLast, Links, Idle, At
<1>5. Commanded /\ Reconnected /\ SavedSoFar /\ KeepsGood /\ Ahead
  BY <1>1, <1>2, <1>3 DEF Init, Commanded, Reconnected, SavedSoFar, KeepsGood, Ahead, Idle, At
<1>6. Real(info) /\ flash = <<flash[1], flash[2]>>
  BY Names DEF Init
<1> QED BY <1>4, <1>5, <1>6, InitPc DEF Init, Calm, Settled

\* One more report, of a link that was not lost before.
LEMMA LostAppend ==
  ASSUME NEW S, NEW q \in Seq(S), NEW e \in S, NEW down, LostLast(q, FALSE), Lost(e) => down
  PROVE  /\ Append(q, e) \in Seq(S) /\ Append(q, e) # <<>>
         /\ LostLast(Append(q, e), down)
<1> DEFINE r == Append(q, e)
<1>1. /\ r \in Seq(S) /\ r # <<>> /\ Len(r) = Len(q) + 1 /\ Len(q) \in Nat
      /\ \A i \in 1..Len(q) : r[i] = q[i]
      /\ r[Len(q) + 1] = e
  BY AppendProperties, LenProperties
<1> HIDE DEF r
<1>2. ASSUME NEW i \in 1..Len(r), Lost(r[i]) PROVE i = Len(r) /\ down
  <2>1. i \in 1..Len(q) \/ i = Len(q) + 1
    BY <1>1
  <2>2. i \notin 1..Len(q)
    BY <1>1, <1>2 DEF LostLast
  <2> QED BY <1>1, <1>2, <2>1, <2>2
<1>3. LostLast(r, down)
  BY <1>2 DEF LostLast
<1> QED BY <1>1, <1>3 DEF r

\* Taking a report: one that the link was lost leaves none.
LEMMA LostTail ==
  ASSUME NEW S, NEW q \in Seq(S), q # <<>>, NEW down, LostLast(q, down)
  PROVE  /\ Tail(q) \in Seq(S) /\ Head(q) \in S
         /\ LostLast(Tail(q), down)
         /\ Lost(Head(q)) => down /\ Tail(q) = <<>>
<1> DEFINE r == Tail(q)
<1>1. /\ r \in Seq(S) /\ Len(r) = Len(q) - 1 /\ Len(q) \in Nat /\ Len(q) > 0 /\ Len(r) \in Nat
      /\ \A i \in 1..Len(r) : r[i] = q[i + 1]
      /\ Head(q) \in S /\ Head(q) = q[1]
  BY HeadTailProperties, LenProperties, EmptySeq
<1>2. r = <<>> <=> Len(r) = 0
  BY <1>1, EmptySeq
<1> HIDE DEF r
<1>3. ASSUME NEW i \in 1..Len(r), Lost(r[i]) PROVE i = Len(r) /\ down
  <2>1. i + 1 \in 1..Len(q) /\ Lost(q[i + 1])
    BY <1>1, <1>3
  <2>2. i + 1 = Len(q) /\ down
    BY <2>1 DEF LostLast
  <2> QED BY <1>1, <2>2
<1>4. Lost(Head(q)) => Len(q) = 1 /\ down
  <2>1. 1 \in 1..Len(q)
    BY <1>1
  <2> QED BY <1>1, <2>1 DEF LostLast
<1>5. LostLast(r, down)
  BY <1>3 DEF LostLast
<1> QED BY <1>1, <1>2, <1>4, <1>5 DEF r

\* In an empty queue no loss is reported.
LEMMA NothingLost == \A down : LostLast(<<>>, down)
<1>1. Len(<<>>) = 0
  OBVIOUS
<1>2. \A i \in 1..Len(<<>>) : FALSE
  BY <1>1
<1> QED BY <1>2, Zenon DEF LostLast

\* A report of the link asked for, in the order in which the radio makes them.
LEMMA Reported ==
  ASSUME InOrder, Turns, NEW e \in Reports, events' = Append(events, e), UNCHANGED <<asked, reconnect, pc>>,
         link # "off", Lost(e) => link' = "off", link' \in Links
  PROVE  InOrder' /\ events' # <<>> /\ Named(asked)
<1>1. events \in Seq(Reports) /\ ~reconnect /\ LostLast(events, FALSE) /\ Named(asked)
  BY DEF InOrder, Turns
<1>2. Lost(e) => link' = "off" /\ ~reconnect'
  BY <1>1
<1>3. /\ Append(events, e) \in Seq(Reports) /\ Append(events, e) # <<>>
      /\ LostLast(Append(events, e), link' = "off" /\ ~reconnect')
  BY <1>1, <1>2, LostAppend
<1>4. Named(asked)'
  BY <1>1 DEF Named, Real
<1> QED BY <1>1, <1>3, <1>4 DEF InOrder

\* A report taken by the callback.
LEMMA Handled ==
  ASSUME InOrder, Turns, events # <<>>, events' = Tail(events), UNCHANGED <<asked, link>>,
         reconnect' <=> reconnect \/ Lost(Head(events))
  PROVE  /\ InOrder' /\ Named(asked) /\ ~reconnect /\ Idle("cli") /\ Idle("ot")
         /\ reconnect' => link = "off" /\ Tail(events) = <<>>
<1>1. events \in Seq(Reports) /\ LostLast(events, link = "off" /\ ~reconnect) /\ Named(asked)
  BY DEF InOrder
<1>2. /\ Tail(events) \in Seq(Reports) /\ Head(events) \in Reports
      /\ LostLast(Tail(events), link = "off" /\ ~reconnect)
      /\ Lost(Head(events)) => link = "off" /\ ~reconnect /\ Tail(events) = <<>>
  BY <1>1, LostTail
<1>3. ~reconnect /\ Idle("cli") /\ Idle("ot")
  BY DEF Turns
<1>4. LostLast(Tail(events), link' = "off" /\ ~reconnect')
  <2>1. CASE Lost(Head(events))
    <3>1. Tail(events) = <<>>
      BY <1>2, <2>1, Zenon
    <3> QED BY <3>1, NothingLost, Zenon
  <2>2. CASE ~Lost(Head(events))
    <3>1. reconnect' <=> reconnect
      BY <2>2
    <3> QED BY <1>2, <3>1 DEF LostLast
  <2> QED BY <2>1, <2>2
<1>5. Named(asked)'
  BY <1>1 DEF Named, Real
<1> QED BY <1>1, <1>2, <1>3, <1>4, <1>5 DEF InOrder

\* A step that leaves the radio, the request and the queue alone.
LEMMA RadioStill ==
  ASSUME InOrder, UNCHANGED <<radio, reconnect>>, Idle("net")' \/ Named(asked)
  PROVE  InOrder'
<1>1. UNCHANGED <<events, link, asked, reconnect>>
  BY DEF radio
<1>2. Named(asked)' <=> Named(asked)
  BY <1>1 DEF Named, Real
<1> QED BY <1>1, <1>2 DEF InOrder

\* An empty queue.
LEMMA QueueEmpty ==
  ASSUME events' = <<>>, link' \in Links, link' # "off" => Named(asked)', Idle("net")'
  PROVE  InOrder'
<1>1. events' \in Seq(Reports)
  OBVIOUS
<1>2. LostLast(events', link' = "off" /\ ~reconnect')
  BY NothingLost, Zenon
<1> QED BY <1>1, <1>2 DEF InOrder

\* One task goes on while the others wait.
LEMMA TakesTurn ==
  ASSUME PcType, NEW t \in Tasks, NEW l, Goes(t, l), \A u \in Tasks \ {t} : Idle(u)
  PROVE  /\ \A u, v \in Tasks : ~Idle(u)' /\ ~Idle(v)' => u = v
         /\ pc'[t] = l /\ \A u \in Tasks \ {t} : pc'[u] = pc[u] /\ pc'[u] = "idle"
<1>1. pc'[t] = l /\ \A u \in Tasks \ {t} : pc'[u] = pc[u] /\ pc'[u] = "idle"
  BY DEF PcType, Goes, Idle, At
<1> QED BY <1>1 DEF Idle, At

\* A step of the command line, which does its work alone: from a command that starts to
\* one that ends.
LEMMA CommandStep ==
  ASSUME PcType, Settled, Careful, NEW l \in CliCalls, Goes("cli", l),
         \A u \in Tasks \ {"cli"} : Idle(u), events = <<>>, events' = <<>>,
         ~reconnect, reconnect' = reconnect, link' \in Links, link' # "off" => Named(asked)',
         l = "idle" /\ link' # "off" => Matching', KeepsGood', Commanded',
         Real(info)', flash' = <<flash'[1], flash'[2]>>
  PROVE  Settled'
<1>1. "cli" \in Tasks /\ "ot" \in Tasks /\ "net" \in Tasks
  BY DEF Tasks
<1>2. /\ \A u, v \in Tasks : ~Idle(u)' /\ ~Idle(v)' => u = v
      /\ pc'["cli"] = l /\ \A u \in Tasks \ {"cli"} : pc'[u] = "idle"
  BY <1>1, TakesTurn
<1>3. pc'["ot"] = "idle" /\ pc'["net"] = "idle"
  BY <1>1, <1>2
<1>4. Turns'
  BY <1>2, <1>3 DEF Turns, Idle, At
<1>5. InOrder'
  BY <1>3, QueueEmpty DEF Idle, At
<1>6. Reconnected' /\ SavedSoFar'
  BY <1>3 DEF Reconnected, SavedSoFar, Idle, At
<1>7. Ahead'
  BY <1>2, <1>3 DEF Ahead, Idle, At
<1> QED BY <1>4, <1>5, <1>6, <1>7 DEF Settled

\* The memset of a command.
LEMMA ClearsCalm ==
  ASSUME PcType, Settled, Careful, NEW l \in {"ask", "load1", "over1"}, Clears(l),
         l \in {"ask", "over1"} => arg' \in Pairs,
         lastGood' = IF l = "over1" THEN Nothing ELSE lastGood,
         l = "over1" => link = "off"
  PROVE  Settled'
<1>1. /\ Quiet /\ Idle("cli") /\ UNCHANGED <<flash, reconnect, link, asked, events>>
      /\ info' = Nothing /\ ~saved' /\ Goes("cli", l)
  BY DEF Clears, Types, radio, Idle
<1>2. \A u \in Tasks \ {"cli"} : Idle(u)
  BY <1>1 DEF Quiet, Idle, Tasks
<1>3. pc'["cli"] = l /\ pc'["net"] = pc["net"]
  BY <1>1 DEF PcType, Goes, Tasks
<1>4. events = <<>> /\ ~reconnect /\ link # "connecting" /\ (link = "up" => lastGood = asked)
  BY <1>1 DEF Quiet
<1>5. Commanded'
  BY <1>1, <1>3, <1>4 DEF Commanded, At
<1>6. KeepsGood'
  BY <1>1, <1>2, <1>3 DEF Settled, KeepsGood, Idle, At, Named, Real, Tasks
<1>7. link' \in Links /\ (link' # "off" => Named(asked)')
  BY <1>1 DEF Settled, InOrder, Named, Real
<1>8. Real(info)' /\ flash' = <<flash'[1], flash'[2]>>
  BY <1>1, Names DEF Settled, Real
<1> QED BY <1>1, <1>2, <1>4, <1>5, <1>6, <1>7, <1>8, CommandStep DEF CliCalls

\* A step of a reconnection, which the OpenThread task makes alone.
LEMMA ReconnectStep ==
  ASSUME PcType, Settled, NEW l \in OtCalls, Goes("ot", l), \A u \in Tasks \ {"ot"} : Idle(u),
         events' = <<>>, ~reconnect', l # "idle" => link' = "off", link' \in Links,
         link' # "off" => Named(asked)' /\ Matching', Reconnected',
         UNCHANGED <<flash, lastGood>>, Real(info)'
  PROVE  Settled'
<1>1. "cli" \in Tasks /\ "ot" \in Tasks /\ "net" \in Tasks
  BY DEF Tasks
<1>2. /\ \A u, v \in Tasks : ~Idle(u)' /\ ~Idle(v)' => u = v
      /\ pc'["ot"] = l /\ \A u \in Tasks \ {"ot"} : pc'[u] = pc[u] /\ pc'[u] = "idle"
  BY <1>1, TakesTurn
<1>3. pc'["cli"] = "idle" /\ pc'["net"] = "idle" /\ pc["net"] = "idle"
  BY <1>1, <1>2
<1>4. Turns'
  BY <1>2, <1>3 DEF Turns, Idle, At
<1>5. InOrder'
  BY <1>3, QueueEmpty DEF Idle, At
<1>6. Commanded' /\ SavedSoFar'
  BY <1>3 DEF Commanded, SavedSoFar, Idle, At
<1>7. KeepsGood' /\ Ahead'
  BY <1>3 DEF Settled, KeepsGood, Ahead, Idle, At, Named, Real
<1> QED BY <1>4, <1>5, <1>6, <1>7 DEF Settled

\* A report of the radio about the link asked for.
LEMMA ReportStep ==
  ASSUME PcType, Settled, NEW e \in Reports, events' = Append(events, e), link # "off",
         link' \in Links, Lost(e) => link' = "off", Idle("cli"),
         UNCHANGED <<info, saved, flash, pc, arg, reconnect, asked, lastGood>>
  PROVE  Settled'
<1>1. InOrder' /\ Turns /\ Ahead /\ Matching
  BY Reported DEF Settled, Ahead
<1>2. ~reconnect /\ Idle("ot")
  BY <1>1 DEF Turns
<1>3. Turns'
  BY <1>1, <1>2 DEF Turns, Idle, At
<1>4. Commanded' /\ Reconnected'
  BY <1>2 DEF Commanded, Reconnected, Idle, At
<1>5. SavedSoFar' /\ KeepsGood' /\ Ahead'
  BY <1>1 DEF Settled, SavedSoFar, KeepsGood, Ahead, Matching, Idle, At, Named, Real
<1> QED BY <1>1, <1>3, <1>4, <1>5 DEF Settled, Real

\* A step of the callback, or of the save it makes.
LEMMA CallbackStep ==
  ASSUME PcType, Settled, NEW l \in NetCalls, pc' = [pc EXCEPT !["net"] = l],
         ~reconnect, Idle("cli"), Idle("ot"), InOrder', reconnect' => l = "idle" /\ events' = <<>> /\ link = "off",
         UNCHANGED <<info, arg, link, asked>>, SavedSoFar', KeepsGood', Matching',
         flash' = <<flash'[1], flash'[2]>>
  PROVE  Settled'
<1>1. pc'["net"] = l /\ pc'["cli"] = "idle" /\ pc'["ot"] = "idle"
  BY DEF PcType, Idle, At, Tasks
<1>2. Turns'
  BY <1>1 DEF Turns, Idle, At, Tasks
<1>3. Commanded' /\ Reconnected' /\ Ahead'
  BY <1>1 DEF Commanded, Reconnected, Ahead, Idle, At
<1> QED BY <1>2, <1>3 DEF Settled, Real

\* A step of the command line after the memset.
LEMMA CommandCalm ==
  ASSUME PcType, Settled, Careful, Command \/ Settings("cli")
  PROVE  Settled'
<1> USE DEF At, ram, radio, bounds
<1>1. /\ pc["cli"] # "idle" => /\ events = <<>> /\ ~reconnect
                               /\ \A u \in Tasks \ {"cli"} : Idle(u)
      /\ link \in Links /\ (link # "off" => Named(asked)) /\ Commanded
      /\ Real(info) /\ flash = <<flash[1], flash[2]>>
  BY DEF Settled, Turns, Idle, Tasks, InOrder
<1>2. ASSUME NEW l, Goes("cli", l) PROVE pc'["cli"] = l /\ pc'["net"] = pc["net"]
  BY <1>2 DEF PcType, Goes, Tasks
<1>3. ASSUME UNCHANGED <<flash, lastGood>>, pc'["net"] = pc["net"] PROVE KeepsGood'
  BY <1>3 DEF Settled, KeepsGood, Idle, Named, Real
<1>4. CASE ConnectAsk
  <2>1. /\ link' = "connecting" /\ asked' = arg /\ arg \in Pairs /\ ~saved /\ events' = events
        /\ Goes("cli", "ssid") /\ pc["cli"] = "ask"
        /\ UNCHANGED <<info, saved, flash, arg, reconnect, lastGood>>
    BY <1>1, <1>4 DEF ConnectAsk, Ask, Commanded
  <2>2. Named(asked)'
    BY <2>1, Names DEF Named, Real
  <2>3. Commanded'
    BY <1>2, <2>1 DEF Commanded
  <2> QED BY <1>1, <1>2, <1>3, <2>1, <2>2, <2>3, CommandStep DEF CliCalls, Links, Real
<1>5. CASE CopySsid
  <2>1. /\ pc["cli"] = "ssid" /\ Goes("cli", "pwd") /\ info' = <<arg[1], info[2]>>
        /\ link = "connecting" /\ asked = arg /\ ~saved /\ arg \in Pairs
        /\ UNCHANGED <<saved, flash, arg, reconnect, link, asked, events, lastGood>>
    BY <1>1, <1>5 DEF CopySsid, Commanded
  <2>2. Commanded'
    BY <1>2, <2>1 DEF Commanded
  <2>3. Real(info)'
    <3>1. arg[1] # Absent /\ info[2] # Absent
      BY <1>1, <2>1, Names DEF Named, Real
    <3>2. info'[1] = arg[1] /\ info'[2] = info[2] /\ info' = <<info'[1], info'[2]>>
      BY <2>1
    <3> QED BY <3>1, <3>2 DEF Real
  <2> QED BY <1>1, <1>2, <1>3, <2>1, <2>2, <2>3, CommandStep DEF CliCalls, Named, Real
<1>6. CASE CopyPwd
  <2>1. /\ pc["cli"] = "pwd" /\ Goes("cli", "idle") /\ info' = <<info[1], arg[2]>>
        /\ link = "connecting" /\ asked = arg /\ ~saved /\ arg \in Pairs /\ info[1] = arg[1]
        /\ UNCHANGED <<saved, flash, reconnect, link, asked, events, lastGood>>
    BY <1>1, <1>6 DEF CopyPwd, Commanded
  <2>2. info' = asked /\ Named(asked)
    <3>1. Named(arg) /\ arg = <<arg[1], arg[2]>>
      BY <2>1, Names DEF Named, Real
    <3> QED BY <2>1, <3>1
  <2>3. Commanded'
    BY <1>2, <2>1 DEF Commanded
  <2>4. asked' = asked /\ ~saved'
    BY <2>1
  <2>5. Real(info)'
    BY <2>2 DEF Named, Real
  <2>6. Matching'
    BY <2>2, <2>4 DEF Matching
  <2> QED BY <1>1, <1>2, <1>3, <2>1, <2>3, <2>5, <2>6, CommandStep DEF CliCalls, Named, Real
<1>7. CASE OverSsid \/ OverPwd
  <2>1. /\ pc["cli"] \in {"over1", "over2"} /\ link = "off" /\ lastGood = Nothing /\ arg \in Pairs
        /\ Goes("cli", "over2") \/ Goes("cli", "store1")
        /\ UNCHANGED <<saved, flash, arg, reconnect, link, asked, events, lastGood>>
    BY <1>1, <1>7 DEF OverSsid, OverPwd, Commanded
  <2>2. Commanded'
    BY <1>2, <2>1 DEF Commanded
  <2>3. Real(info)'
    <3>1. arg[1] # Absent /\ arg[2] # Absent /\ Garbled # Absent
      BY <2>1, Names DEF Named, Real, Garbled, Absent
    <3>2. info[1] # Absent /\ info[2] # Absent
      BY <1>1 DEF Real
    <3>3. CASE OverSsid
      <4>1. PICK s \in Over(info[1], arg[1]) : info' = <<s, info[2]>>
        BY <3>3 DEF OverSsid
      <4>2. s # Absent
        BY <3>1 DEF Over
      <4>3. info'[1] = s /\ info'[2] = info[2] /\ info' = <<info'[1], info'[2]>>
        BY <4>1
      <4> QED BY <3>2, <4>2, <4>3 DEF Real
    <3>4. CASE OverPwd
      <4>1. PICK s \in Over(info[2], arg[2]) : info' = <<info[1], s>>
        BY <3>4 DEF OverPwd
      <4>2. s # Absent
        BY <3>1 DEF Over
      <4>3. info'[1] = info[1] /\ info'[2] = s /\ info' = <<info'[1], info'[2]>>
        BY <4>1
      <4> QED BY <3>2, <4>2, <4>3 DEF Real
    <3> QED BY <1>7, <3>3, <3>4
  <2> QED BY <1>1, <1>2, <1>3, <2>1, <2>2, <2>3, CommandStep DEF CliCalls
<1>8. CASE LoadSsid("cli") \/ LoadPwd("cli")
  <2>1. /\ pc["cli"] \in {"load1", "load2"} /\ link # "connecting" /\ (link = "up" => lastGood = asked)
        /\ ~saved /\ UNCHANGED <<saved, flash, arg, reconnect, link, asked, events, lastGood>>
        /\ pc["net"] = "idle"
    BY <1>1, <1>8 DEF LoadSsid, LoadPwd, Commanded, Idle, Tasks
  <2>2. link = "up" => flash = asked /\ Named(asked)
    BY <1>1, <2>1, Names DEF Settled, KeepsGood, Idle
  <2>3. Real(info)'
    BY <1>1, <1>8 DEF LoadSsid, LoadPwd, Load, Real
  <2>4. CASE LoadSsid("cli")
    <3>1. Goes("cli", "load2") /\ info' = <<Load(1), info[2]>>
      BY <2>4 DEF LoadSsid
    <3>2. link = "up" => info'[1] = asked[1]
      BY <2>2, <3>1 DEF Load, Named, Real
    <3>3. Commanded'
      BY <1>2, <2>1, <3>1, <3>2 DEF Commanded
    <3> QED BY <1>1, <1>2, <1>3, <2>1, <2>3, <3>1, <3>3, CommandStep DEF CliCalls, Named, Real
  <2>5. CASE LoadPwd("cli")
    <3>1. Goes("cli", "idle") /\ info' = <<info[1], Load(2)>> /\ (link = "up" => info[1] = asked[1])
      BY <1>1, <2>5 DEF LoadPwd, Commanded
    <3>2. link = "up" => info' = asked
      BY <2>2, <3>1 DEF Load, Named, Real
    <3>3. Commanded'
      BY <1>2, <2>1, <3>1 DEF Commanded
    <3>4. link' # "off" => Matching'
      BY <1>1, <2>1, <3>2 DEF Matching, Links
    <3> QED BY <1>1, <1>2, <1>3, <2>1, <2>3, <3>1, <3>3, <3>4, CommandStep DEF CliCalls, Named, Real
  <2> QED BY <1>8, <2>4, <2>5
<1>9. CASE StoreSsid("cli") \/ StorePwd("cli")
  <2>1. /\ pc["cli"] \in {"store1", "store2"} /\ link = "off" /\ lastGood = Nothing
        /\ Goes("cli", "store2") \/ Goes("cli", "idle")
        /\ UNCHANGED <<info, saved, reconnect, link, asked, events, lastGood>>
        /\ flash' = <<flash'[1], flash'[2]>>
    BY <1>1, <1>9 DEF StoreSsid, StorePwd, Commanded
  <2>2. Commanded' /\ KeepsGood'
    BY <1>2, <2>1 DEF Commanded, KeepsGood
  <2> QED BY <1>1, <1>2, <2>1, <2>2, CommandStep DEF CliCalls, Real
<1>10. ~Mark("cli")
  BY DEF Mark, PcType, CliCalls
<1> QED BY <1>4, <1>5, <1>6, <1>7, <1>8, <1>9, <1>10 DEF Command, Settings

\* The OpenThread task at work.
LEMMA OpenThreadCalm ==
  ASSUME PcType, Settled, Careful, OpenThread \/ Settings("ot")
  PROVE  Settled'
<1> USE DEF At, ram, radio, bounds
<1>1. /\ reconnect \/ pc["ot"] # "idle" => events = <<>> /\ link = "off"
      /\ pc["ot"] # "idle" => ~reconnect
      /\ reconnect \/ pc["ot"] # "idle" => \A u \in Tasks \ {"ot"} : Idle(u)
      /\ Reconnected /\ Real(info) /\ flash = <<flash[1], flash[2]>>
  BY DEF Settled, Turns, Idle, Tasks
<1>2. ASSUME NEW l, Goes("ot", l) PROVE pc'["ot"] = l
  BY <1>2 DEF PcType, Goes, Tasks
<1>3. Real(Stored) /\ Stored = <<Half(1), Half(2)>> /\ (Usable(Stored) => Stored = flash /\ Named(flash))
  BY <1>1, StoredUsable
<1>4. flash' = flash => Half(1)' = Half(1) /\ Half(2)' = Half(2) /\ Stored' = Stored
  BY DEF Half, Stored
<1>5. CASE Reconnect
  <2>1. /\ Goes("ot", "load1") /\ info' = Nothing /\ ~reconnect' /\ reconnect
        /\ UNCHANGED <<flash, arg, link, asked, events, lastGood>>
    BY <1>5 DEF Reconnect
  <2>2. Reconnected'
    BY <1>2, <2>1 DEF Reconnected
  <2> QED BY <1>1, <2>1, <2>2, Names, ReconnectStep DEF OtCalls, Links, Real
<1>6. CASE LoadSsid("ot")
  <2>1. /\ Goes("ot", "load2") /\ info' = <<Load(1), info[2]>> /\ pc["ot"] = "load1" /\ info = Nothing
        /\ UNCHANGED <<saved, flash, arg, reconnect, link, asked, events, lastGood>>
    BY <1>1, <1>6 DEF LoadSsid, Reconnected
  <2>2. info[1] = "" /\ info[2] = ""
    BY <2>1, Names
  <2>3. info' = <<Half(1), "">>
    BY <2>1, <2>2 DEF Load, Half
  <2>4. Reconnected'
    BY <1>2, <1>4, <2>1, <2>3 DEF Reconnected
  <2>5. Real(info)'
    <3>1. Half(1) # Absent /\ Absent # ""
      BY DEF Half, Absent
    <3> QED BY <2>3, <3>1 DEF Real
  <2> QED BY <1>1, <2>1, <2>4, <2>5, ReconnectStep DEF OtCalls, Links
<1>7. CASE LoadPwd("ot")
  <2>1. /\ Goes("ot", "check") /\ info' = <<info[1], Load(2)>> /\ pc["ot"] = "load2" /\ info = <<Half(1), "">>
        /\ UNCHANGED <<saved, flash, arg, reconnect, link, asked, events, lastGood>>
    BY <1>1, <1>7 DEF LoadPwd, Reconnected
  <2>2. info[1] = Half(1) /\ info[2] = ""
    BY <2>1
  <2>3. info' = Stored
    BY <1>3, <2>1, <2>2 DEF Load, Half
  <2>4. Reconnected'
    BY <1>2, <1>4, <2>1, <2>3 DEF Reconnected
  <2> QED BY <1>1, <1>3, <2>1, <2>3, <2>4, ReconnectStep DEF OtCalls, Links
<1>8. CASE Check
  <2>1. /\ Goes("ot", IF Usable(info) THEN "mark" ELSE "clear") /\ pc["ot"] = "check" /\ info = Stored
        /\ UNCHANGED <<info, saved, flash, arg, reconnect, link, asked, events, lastGood>>
    BY <1>1, <1>8 DEF Check, Reconnected
  <2>2. (Goes("ot", "mark") /\ Usable(info)) \/ Goes("ot", "clear")
    BY <2>1
  <2>3. info' = Stored' /\ (Usable(info) => Usable(info)')
    BY <1>4, <2>1 DEF Usable, Strlen
  <2>4. Reconnected'
    BY <1>2, <2>2, <2>3 DEF Reconnected
  <2> QED BY <1>1, <2>1, <2>2, <2>4, ReconnectStep DEF OtCalls, Links, Real
<1>9. CASE Mark("ot")
  <2>1. /\ Goes("ot", "ask") /\ pc["ot"] = "mark" /\ info = Stored /\ Usable(info) /\ saved'
        /\ UNCHANGED <<info, flash, arg, reconnect, link, asked, events, lastGood>>
    BY <1>1, <1>9 DEF Mark, Reconnected
  <2>2. info' = Stored' /\ Usable(info)'
    BY <1>4, <2>1 DEF Usable, Strlen
  <2>3. Reconnected'
    BY <1>2, <2>1, <2>2 DEF Reconnected
  <2> QED BY <1>1, <2>1, <2>3, ReconnectStep DEF OtCalls, Links, Real
<1>10. CASE ReconnectAsk
  <2>1. /\ Goes("ot", "idle") /\ pc["ot"] = "ask" /\ info = Stored /\ Usable(info) /\ saved
        /\ link' = "connecting" /\ asked' = info
        /\ UNCHANGED <<info, saved, flash, arg, reconnect, lastGood>>
    BY <1>1, <1>10 DEF ReconnectAsk, Reconnected, Ask
  <2>2. events' = <<>>
    BY <1>1, <1>10, <2>1 DEF ReconnectAsk, Ask
  <2>3. flash = info /\ Named(flash)
    BY <1>3, <2>1
  <2>4. Named(asked)' /\ Matching'
    BY <2>1, <2>3 DEF Named, Real, Matching
  <2>5. Reconnected'
    BY <1>2, <2>1 DEF Reconnected
  <2> QED BY <1>1, <2>1, <2>2, <2>4, <2>5, ReconnectStep DEF OtCalls, Links, Real
<1>11. CASE Clear
  <2>1. /\ Goes("ot", "idle") /\ pc["ot"] = "clear" /\ info' = Nothing
        /\ UNCHANGED <<flash, arg, reconnect, link, asked, events, lastGood>>
    BY <1>11 DEF Clear
  <2>2. Reconnected'
    BY <1>2, <2>1 DEF Reconnected
  <2> QED BY <1>1, <2>1, <2>2, Names, ReconnectStep DEF OtCalls, Links, Real
<1>12. ~StoreSsid("ot") /\ ~StorePwd("ot")
  BY DEF StoreSsid, StorePwd, PcType, OtCalls
<1> QED BY <1>5, <1>6, <1>7, <1>8, <1>9, <1>10, <1>11, <1>12 DEF OpenThread, Settings

\* The callback at work.
LEMMA CallbackCalm ==
  ASSUME PcType, Settled, Careful, Callback \/ Settings("net")
  PROVE  Settled'
<1> USE DEF At, ram, radio, bounds, task
<1>1. /\ events # <<>> \/ ~Idle("net") => ~reconnect /\ Idle("cli") /\ Idle("ot") /\ Matching /\ Named(asked)
      /\ InOrder /\ Turns /\ SavedSoFar /\ KeepsGood /\ flash = <<flash[1], flash[2]>>
  BY DEF Settled, Turns, Ahead, InOrder, Idle, Tasks
<1>2. ASSUME NEW l, pc' = [pc EXCEPT !["net"] = l] PROVE pc'["net"] = l
  BY <1>2 DEF PcType, Tasks
<1>3. pc = [pc EXCEPT !["net"] = pc["net"]]
  BY DEF PcType
<1>4. CASE OnConnected \/ OnDisconnect
  <2>1. /\ pc["net"] = "idle" /\ events # <<>> /\ events' = Tail(events) /\ pc' = pc
        /\ reconnect' <=> reconnect \/ Lost(Head(events))
        /\ UNCHANGED <<info, saved, flash, arg, link, asked, lastGood>>
    BY <1>4 DEF OnConnected, OnDisconnect, Takes, Lost
  <2>2. InOrder' /\ (reconnect' => link = "off" /\ events' = <<>>)
    BY <1>1, <2>1, Handled
  <2>3. SavedSoFar' /\ KeepsGood' /\ Matching'
    BY <1>1, <2>1 DEF SavedSoFar, KeepsGood, Matching, Idle, Named, Real
  <2> QED BY <1>1, <1>3, <2>1, <2>2, <2>3, CallbackStep DEF NetCalls
<1>5. CASE OnGotIp
  <2>1. /\ pc["net"] = "idle" /\ events # <<>> /\ events' = Tail(events) /\ ~Lost(Head(events))
        /\ pc' = [pc EXCEPT !["net"] = IF saved THEN "idle" ELSE "store1"]
        /\ lastGood' = asked
        /\ UNCHANGED <<info, saved, flash, arg, reconnect, link, asked>>
    BY <1>5 DEF OnGotIp, Takes, Goes, Lost
  <2>2. InOrder' /\ ~reconnect'
    BY <1>1, <2>1, Handled
  <2>3. pc'["net"] = (IF saved THEN "idle" ELSE "store1")
    BY <1>2, <2>1
  <2>4. Matching'
    BY <1>1, <2>1 DEF Matching
  <2>5. saved => flash' = asked /\ Named(lastGood)'
    BY <1>1, <2>1 DEF Matching, Named, Real
  <2>6. SavedSoFar' /\ KeepsGood'
    BY <2>1, <2>3, <2>5 DEF SavedSoFar, KeepsGood, Idle
  <2> QED BY <1>1, <2>1, <2>2, <2>4, <2>6, CallbackStep DEF NetCalls
<1>6. CASE StoreSsid("net") \/ StorePwd("net") \/ Mark("net")
  <2>1. /\ ~Idle("net") /\ ~saved /\ info = asked /\ lastGood = asked /\ Named(asked)
        /\ UNCHANGED <<info, arg, reconnect, link, asked, events, lastGood>>
    BY <1>1, <1>6 DEF StoreSsid, StorePwd, Mark, Idle, SavedSoFar, Matching
  <2>2. InOrder'
    BY <1>1, <2>1, RadioStill
  <2>3. CASE StoreSsid("net")
    <3>1. /\ pc' = [pc EXCEPT !["net"] = "store2"] /\ flash' = <<info[1], flash[2]>> /\ saved' = saved
      BY <2>3 DEF StoreSsid, Goes
    <3>2. pc'["net"] = "store2" /\ flash'[1] = asked[1] /\ flash' = <<flash'[1], flash'[2]>>
      BY <1>2, <2>1, <3>1
    <3>3. SavedSoFar' /\ KeepsGood' /\ Matching'
      BY <2>1, <3>1, <3>2 DEF SavedSoFar, KeepsGood, Matching, Idle
    <3> QED BY <1>1, <2>1, <2>2, <3>1, <3>2, <3>3, CallbackStep DEF NetCalls
  <2>4. CASE StorePwd("net")
    <3>1. /\ pc' = [pc EXCEPT !["net"] = "mark"] /\ flash' = <<flash[1], info[2]>> /\ saved' = saved
          /\ flash[1] = asked[1]
      BY <1>1, <2>4 DEF StorePwd, Goes, SavedSoFar
    <3>2. pc'["net"] = "mark" /\ flash' = asked /\ flash' = <<flash'[1], flash'[2]>>
      BY <1>2, <2>1, <3>1 DEF Named, Real
    <3>3. SavedSoFar' /\ KeepsGood' /\ Matching'
      BY <2>1, <3>1, <3>2 DEF SavedSoFar, KeepsGood, Matching, Idle
    <3> QED BY <1>1, <2>1, <2>2, <3>1, <3>2, <3>3, CallbackStep DEF NetCalls
  <2>5. CASE Mark("net")
    <3>1. /\ pc' = [pc EXCEPT !["net"] = "idle"] /\ flash' = flash /\ saved' = TRUE /\ flash = asked
      BY <1>1, <2>5 DEF Mark, Goes, SavedSoFar
    <3>2. pc'["net"] = "idle"
      BY <1>2, <3>1
    <3>3. SavedSoFar' /\ KeepsGood' /\ Matching'
      BY <2>1, <3>1, <3>2 DEF SavedSoFar, KeepsGood, Matching, Idle, Named, Real
    <3> QED BY <1>1, <2>1, <2>2, <3>1, <3>3, CallbackStep DEF NetCalls
  <2> QED BY <1>6, <2>3, <2>4, <2>5
<1>7. ~LoadSsid("net") /\ ~LoadPwd("net")
  BY DEF LoadSsid, LoadPwd, PcType, NetCalls
<1> QED BY <1>4, <1>5, <1>6, <1>7 DEF Callback, Settings

\* A power cycle, which a careful environment makes when neither a command nor the callback
\* is at work.
LEMMA PowerCalm ==
  ASSUME PcType, Settled, Careful, PowerCycle
  PROVE  Settled' /\ (Usable(Stored) => link' = "connecting" /\ asked' = Stored)
<1>1. /\ pc' = [t \in Tasks |-> "idle"] /\ ~reconnect' /\ events' = <<>> /\ UNCHANGED <<flash, lastGood>>
      /\ Idle("net")
      /\ IF Usable(Stored)
         THEN info' = Stored /\ saved' /\ link' = "connecting" /\ asked' = Stored
         ELSE info' = Nothing /\ ~saved' /\ link' = "off"
  BY DEF PowerCycle, PowerOn, Idle
<1>2. /\ flash = <<flash[1], flash[2]>> /\ Real(Stored)
      /\ (Usable(Stored) => Stored = flash /\ Named(flash))
  BY StoredUsable DEF Settled
<1>3. pc'["cli"] = "idle" /\ pc'["ot"] = "idle" /\ pc'["net"] = "idle" /\ \A t \in Tasks : pc'[t] = "idle"
  BY <1>1 DEF Tasks
<1>4. Turns'
  BY <1>1, <1>3 DEF Turns, Idle, At
<1>5. InOrder'
  <2>1. link' \in Links /\ (link' # "off" => Named(asked)')
    BY <1>1, <1>2 DEF Links, Named, Real
  <2> QED BY <1>1, <1>3, <2>1, QueueEmpty DEF Idle, At
<1>6. Commanded' /\ Reconnected' /\ SavedSoFar'
  BY <1>3 DEF Commanded, Reconnected, SavedSoFar, Idle, At
<1>7. KeepsGood'
  BY <1>1 DEF Settled, KeepsGood, Idle, At, Named, Real
<1>8. Ahead'
  BY <1>1, <1>2, <1>3 DEF Ahead, Matching, Idle, At
<1>9. Real(info)' /\ flash' = <<flash'[1], flash'[2]>>
  BY <1>1, <1>2, Names DEF Real
<1> QED BY <1>1, <1>4, <1>5, <1>6, <1>7, <1>8, <1>9 DEF Settled

\* Every step of a careful environment keeps the router calm.
LEMMA CalmNext == Calm /\ [Next]_vars => Calm'
<1> SUFFICES ASSUME Calm, [Next]_vars PROVE Calm'
  OBVIOUS
<1> USE DEF ram, radio, bounds, task, races
<1>1. PcType /\ PcType'
  BY NextPc DEF Calm
<1>2. env' = env /\ boots' \in Nat
  BY DEF Calm, Next, User, Types, Clears, Command, Settings, Callback, OpenThread, CmdConnect,
         CmdConfigSet, CmdRefused, CmdConfigShow, CmdDisconnect, ConnectAsk, CopySsid, CopyPwd,
         OverSsid, OverPwd, LoadSsid, LoadPwd, StoreSsid, StorePwd, Mark, OnConnected, OnDisconnect,
         OnGotIp, Reconnect, Check, ReconnectAsk, Clear, Associate, Address, Lose, PowerCycle, vars
<1> SUFFICES ASSUME Careful PROVE Settled'
  BY <1>1, <1>2 DEF Calm, Careful
<1>3. Settled
  BY DEF Calm
<1>4. CASE User
  <2>1. ASSUME NEW c \in Pairs, CmdConnect(c) PROVE Settled'
    BY <1>1, <1>3, <2>1, ClearsCalm DEF CmdConnect
  <2>2. ASSUME NEW c \in Pairs, CmdConfigSet(c) PROVE Settled'
    BY <1>1, <1>3, <2>2, ClearsCalm DEF CmdConfigSet
  <2>3. CASE CmdConfigShow
    BY <1>1, <1>3, <2>3, ClearsCalm DEF CmdConfigShow
  <2>4. ~CmdRefused
    BY DEF CmdRefused
  <2>5. CASE CmdDisconnect
    BY <1>1, <1>3, <2>5, ReportStep DEF CmdDisconnect, Types, Idle, Reports, Links
  <2> QED BY <1>4, <2>1, <2>2, <2>3, <2>4, <2>5 DEF User
<1>5. CASE Associate \/ Address \/ Lose
  BY <1>1, <1>3, <1>5, ReportStep DEF Associate, Address, Lose, Unhurried, Idle, Reports, Links, Lost
<1>6. CASE UNCHANGED vars
  <2>1. /\ UNCHANGED <<info, saved, flash, pc, arg, reconnect>>
        /\ UNCHANGED <<link, asked, events, lastGood>>
    BY <1>6 DEF vars
  <2>2. Turns' /\ InOrder' /\ Commanded'
    BY <1>3, <2>1 DEF Settled, Turns, InOrder, Commanded, Idle, At, Named, Real
  <2>3. Reconnected'
    BY <1>3, <2>1 DEF Settled, Reconnected, At, Half, Stored, Usable, Strlen
  <2>4. SavedSoFar' /\ KeepsGood' /\ Ahead'
    BY <1>3, <2>1 DEF Settled, SavedSoFar, KeepsGood, Ahead, Matching, Idle, At, Named, Real
  <2> QED BY <1>3, <2>1, <2>2, <2>3, <2>4 DEF Settled, Real
<1>7. CASE Command \/ Callback \/ OpenThread \/ (\E t \in Tasks : Settings(t))
  BY <1>1, <1>3, <1>7, CommandCalm, OpenThreadCalm, CallbackCalm DEF Tasks
<1>8. CASE PowerCycle
  BY <1>1, <1>3, <1>8, PowerCalm
<1> QED BY <1>4, <1>5, <1>6, <1>7, <1>8 DEF Next

\* In a careful environment an access point with which the router connected is the one it
\* connects to after a power cycle, whatever happened in between, if wifi_lwip_init takes
\* passwords of that length.
THEOREM ConnectsAgain == Spec => AutoConnectUsable
<1> DEFINE Again == boots' > boots /\ Careful /\ Strlen(lastGood[2]) \in MinPwd..SsidSize - 1
                    => link' = "connecting" /\ asked' = lastGood
<1>1. ASSUME Calm, Next PROVE Again
  <2> SUFFICES ASSUME boots' > boots, Careful, Strlen(lastGood[2]) \in MinPwd..SsidSize - 1
               PROVE  link' = "connecting" /\ asked' = lastGood
    OBVIOUS
  <2>1. PowerCycle
    <3>1. boots' # boots
      BY <1>1 DEF Calm
    <3> QED
      BY <1>1, <3>1 DEF Next, User, Types, Clears, Command, Settings, Callback, OpenThread, CmdConnect,
         CmdConfigSet, CmdRefused, CmdConfigShow, CmdDisconnect, ConnectAsk, CopySsid, CopyPwd,
         OverSsid, OverPwd, LoadSsid, LoadPwd, StoreSsid, StorePwd, Mark, OnConnected, OnDisconnect,
         OnGotIp, Reconnect, Check, ReconnectAsk, Clear, Associate, Address, Lose, bounds
  <2>2. lastGood # Nothing
    <3>1. Strlen(Nothing[2]) = 0
      BY Zenon DEF Strlen, Nothing
    <3>2. 0 \notin MinPwd..SsidSize - 1
      BY SizeAssumption
    <3> QED BY <3>1, <3>2
  <2>3. Settled /\ PcType /\ Idle("net")
    BY <1>1, <2>1 DEF Calm, PowerCycle, Idle
  <2>4. flash = lastGood /\ Named(flash)
    BY <2>2, <2>3 DEF Settled, KeepsGood
  <2>5. Stored = flash
    BY <2>3, <2>4, StoredUsable DEF Settled
  <2>6. Usable(flash)
    <3>1. Strlen(flash[2]) >= MinPwd /\ Strlen(flash[2]) < SsidSize
      BY <2>4, SizeAssumption
    <3> QED BY <2>4, <3>1, Zenon DEF Usable, Named
  <2> QED BY <2>1, <2>3, <2>4, <2>5, <2>6, PowerCalm
<1>2. Calm /\ Next => Again
  BY <1>1
<1> QED BY <1>2, CalmInit, CalmNext, PTL DEF Spec, AutoConnectUsable
=============================================================================
