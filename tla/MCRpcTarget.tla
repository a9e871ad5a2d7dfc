---------------------------- MODULE MCRpcTarget ----------------------------
(* Two switches, a table with direct resources and one with an action       *)
(* profile.  Each setup is a group of applications and the calls they make. *)
EXTENDS RpcTarget

CONSTANTS c1, c2, t1, t2
MCMatchTypes == [t |-> <<"TERNARY">>, it |-> <<"EXACT">>]
MCImpl == [t |-> "none", it |-> "ap"]
MCConstDefault == [t |-> "none", it |-> "none"]
MCParamBytes == [a |-> <<2, 1>>]

Call(op, a) == [op |-> op, a |-> a]
Dev(d) == [d |-> d]
Assign(d, extra) == Call("ASSIGN_DEVICE", [d |-> d, p4info |-> "p", extra |-> extra])
Port(v) == <<"port", v>>
Iface(v) == <<"cpu_iface", v>>
Good == <<Port("9090"), Iface("veth")>>
Bare == Call("ASSIGN_DEVICE", [d |-> 1, p4info |-> "", extra |-> Good])
Start(d, p) == Call("UPDATE_DEVICE_START", [d |-> d, p4info |-> p])
End(d) == Call("UPDATE_DEVICE_END", Dev(d))
RemoveDev(d) == Call("REMOVE_DEVICE", Dev(d))
Boot0 == <<Assign(0, Good), Start(0, "p"), End(0)>>
Nil == [none |-> 0]

Ad(n) == [id |-> "a", data |-> <<0, n, 0>>]
Ctr(v) == [valid |-> v, bytes |-> 9, packets |-> 2]
Mtr == [cir |-> 5, cburst |-> 1, pir |-> 10, pburst |-> 2, unit |-> "BYTES", type |-> "UNAWARE"]
Data(n, direct) == [type |-> "DATA", data |-> Ad(n), direct |-> direct]
Both == <<[type |-> "counter", config |-> Ctr(3)], [type |-> "meter", config |-> Mtr]>>
Key(p) == [priority |-> p, data |-> <<3, 1>>]
T(r) == r @@ [d |-> 0, t |-> "t"]
Add(p) == Call("TABLE_ENTRY_ADD", T([k |-> Key(p), e |-> Data(1, Both)]))
AddTo(h) == Call("TABLE_ENTRY_ADD", [d |-> 0, t |-> "it", k |-> [priority |-> 0, data |-> <<3>>], e |-> [type |-> "INDIRECT", h |-> h, direct |-> <<>>]])
On0(op, r) == Call(op, T(r))
Member == Call("ACT_PROF_MBR_CREATE", [d |-> 0, ad |-> Ad(1)])
Group == Call("ACT_PROF_GRP_CREATE", Dev(0))
Pair(op) == Call(op, [d |-> 0, g |-> 32, h |-> 0])

TableCalls == {Add(1), Add(2), On0("TABLE_ENTRY_MODIFY", [h |-> 0, e |-> Data(2, <<>>)]),
               On0("TABLE_ENTRY_MODIFY_WKEY", [k |-> Key(2), e |-> Data(2, Both)]),
               On0("TABLE_ENTRY_DELETE", [h |-> 0]), On0("TABLE_ENTRY_DELETE_WKEY", [k |-> Key(2)]), On0("TABLE_ENTRIES_FETCH", Nil)}
OtherCalls == {On0("TABLE_DEFAULT_ACTION_SET", [e |-> Data(2, <<>>)]), On0("TABLE_DEFAULT_ACTION_RESET", Nil),
               On0("TABLE_DEFAULT_ACTION_GET", Nil), On0("COUNTER_READ_DIRECT", [h |-> 0]), On0("COUNTER_WRITE_DIRECT", [h |-> 0, c |-> Ctr(1)]),
               On0("METER_READ_DIRECT", [h |-> 0]), On0("METER_SET_DIRECT", [h |-> 0, m |-> Mtr]),
               Call("COUNTER_READ", [d |-> 0, h |-> 0]), Call("COUNTER_WRITE", [d |-> 0, h |-> 0, c |-> Ctr(2)]),
               Call("METER_READ", [d |-> 0, h |-> 0]), Call("METER_SET", [d |-> 0, h |-> 0, m |-> Mtr])}
MiscCalls == {Call("SESSION_INIT", Nil), Call("SESSION_CLEANUP", Nil), Call("BATCH_BEGIN", Nil), Call("BATCH_END", Nil),
              Call("PACKETOUT_SEND", [d |-> 0, pkt |-> <<1>>]), Call("LEARN_MSG_ACK", [d |-> 0, h |-> 9])} \cup {Call(op, Dev(0)) : op \in Local}
ProfCalls == {Member, Group, Pair("ACT_PROF_GRP_ADD_MBR"), Pair("ACT_PROF_GRP_REMOVE_MBR"), AddTo(32), AddTo(0),
              Call("ACT_PROF_MBR_DELETE", [d |-> 0, h |-> 0]), Call("ACT_PROF_MBR_MODIFY", [d |-> 0, h |-> 0, ad |-> Ad(2)]),
              Call("ACT_PROF_GRP_DELETE", [d |-> 0, g |-> 32]), Call("ACT_PROF_ENTRIES_FETCH", Dev(0)),
              Call("TABLE_ENTRIES_FETCH", [d |-> 0, t |-> "it"])}
LifeCalls == {Call("INIT", Nil), Assign(0, Good), Start(0, "p2"), RemoveDev(0)}
FailCalls == {Call("INIT", Nil), End(0), Start(0, "p"), Add(1), Assign(0, Good), Assign(0, <<Iface("veth")>>), Assign(0, <<Port("9091")>>),
              Assign(0, <<Iface("veth"), Port("text")>>), Assign(0, <<Port("9090"), Iface("text")>>), Call("DESTROY", Nil),
              Bare, Call("PACKETOUT_SEND", [d |-> 0, pkt |-> <<1>>])}

None == [type |-> "NONE", direct |-> <<>>]
Plain == [Mtr EXCEPT !.unit = "DEFAULT", !.type = "DEFAULT"]
BadCalls == {On0("TABLE_ENTRY_ADD", [k |-> Key(2), e |-> None]), On0("TABLE_ENTRY_MODIFY", [h |-> 0, e |-> None]),
             On0("TABLE_DEFAULT_ACTION_SET", [e |-> None]), On0("METER_SET_DIRECT", [h |-> 0, m |-> Plain]), Call("METER_SET", [d |-> 0, h |-> 0, m |-> Plain]),
             On0("TABLE_ENTRY_ADD", [k |-> Key(2), e |-> Data(1, <<[type |-> "meter", config |-> Plain]>>)]), Call("METER_READ", [d |-> 1, h |-> 0])}
Boot2 == Boot0 \o <<Assign(1, Good)>>

One == [x \in {t1} |-> c1]
Two == [x \in {t1, t2} |-> c1]
Each == [x \in {t1, t2} |-> IF x = t1 THEN c1 ELSE c2]
S(threads, ready, boot, cs, max, fs, packets) ==
    [clients |-> {threads[x] : x \in DOMAIN threads}, threads |-> threads, ready |-> ready, boot |-> boot, calls |-> cs,
     max |-> max, faults |-> fs, packets |-> packets]
MCSetups ==
    {S(One, TRUE, Boot0, TableCalls, 4, 1, 0),
     S(One, TRUE, Boot0 \o <<Add(1)>>, OtherCalls, 2, 1, 0),
     S(One, TRUE, Boot0, MiscCalls, 2, 1, 0),
     S(One, TRUE, Boot0 \o <<Member, Group>>, ProfCalls, 3, 1, 0),
     S(Each, FALSE, <<>>, LifeCalls, 4, 1, 0),
     S(One, FALSE, <<>>, FailCalls, 4, 1, 0),
     S(Two, TRUE, Boot0, {Add(1), Member}, 3, 1, 0),
     S(Two, TRUE, <<>>, {Assign(0, Good), Start(0, "p2"), RemoveDev(0)}, 3, 1, 0),
     S(One, TRUE, Boot0 \o <<Add(1)>>, BadCalls, 2, 1, 0),
     S(One, TRUE, Boot2, {RemoveDev(0), RemoveDev(1), Assign(0, Good), Start(0, "p2"), Start(1, "p2")}, 4, 1, 0),
     S(Each, FALSE, Boot2, {Call("INIT", Nil), RemoveDev(0), Assign(0, Good), Start(1, "p2")}, 4, 0, 0),
     S(Each, FALSE, Boot0, {Call("INIT", Nil), Bare, Call("ACT_PROF_MBR_CREATE", [d |-> 1, ad |-> Ad(1)])}, 3, 1, 0),
     S(Each, FALSE, Boot2, {Call("INIT", Nil), Call("BATCH_BEGIN", Nil)}, 2, 1, 2)}
=============================================================================
