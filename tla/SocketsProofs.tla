---------------------------- MODULE SocketsProofs ----------------------------
(***************************************************************************)
(* Safety of the socket set-ups and of the TCP client, for any number of   *)
(* programs that want a port and any troubles.  Each has an inductive      *)
(* invariant of its own, IniInv and CliInv; a last part shows that a       *)
(* behaviour of Sockets is one of each.                                    *)
(***************************************************************************)
EXTENDS Sockets, TLAPS

-----------------------------------------------------------------------------
(* Set-up.  The port of p is taken by a socket that is listening, or by    *)
(* one that is bound, as p's protocol has it.                              *)
HasPort(p) == sock[p] = IF what[p] = "tcp" THEN "listening" ELSE "bound"

(* The socket each system call finds.                                      *)
SockAt(p) ==
    /\ at[p] = "socket" => sock[p] = "none"
    /\ at[p] = "bind" => sock[p] = "made"
    /\ at[p] = "listen" => sock[p] = "bound" /\ what[p] = "tcp"
    /\ at[p] = "membership" => sock[p] = "bound" /\ what[p] # "tcp"
    /\ at[p] = "ready" => HasPort(p)
    /\ at[p] = "failed" => sock[p] = "none"

(* Who has a port keeps it unless the system fails, and until then who has *)
(* failed has a rival that has it.                                         *)
IniInv ==
    /\ Ini!TypeOK
    /\ \A p \in Programs : SockAt(p)
    /\ \A p \in Programs : HasPort(p) => \A q \in Ini!Rivals(p) : ~HasPort(q)
    /\ ~broken => \A p \in Programs : at[p] = "failed" => \E q \in Ini!Rivals(p) : HasPort(q)

(* Nobody has a socket.                                                    *)
LEMMA IniInit == Ini!Init => IniInv
BY DEF Ini!Init, IniInv, Ini!TypeOK, SockAt, HasPort

(* Rivals are so of each other.                                            *)
LEMMA RivalsSymmetric ==
    /\ \A p, q \in Programs : q \in Ini!Rivals(p) <=> p \in Ini!Rivals(q)
    /\ \A p \in Programs : \A q \in Ini!Rivals(p) :
          q \in Programs /\ q # p /\ (what[q] = "tcp" <=> what[p] = "tcp")
BY DEF Ini!Rivals, Ini!Protocol

(* A call by p that succeeds, or fails because of a rival or of the system.*)
LEMMA CallKeepsIniInv ==
    ASSUME IniInv, NEW p \in Programs, what' = what,
           NEW state \in {"none", "made", "bound", "listening"},
           NEW then \in {"bind", "listen", "membership", "ready", "failed"},
           sock' = [sock EXCEPT ![p] = state], at' = [at EXCEPT ![p] = then],
           broken' \in BOOLEAN, broken => broken', at[p] \notin {"ready", "failed"},
           then = "failed" => state = "none",
           then = "bind" => state = "made",
           then = "listen" => state = "bound" /\ what[p] = "tcp",
           then = "membership" => state = "bound" /\ what[p] # "tcp",
           then = "ready" => state = IF what[p] = "tcp" THEN "listening" ELSE "bound",
           then # "failed" => /\ HasPort(p) => HasPort(p)'
                              /\ HasPort(p)' => \A q \in Ini!Rivals(p) : ~HasPort(q),
           then = "failed" /\ ~broken' => ~HasPort(p) /\ \E q \in Ini!Rivals(p) : HasPort(q)
    PROVE  IniInv'
<1>1. /\ what \in [Programs -> {"udp", "multi", "tcp"}]
      /\ at \in [Programs -> {"socket", "bind", "listen", "membership", "ready", "failed"}]
      /\ sock \in [Programs -> {"none", "made", "bound", "listening"}]
  BY DEF IniInv, Ini!TypeOK
<1>2. Ini!TypeOK'
  BY <1>1 DEF Ini!TypeOK
<1>3. /\ at'[p] = then /\ sock'[p] = state
      /\ \A q \in Programs \ {p} : at'[q] = at[q] /\ sock'[q] = sock[q]
  BY <1>1
<1>4. /\ \A q \in Programs \ {p} : HasPort(q)' <=> HasPort(q)
      /\ HasPort(p)' <=> state = IF what[p] = "tcp" THEN "listening" ELSE "bound"
  BY <1>3 DEF HasPort
<1>5. \A q \in Programs : Ini!Rivals(q)' = Ini!Rivals(q)
  BY DEF Ini!Rivals, Ini!Protocol
<1>6. \A q \in Programs : SockAt(q)'
  <2>1. SockAt(p)'
    BY <1>3, <1>4 DEF SockAt
  <2>2. \A q \in Programs \ {p} : SockAt(q)'
    BY <1>3, <1>4 DEF SockAt, IniInv
  <2> QED BY <2>1, <2>2
<1>7. then = "failed" => ~HasPort(p)'
  BY <1>4
<1>8. \A q \in Programs : HasPort(q)' => \A r \in Ini!Rivals(q) : ~HasPort(r)'
  BY <1>4, <1>7, RivalsSymmetric DEF IniInv
<1>9. ~broken' => \A q \in Programs : at'[q] = "failed" => \E r \in Ini!Rivals(q) : HasPort(r)'
  <2> SUFFICES ASSUME ~broken', NEW q \in Programs, at'[q] = "failed"
               PROVE  \E r \in Ini!Rivals(q) : HasPort(r)'
    OBVIOUS
  <2>1. HasPort(p) => HasPort(p)'
    OBVIOUS
  <2>2. \E r \in Ini!Rivals(q) : HasPort(r)
    BY <1>3 DEF IniInv
  <2> QED BY <1>4, <2>1, <2>2, RivalsSymmetric
<1> QED BY <1>2, <1>5, <1>6, <1>8, <1>9 DEF IniInv

(* Each system call of a set-up.                                           *)
LEMMA IniStep ==
    ASSUME IniInv, [Ini!Next]_(Ini!vars)
    PROVE  IniInv'
<1>1. CASE UNCHANGED Ini!vars
  BY <1>1 DEF Ini!vars, IniInv, Ini!TypeOK, SockAt, HasPort, Ini!Rivals, Ini!Protocol
<1>2. /\ broken \in BOOLEAN
      /\ \A p \in Programs : SockAt(p) /\ what[p] \in {"udp", "multi", "tcp"}
  BY DEF IniInv, Ini!TypeOK
<1>3. ASSUME NEW p \in Programs, NEW call, NEW allowed \in BOOLEAN, NEW state, NEW then,
             Ini!Step(p, call, allowed, state, then)
      PROVE  /\ what' = what /\ at[p] = call
             /\ \/ /\ allowed /\ broken' = broken
                   /\ sock' = [sock EXCEPT ![p] = state] /\ at' = [at EXCEPT ![p] = then]
                \/ /\ broken' = (broken \/ allowed)
                   /\ sock' = [sock EXCEPT ![p] = "none"] /\ at' = [at EXCEPT ![p] = "failed"]
  BY <1>3 DEF Ini!Step, Ini!Goes, Ini!Fails
<1>f. ASSUME NEW p \in Programs, what' = what, at[p] \notin {"ready", "failed"},
             sock' = [sock EXCEPT ![p] = "none"], at' = [at EXCEPT ![p] = "failed"],
             broken' = TRUE
      PROVE  IniInv'
  BY <1>f, CallKeepsIniInv
<1>g. ASSUME NEW p \in Programs, what' = what, at[p] \notin {"ready", "failed"}, broken' = broken,
             NEW state \in {"made", "bound"}, sock' = [sock EXCEPT ![p] = state],
             NEW then \in {"bind", "ready"}, at' = [at EXCEPT ![p] = then],
             then = "bind" => state = "made" /\ ~HasPort(p),
             then = "ready" => HasPort(p) /\ state = sock[p]
      PROVE  IniInv'
  <2>1. sock'[p] = state
    BY <1>g DEF IniInv, Ini!TypeOK
  <2>2. HasPort(p) => \A q \in Ini!Rivals(p) : ~HasPort(q)
    BY DEF IniInv
  <2>3. CASE then = "bind"
    <3>1. ~HasPort(p)'
      BY <1>g, <2>1, <2>3 DEF HasPort
    <3> QED BY <1>2, <1>g, <2>3, <3>1, CallKeepsIniInv
  <2>4. CASE then = "ready"
    BY <1>2, <1>g, <2>1, <2>2, <2>4, CallKeepsIniInv DEF HasPort
  <2> QED BY <2>3, <2>4
<1>4. ASSUME NEW p \in Programs, Ini!Socket(p) PROVE IniInv'
  <2>1. /\ what' = what /\ at[p] = "socket"
        /\ \/ /\ broken' = broken
              /\ sock' = [sock EXCEPT ![p] = "made"] /\ at' = [at EXCEPT ![p] = "bind"]
           \/ /\ broken' = TRUE
              /\ sock' = [sock EXCEPT ![p] = "none"] /\ at' = [at EXCEPT ![p] = "failed"]
    BY <1>4 DEF Ini!Socket, Ini!Step, Ini!Goes, Ini!Fails
  <2>2. ~HasPort(p)
    BY <1>2, <2>1 DEF SockAt, HasPort
  <2> QED BY <1>f, <1>g, <2>1, <2>2
<1>5. ASSUME NEW p \in Programs, Ini!Membership(p), what[p] = "multi" PROVE IniInv'
  <2>1. /\ what' = what /\ at[p] = "membership"
        /\ \/ /\ broken' = broken
              /\ sock' = [sock EXCEPT ![p] = "bound"] /\ at' = [at EXCEPT ![p] = "ready"]
           \/ /\ broken' = TRUE
              /\ sock' = [sock EXCEPT ![p] = "none"] /\ at' = [at EXCEPT ![p] = "failed"]
    BY <1>5 DEF Ini!Membership, Ini!Step, Ini!Goes, Ini!Fails
  <2>2. HasPort(p) /\ sock[p] = "bound"
    BY <1>2, <1>5, <2>1 DEF SockAt, HasPort
  <2> QED BY <1>f, <1>g, <2>1, <2>2
<1>6. ASSUME NEW p \in Programs PROVE /\ Ini!MayBind(p) \in BOOLEAN /\ Ini!MayListen(p) \in BOOLEAN
                                      /\ Ini!MayBind(p) <=> \A q \in Ini!Rivals(p) : ~HasPort(q)
                                      /\ what[p] = "tcp" => (Ini!MayListen(p) <=> Ini!MayBind(p))
  BY <1>2, RivalsSymmetric DEF Ini!MayBind, Ini!MayListen, HasPort
<1>7. ASSUME NEW p \in Programs, NEW then \in {"ready", "membership", "listen"},
             Ini!Step(p, "bind", Ini!MayBind(p), "bound", then),
             then = IF what[p] = "tcp" THEN "listen" ELSE IF what[p] = "udp" THEN "ready" ELSE "membership"
      PROVE  IniInv'
  BY <1>2, <1>3, <1>6, <1>7, CallKeepsIniInv DEF SockAt, HasPort
<1>8. ASSUME NEW p \in Programs, Ini!Step(p, "listen", Ini!MayListen(p), "listening", "ready"),
             what[p] = "tcp"
      PROVE  IniInv'
  BY <1>2, <1>3, <1>6, <1>8, CallKeepsIniInv DEF SockAt, HasPort
<1> QED BY <1>1, <1>4, <1>5, <1>7, <1>8
        DEF Ini!Next, Ini!init_udp, Ini!init_udpmulti, Ini!init_tcpserver

(* The promise of the set-ups.                                             *)
LEMMA IniProperty == IniInv => Ini!OneGetsThePort
<1> SUFFICES ASSUME IniInv, NEW p \in Programs
             PROVE  /\ at[p] = "ready" => \A q \in Ini!Rivals(p) : at[q] # "ready"
                    /\ at[p] = "failed" => sock[p] = "none"
                    /\ (\A q \in Ini!Rivals(p) \cup {p} : Ini!Returned(q)) /\ ~broken
                           => \E q \in Ini!Rivals(p) \cup {p} : at[q] = "ready"
  BY DEF Ini!OneGetsThePort
<1>1. \A q \in Programs : /\ at[q] = "ready" => HasPort(q)
                          /\ at[q] = "failed" => sock[q] = "none" /\ ~HasPort(q)
  BY DEF IniInv, SockAt, HasPort
<1>2. \A q \in Ini!Rivals(p) : q \in Programs
  BY RivalsSymmetric
<1>3. at[p] = "ready" => \A q \in Ini!Rivals(p) : at[q] # "ready"
  BY <1>1, <1>2 DEF IniInv
<1>4. ASSUME \A q \in Ini!Rivals(p) \cup {p} : at[q] \in {"ready", "failed"}, ~broken, at[p] # "ready"
      PROVE  \E q \in Ini!Rivals(p) : at[q] = "ready"
  <2>1. PICK q \in Ini!Rivals(p) : HasPort(q)
    BY <1>4 DEF IniInv
  <2> QED BY <1>1, <1>2, <1>4, <2>1
<1> QED BY <1>1, <1>3, <1>4 DEF Ini!Returned

-----------------------------------------------------------------------------
(* Client.  What tcpconnect finds, and what becomes of a program that      *)
(* writes, as long as no soft error has come.                              *)
AfterClose ==
    /\ pc # "init"
    /\ \/ tcp = "peerclosed" /\ pc # "connect"
       \/ tcp = "closed" /\ err = "pipe" /\ ss = "connecting" /\ pc # "connect"
       \/ tcp = "closed" /\ err = "none" /\ ss = "connecting" /\ pc = "connect" /\ after = "call"
       \/ tcp = "closed" /\ err = "none" /\ ss = "unconnected" /\ pc \in {"call", "write", "killed"}

CliInv ==
    /\ Cli!TypeOK /\ Cli!SoundIsLeftAlone /\ Cli!NoWayBack
    /\ use \in {"send", "recv", "rw"} /\ sendLen \in {0, 1} /\ (use = "recv" => sendLen = 0)
    /\ softSeen \in BOOLEAN /\ finned \in BOOLEAN /\ again \in BOOLEAN
    /\ soft => softSeen
    /\ pc \in {"init", "ended"} => ~finned
    /\ pc = "init" => ss = "unconnected"
    /\ pc = "write" => Cli!Writes
    /\ pc = "read" => use # "send"
    /\ use = "send" => after = "call"
    /\ pc \notin {"init", "ended"} /\ tcp = "closed" => troubles > 0
    /\ ~softSeen => /\ pc = "connect" => tcp = "closed"
                    /\ pc = "connect" /\ use = "send" => ss = "connecting"
                    /\ Cli!Writes /\ finned => AfterClose

(* Nothing is connected, and nothing failed.                               *)
LEMMA CliInit == Cli!Init => CliInv
<1> SUFFICES ASSUME Cli!Init PROVE CliInv
  OBVIOUS
<1>1. Cli!TypeOK
  <2>1. MaxTroubles \in Nat
    BY SocketsAssumptions DEF Cli!ClientAssumption
  <2>2. soft \in BOOLEAN
    BY DEF Cli!Init
  <2> QED BY <2>1, <2>2 DEF Cli!Init, Cli!TypeOK
<1> QED BY <1>1 DEF Cli!Init, CliInv, Cli!SoundIsLeftAlone, Cli!NoWayBack

(* Each call of the client, and what network and server do.                *)
LEMMA CliStep ==
    ASSUME CliInv, [Cli!Next]_(Cli!vars)
    PROVE  CliInv'
<1> USE DEF CliInv, Cli!TypeOK, Cli!SoundIsLeftAlone, Cli!NoWayBack, Cli!Writes, AfterClose
<1> USE DEF Cli!client, Cli!socket, Cli!seen, Cli!Quiet, Cli!GoOn, Cli!Reconnect, Cli!Running
<1>a. MaxTroubles \in Nat
  BY SocketsAssumptions DEF Cli!ClientAssumption
<1>1. CASE UNCHANGED Cli!vars
  BY <1>1 DEF Cli!vars
<1>2. CASE Cli!init_tcpclient
  BY <1>a, <1>2 DEF Cli!init_tcpclient, Cli!StartConnect, Cli!Trouble
<1>3. CASE Cli!tcpconnect
  BY <1>a, <1>3 DEF Cli!tcpconnect, Cli!Connects, Cli!connectOnce, Cli!StartConnect, Cli!Trouble
<1>4. CASE \E then \in {"write", "read", "call"} :
              /\ Cli!GetError(then)
              /\ then = "write" => Cli!Writes
              /\ Cli!Writes => then = "write"
              /\ then = "read" => use # "send"
  BY <1>a, <1>4 DEF Cli!GetError
<1>5. CASE \E then \in {"read", "call"} : Cli!Write(then) /\ (then = "read" <=> use = "rw")
  BY <1>a, <1>5 DEF Cli!Write
<1>6. CASE use # "send" /\ Cli!Read
  BY <1>a, <1>6 DEF Cli!Read, Cli!ReadFails
<1>7. CASE Cli!Accepted
  BY <1>a, <1>7 DEF Cli!Accepted
<1>8. CASE Cli!Fails
  BY <1>a, <1>8 DEF Cli!Fails, Cli!Trouble
<1>9. CASE Cli!Closes
  BY <1>a, <1>9 DEF Cli!Closes, Cli!Trouble
<1>10. CASE Cli!SoftError
  BY <1>a, <1>10 DEF Cli!SoftError, Cli!Trouble
<1> QED BY <1>1, <1>2, <1>3, <1>4, <1>5, <1>6, <1>7, <1>8, <1>9, <1>10
        DEF Cli!Next, Cli!Program, Cli!Network, Cli!send_tcpclient, Cli!recv_tcpclient, Cli!rw_tcpclient

-----------------------------------------------------------------------------
(* A behaviour of Sockets is one of the set-ups, and one of the client.    *)
LEMMA IniCorrect == Spec => []IniInv
<1>1. Init => Ini!Init
  BY DEF Init
<1>2. [Next]_vars => [Ini!Next]_(Ini!vars)
  BY DEF Next, Runs, vars, iniVars, Ini!vars
<1> QED BY <1>1, <1>2, IniInit, IniStep, PTL DEF Spec

(* So it holds in every behaviour.                                         *)
LEMMA CliCorrect == Spec => []CliInv
<1>1. Init => Cli!Init
  BY DEF Init
<1>2. [Next]_vars => [Cli!Next]_(Cli!vars)
  BY DEF Next, Runs, vars, cliVars, Cli!vars, Cli!client, Cli!socket, Cli!seen
<1> QED BY <1>1, <1>2, CliInit, CliStep, PTL DEF Spec

(* Client and set-ups are at a system call that their sockets are fit for. *)
THEOREM TypeCorrect == Spec => []TypeOK
<1>1. IniInv /\ CliInv => TypeOK
  BY DEF IniInv, CliInv, TypeOK
<1> QED BY <1>1, IniCorrect, CliCorrect, PTL

(* init_udp, init_udpmulti and init_tcpserver: however many programs want  *)
(* a port, one gets it, unless the system fails.                           *)
THEOREM OneGetsThePortCorrect == Spec => []OneGetsThePort
<1>1. IniInv => OneGetsThePort
  BY IniProperty DEF OneGetsThePort
<1> QED BY <1>1, IniCorrect, PTL

(* tcpconnect leaves a sound connection alone but for soft errors; only a  *)
(* program that writes is killed, after trouble only.  Without soft errors *)
(* send_tcpclient never sends a second SYN, and a program that writes has  *)
(* no other connection after the server has closed one in order; after a   *)
(* refusal rw_tcpclient may have one.                                      *)
THEOREM ConnectionKeptCorrect == Spec => []ConnectionKept
<1>1. CliInv => ConnectionKept
  BY DEF CliInv, ConnectionKept
<1> QED BY <1>1, CliCorrect, PTL
=============================================================================
