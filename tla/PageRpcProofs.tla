---------------------------- MODULE PageRpcProofs ----------------------------
(***************************************************************************)
(* Safety of the blocking pair, for any settings and any number of         *)
(* requests.                                                               *)
(*                                                                         *)
(* The client has one request outstanding, so whatever the handler has     *)
(* read or sent belongs to it: OneOutstanding says how much of the request *)
(* and of its response is where, SameRequest what it says, and LinkOK what *)
(* the two ends may know of each other's going.                            *)
(***************************************************************************)
EXTENDS PageRpc, DataLemmas

HeaderUnit == [request_id : Int, status : Int, page_number : Int]
ContentUnit == {ErrorContent} \cup {PageContent(c, p) : c \in Nat, p \in Int}

UnitsOK ==
  /\ given \in [T!End -> Sources]
  /\ correct \in Nat /\ incorrect \in Nat
  /\ request \in Seq(Int) /\ toServer \in Seq(Int)
  /\ toClient \in Seq(HeaderUnit \cup ContentUnit)
  /\ s_pc = "answer" => Len(request) = 2
  /\ c_pc = "load" => i = 0
  /\ c_pc \in {"read", "check"} => i < c_conf["NUM_REQUESTS"]

LinkOK ==
  /\ c_pc \in {"load", "connect", "aborted"} =>
       /\ s_pc \in {"none", "closed"}
       /\ link["client"] = "open" /\ link["server"] = "open"
  /\ c_pc \in {"closed", "killed"} <=> link["client"] = "closed"
  /\ link["server"] \in {"fin", "rst", "dead"} => link["client"] = "closed"
  /\ link["client"] = "closed" => link["server"] # "open"
  /\ link["server"] = "closed" => link["client"] # "open" /\ s_pc = "closed"
  /\ link["client"] \in {"fin", "rst", "dead"} => s_pc = "closed"
  /\ link["server"] = "dead" => s_pc \notin {"none", "backlog", "answer"}

OneOutstanding ==
  /\ s_pc = "answer" => toServer = <<>>
  /\ link["server"] = "dead" /\ s_pc = "read" => toServer = <<>>
  /\ c_pc # "read" => toClient = <<>>
  /\ link["client"] = "open" /\ c_pc # "read" => toServer = <<>> /\ s_pc # "answer"
  /\ c_pc = "read" => total_read + Len(toClient) <= 2
  /\ c_pc = "read" /\ s_pc = "answer" => total_read = 0 /\ toClient = <<>>
  /\ c_pc = "read" /\ toServer # <<>> => total_read = 0 /\ toClient = <<>>
  /\ c_pc = "read" => total_read < 2
  /\ c_pc = "check" => total_read = 2

Words == <<Swap(i), Swap(i % c_conf["PAGE_COUNT"])>>
Answers(header) ==
  /\ header.request_id = Swap(Swap(Words[1]))
  /\ header.page_number = Swap(Swap(Words[2]))

SameRequest ==
  /\ c_pc \in {"read", "check"} => c_conf["PAGE_COUNT"] # 0
  /\ c_pc = "read" /\ link["client"] = "open" /\ s_pc # "close" => toServer \in {<<>>, Words}
  /\ c_pc = "read" /\ s_pc = "answer" => request = Words
  /\ c_pc = "read" /\ total_read = 0 /\ toClient # <<>> => Answers(toClient[1])
  /\ c_pc \in {"read", "check"} /\ total_read > 0 => Answers(response[1])

RpcInv == RpcTypeOK /\ UnitsOK /\ LinkOK /\ OneOutstanding /\ SameRequest /\ ServerNeverSignalled

-----------------------------------------------------------------------------

LEMMA SwapIsInteger == ASSUME NEW n \in Int PROVE Swap(n) \in Int
<1>1. Base \in Nat \ {0}  BY PageDataAssumption
<1>2. n % Base \in Int /\ n \div Base \in Int  BY <1>1
<1> DEFINE r == n % Base
           q == n \div Base
<1>3. r \in Int /\ q \in Int  BY <1>2
<1> HIDE DEF r, q
<1>4. Base * r + q \in Int  BY <1>1, <1>3
<1> QED  BY <1>4 DEF Swap, r, q

LEMMA DigitsAreUnique ==
  ASSUME NEW b \in Nat \ {0}, NEW q \in Int, NEW r \in 0..(b - 1)
  PROVE  (b * q + r) % b = r /\ (b * q + r) \div b = q
<1>1. b * q \in Int  OBVIOUS
<1>2. b * q + r \in Int /\ b * q + r = b * q + r  BY <1>1
<1> QED  OBVIOUS

\* Two changes of the byte order give a word back.
LEMMA SwapTwice == ASSUME NEW n \in Nat, n < Base * Base PROVE Swap(Swap(n)) = n
<1>1. Base \in Nat \ {0}  BY PageDataAssumption
<1> DEFINE r == n % Base
           q == n \div Base
<1>2. r \in 0..(Base - 1) /\ q \in Nat /\ n = Base * q + r
  BY <1>1
<1>3. q \in 0..(Base - 1)
  <2>1. Base * q < Base * Base
    <3> HIDE DEF q, r
    <3>1. Base * q \in Int /\ Base * Base \in Int BY <1>1, <1>2
    <3> QED  BY <1>1, <1>2, <3>1
  <2>2. q < Base
    <3> HIDE DEF q, r
    <3>1. SUFFICES ASSUME q >= Base PROVE FALSE  BY <1>1, <1>2
    <3>2. \A d \in Nat : Base * (Base + d) = Base * Base + Base * d /\ Base * d \in Nat
      BY <1>1
    <3>3. q - Base \in Nat /\ q = Base + (q - Base)  BY <1>1, <1>2, <3>1
    <3>4. Base * q = Base * Base + Base * (q - Base) /\ Base * (q - Base) \in Nat
      BY <3>2, <3>3
    <3>5. Base * q >= Base * Base  BY <1>1, <3>4
    <3> QED  BY <1>1, <1>2, <2>1, <3>5
  <2> QED  BY <1>1, <1>2, <2>2
<1> HIDE DEF q, r
<1>4. Swap(n) = Base * r + q  BY DEF Swap, q, r
<1>5. (Base * r + q) % Base = q /\ (Base * r + q) \div Base = r
  BY <1>1, <1>2, <1>3, DigitsAreUnique
<1>6. Swap(Swap(n)) = Base * q + r  BY <1>4, <1>5 DEF Swap
<1> QED  BY <1>2, <1>6

LEMMA PairOfSequence ==
  ASSUME NEW S, NEW seq \in Seq(S), Len(seq) = 2
  PROVE  seq[1] \in S /\ seq[2] \in S
<1>1. \A k \in DOMAIN seq : seq[k] \in S  OBVIOUS
<1>2. DOMAIN seq = 1..2  OBVIOUS
<1>3. 1 \in 1..2 /\ 2 \in 1..2  OBVIOUS
<1> QED  BY <1>1, <1>2, <1>3, Zenon

-----------------------------------------------------------------------------

(* What load_config computes, for every file and every environment.        *)

\* The lines about a key, and the last of some lines.
About(file, s, key) == {n \in s : file[n].key = key}
LastOf(L) == CHOOSE n \in L : \A k \in L : k <= n

LEMMA LastExists ==
  ASSUME NEW m \in Nat, NEW L \in SUBSET (1..m), L # {}
  PROVE  LastOf(L) \in L /\ \A k \in L : k <= LastOf(L)
<1> DEFINE U == {n \in Nat : \A k \in L : k <= n}
<1>1. PICK n \in U : \A u \in U : n <= u
  <2>1. m \in U /\ U \in SUBSET Nat  OBVIOUS
  <2> QED  BY <2>1, LeastNumber
<1>2. n \in L
  <2>1. SUFFICES ASSUME n \notin L PROVE FALSE  OBVIOUS
  <2>2. PICK k \in L : TRUE  OBVIOUS
  <2>3. k \in 1..m /\ k <= n /\ n \in Nat  BY <1>1
  <2>4. n - 1 \in Nat /\ \A j \in L : j <= n - 1
    <3>1. \A j \in L : j \in Nat /\ j <= n /\ j # n  BY <1>1, <2>1
    <3> QED  BY <2>3, <3>1
  <2>5. n <= n - 1  BY <1>1, <2>4
  <2> QED  BY <2>3, <2>5
<1>3. \A k \in L : k <= n  BY <1>1
<1> QED  BY <1>2, <1>3 DEF LastOf

LEMMA LastIs ==
  ASSUME NEW L \in SUBSET Nat, NEW n \in L, \A k \in L : k <= n
  PROVE  LastOf(L) = n /\ Max(L) = n
<1>1. LastOf(L) \in L /\ \A k \in L : k <= LastOf(L)  BY DEF LastOf
<1>2. \A k \in L : n >= k  OBVIOUS
<1>3. Max(L) \in L /\ \A k \in L : Max(L) >= k  BY <1>2 DEF Max
<1>4. \A a, b \in Nat : a <= b /\ b <= a => a = b  OBVIOUS
<1> QED  BY <1>1, <1>3, <1>4

\* The settings after the lines s of a file, without the fold.
Refused(file, s) == \E n \in s : file[n].key \in Setting /\ file[n].value = NotANumber
Said(file, s) ==
  IF Refused(file, s) THEN Thrown
  ELSE [key \in Setting |->
          IF About(file, s, key) = {} THEN Defaults[key]
          ELSE Narrow(key, file[LastOf(About(file, s, key))].value)]

LEMMA ThrownIsNoSettings == ASSUME NEW f, DOMAIN f = Setting PROVE f # Thrown
<1>1. DOMAIN Thrown = {"exception"} /\ "exception" \notin Setting  BY DEF Thrown, Setting
<1> QED  BY <1>1

LEMMA SaidOrThrown == \A file, s : Said(file, s) = Thrown <=> Refused(file, s)
BY ThrownIsNoSettings DEF Said

\* One line more.
LEMMA SaidNext ==
  ASSUME NEW file \in Seq(EnvLine), NEW s \in SUBSET DOMAIN file, s # {}
  PROVE  Said(file, s) = parse_env_line(Said(file, s \ {Max(s)}), file[Max(s)])
<1> DEFINE m == Max(s)
           t == s \ {m}
<1>1. m \in s /\ \A k \in s : k <= m
  <2>1. s \subseteq 1..Len(file) /\ Len(file) \in Nat  OBVIOUS
  <2>2. LastOf(s) \in s /\ \A k \in s : k <= LastOf(s)  BY <2>1, LastExists
  <2>3. s \subseteq Nat  BY <2>1
  <2>4. Max(s) = LastOf(s)  BY <2>2, <2>3, LastIs
  <2> QED  BY <2>2, <2>4
<1> HIDE DEF m
<1>2. file[m] \in EnvLine  BY <1>1, ElementOfQueue
<1>3. Refused(file, s) <=> Refused(file, t) \/ (file[m].key \in Setting /\ file[m].value = NotANumber)
  BY <1>1 DEF Refused
<1>4. CASE Refused(file, t)
  BY <1>3, <1>4, SaidOrThrown DEF parse_env_line, m
<1>5. CASE ~Refused(file, t) /\ file[m].key \notin Setting
  <2>1. \A key \in Setting : About(file, s, key) = About(file, t, key)  BY <1>5 DEF About
  <2>2. Said(file, s) = Said(file, t)  BY <1>3, <1>5, <2>1 DEF Said
  <2> QED  BY <1>5, <2>2 DEF parse_env_line, m
<1>6. CASE ~Refused(file, t) /\ file[m].key \in Setting /\ file[m].value = NotANumber
  BY <1>3, <1>6, SaidOrThrown DEF parse_env_line, m
<1>7. CASE ~Refused(file, t) /\ file[m].key \in Setting /\ file[m].value # NotANumber
  <2> DEFINE key == file[m].key
  <2>1. \A k \in Setting \ {key} : About(file, s, k) = About(file, t, k)  BY <1>7 DEF About
  <2>2. LastOf(About(file, s, key)) = m /\ About(file, s, key) # {}
    <3>1. m \in About(file, s, key) /\ About(file, s, key) \subseteq s  BY <1>1 DEF About
    <3>2. About(file, s, key) \in SUBSET Nat  BY <3>1
    <3>3. \A k \in About(file, s, key) : k <= m  BY <1>1, <3>1
    <3> QED  BY <3>1, <3>2, <3>3, LastIs
  <2> HIDE DEF key
  <2>3. Said(file, t) # Thrown /\ ~Refused(file, s)  BY <1>3, <1>7, SaidOrThrown
  <2>4. Said(file, s) = [Said(file, t) EXCEPT ![key] = Narrow(key, file[m].value)]
    BY <1>7, <2>1, <2>2, <2>3 DEF Said
  <2> QED  BY <1>7, <2>3, <2>4 DEF parse_env_line, m, key
<1> QED  BY <1>4, <1>5, <1>6, <1>7

\* What the fold computes over each part of the lines.
IsFold(g, file) ==
  g = [s \in SUBSET DOMAIN file |->
         IF s = {} THEN Defaults ELSE parse_env_line(g[s \ {Max(s)}], file[Max(s)])]

LEMMA FoldIs ==
  ASSUME NEW file \in Seq(EnvLine)
  PROVE  FoldLeft(parse_env_line, Defaults, file) = Said(file, DOMAIN file)
<1>1. Said(file, {}) = Defaults
  <2>1. Defaults = [key \in Setting |-> Defaults[key]]  BY ConfigAssumption
  <2>2. ~Refused(file, {}) /\ \A key : About(file, {}, key) = {}  BY DEF Refused, About
  <2> QED  BY <2>1, <2>2 DEF Said
<1>2. \E g : IsFold(g, file)
  <2> DEFINE g == [s \in SUBSET DOMAIN file |-> Said(file, s)]
  <2>1. ASSUME NEW s \in SUBSET DOMAIN file
        PROVE  g[s] = IF s = {} THEN Defaults ELSE parse_env_line(g[s \ {Max(s)}], file[Max(s)])
    BY <1>1, SaidNext
  <2>2. IsFold(g, file)  BY <2>1 DEF IsFold
  <2> QED  BY <2>2
<1>3. PICK g : IsFold(g, file) /\ FoldLeft(parse_env_line, Defaults, file) = g[DOMAIN file]
  <2>1. FoldLeft(parse_env_line, Defaults, file) = (CHOOSE g : IsFold(g, file))[DOMAIN file]
    BY DEF FoldLeft, MapThenFoldSet, IsFold
  <2> QED  BY <1>2, <2>1
<1> DEFINE P == {n \in Nat : n <= Len(file) => g[1..n] = Said(file, 1..n)}
<1>4. 0 \in P
  <2>1. 1..0 = {} /\ {} \in SUBSET DOMAIN file  OBVIOUS
  <2>2. g[{}] = Defaults  BY <1>3, <2>1 DEF IsFold
  <2> QED  BY <1>1, <2>1, <2>2
<1>5. ASSUME NEW n \in Nat, n \in P PROVE n + 1 \in P
  <2> SUFFICES ASSUME n + 1 <= Len(file) PROVE g[1..(n + 1)] = Said(file, 1..(n + 1))
    OBVIOUS
  <2> DEFINE s == 1..(n + 1)
  <2>1. s \in SUBSET DOMAIN file /\ s # {} /\ s \subseteq Nat
    <3>1. DOMAIN file = 1..Len(file) /\ Len(file) \in Nat  OBVIOUS
    <3>2. s \subseteq 1..Len(file)  BY <3>1
    <3>3. n + 1 \in s  OBVIOUS
    <3> QED  BY <3>1, <3>2, <3>3
  <2>2. Max(s) = n + 1
    <3>1. n + 1 \in s /\ \A k \in s : k <= n + 1  OBVIOUS
    <3> QED  BY <2>1, <3>1, LastIs
  <2>3. s \ {n + 1} = 1..n  OBVIOUS
  <2> HIDE DEF s
  <2>4. g[s] = parse_env_line(g[s \ {Max(s)}], file[Max(s)])  BY <1>3, <2>1 DEF IsFold
  <2>5. g[1..n] = Said(file, 1..n)
    <3>1. n <= Len(file)  OBVIOUS
    <3> QED  BY <1>5, <3>1
  <2>6. g[s] = Said(file, s)  BY <2>1, <2>2, <2>3, <2>4, <2>5, SaidNext
  <2> QED  BY <2>6 DEF s
<1> HIDE DEF P
<1>6. Len(file) \in P  BY <1>4, <1>5, Induction
<1>7. DOMAIN file = 1..Len(file)  OBVIOUS
<1> QED  BY <1>3, <1>6, <1>7 DEF P

-----------------------------------------------------------------------------

LEMMA NarrowIs ==
  ASSUME NEW key, NEW value \in Nat
  PROVE  /\ Narrow(key, value) \in Nat
         /\ Narrow(key, value) = value \/ (key = "PORT" /\ value >= 2^PortBits)
<1> DEFINE ports == 2^PortBits
<1>1. ports \in Nat \ {0}  BY ConfigAssumption
<1> HIDE DEF ports
<1>2. value % ports \in Nat /\ (value < ports => value % ports = value)  BY <1>1
<1> QED  BY <1>1, <1>2 DEF Narrow, ports

(***************************************************************************)
(* load_config (static_config.hpp 20 to 43) returns settings, and those    *)
(* that the source means, or it throws: for any lines and any environment. *)
(***************************************************************************)
THEOREM LoadedAsMeant ==
  ASSUME NEW source \in Sources, load_config(source.file, source.env) # Thrown
  PROVE  /\ load_config(source.file, source.env) \in [Setting -> Nat]
         /\ Respected(load_config(source.file, source.env), source)
<1> DEFINE file == source.file
           env == source.env
           said == Said(file, DOMAIN file)
           conf == load_config(file, env)
<1>1. /\ file \in Seq(EnvLine) /\ DOMAIN env \subseteq Setting
      /\ \A key \in DOMAIN env : env[key] \in Value
  BY SourcesAssumption
<1> HIDE DEF file, env
<1>2. FoldLeft(parse_env_line, Defaults, file) = said  BY <1>1, FoldIs
<1> HIDE DEF said
<1>3. conf = Validate(Override(said, env))  BY <1>2 DEF load_config
<1>4. conf = Override(said, env) /\ conf # Thrown
  BY <1>3 DEF Validate, file, env
<1>5. /\ said # Thrown /\ \A key \in DOMAIN env : env[key] # NotANumber
      /\ conf = [key \in Setting |-> IF key \in DOMAIN env THEN Narrow(key, env[key]) ELSE said[key]]
  BY <1>4 DEF Override
<1> HIDE DEF conf
<1>6. ASSUME NEW key \in Setting
      PROVE  /\ conf[key] \in Nat
             /\ conf[key] = Meant(file, env, key)
                  \/ (key = "PORT" /\ Meant(file, env, key) >= 2^PortBits)
  <2>1. CASE key \in DOMAIN env
    <3>1. env[key] \in Nat  BY <1>1, <1>5, <2>1 DEF Value
    <3>2. conf[key] = Narrow(key, env[key]) /\ Meant(file, env, key) = env[key]
      BY <1>5, <2>1 DEF Meant
    <3> QED  BY <3>1, <3>2, NarrowIs
  <2>2. CASE key \notin DOMAIN env /\ LinesOf(file, key) = {}
    <3>1. conf[key] = said[key] /\ Meant(file, env, key) = Defaults[key]
      BY <1>5, <2>2 DEF Meant
    <3>2. said[key] = Defaults[key]
      BY <1>5, <2>2, SaidOrThrown DEF said, Said, About, LinesOf
    <3> QED  BY <3>1, <3>2, ConfigAssumption
  <2>3. CASE key \notin DOMAIN env /\ LinesOf(file, key) # {}
    <3> DEFINE n == LastOf(LinesOf(file, key))
    <3>1. conf[key] = said[key] /\ Meant(file, env, key) = file[n].value
      BY <1>5, <2>3 DEF Meant, LastOf
    <3>2. n \in LinesOf(file, key)
      <4>1. Len(file) \in Nat /\ LinesOf(file, key) \in SUBSET (1..Len(file))
        BY <1>1 DEF LinesOf
      <4> QED  BY <2>3, <4>1, LastExists
    <3> HIDE DEF n
    <3>3. n \in DOMAIN file /\ file[n].key = key  BY <3>2 DEF LinesOf
    <3>4. file[n].value # NotANumber
      BY <1>5, <3>3, SaidOrThrown DEF said, Refused
    <3>5. file[n].value \in Nat
      <4>1. file[n] \in EnvLine  BY <1>1, <3>3, ElementOfQueue
      <4> QED  BY <3>4, <4>1 DEF EnvLine, Value
    <3>6. said[key] = Narrow(key, file[n].value)
      BY <1>5, <2>3, SaidOrThrown DEF said, Said, About, LinesOf, n
    <3> QED  BY <3>1, <3>5, <3>6, NarrowIs
  <2> QED  BY <2>1, <2>2, <2>3
<1>7. conf \in [Setting -> Nat]  BY <1>5, <1>6
<1>8. Respected(conf, source)  BY <1>6 DEF Respected, file, env
<1> QED  BY <1>7, <1>8 DEF conf, file, env

-----------------------------------------------------------------------------

LEMMA LoadedIsSettings ==
  ASSUME UnitsOK, NEW e \in T!End, load_config(given[e].file, given[e].env) # Thrown
  PROVE  load_config(given[e].file, given[e].env) \in [Setting -> Nat]
BY LoadedAsMeant DEF UnitsOK

LEMMA InvInit == RpcInit => RpcInv
<1> SUFFICES ASSUME RpcInit PROVE RpcInv
  OBVIOUS
<1>1. RpcTypeOK
  <2>1. Defaults["NUM_REQUESTS"] \in Nat  BY ConfigAssumption DEF Setting
  <2>2. 0 \in 0..Defaults["NUM_REQUESTS"] /\ 0 + 0 \in 0..0 /\ Len(<<>>) = 0
    BY <2>1
  <2> QED  BY <2>1, <2>2, ConfigAssumption DEF RpcInit, RpcTypeOK, T!End, T!Link
<1>2. UnitsOK
  BY DEF RpcInit, UnitsOK
<1> QED
  BY <1>1, <1>2 DEF RpcInit, RpcInv, LinkOK, OneOutstanding, SameRequest,
                    ServerNeverSignalled, T!End

LEMMA InvLoadClient == RpcInv /\ LoadClient /\ UNCHANGED given => RpcInv'
<1> SUFFICES ASSUME RpcInv, LoadClient, UNCHANGED given PROVE RpcInv'
  OBVIOUS
<1> USE DEF RpcInv, LoadClient, serverSide, network
<1>1. c_conf' \in [Setting -> Nat] /\ c_pc' \in {"aborted", "connect"}
  BY LoadedIsSettings DEF RpcTypeOK, T!End
<1>2. RpcTypeOK'
  <2>1. c_conf'["NUM_REQUESTS"] \in Nat  BY <1>1 DEF Setting
  <2>2. i' = 0 /\ 0 \in 0..c_conf'["NUM_REQUESTS"]  BY <2>1 DEF UnitsOK
  <2> QED  BY <1>1, <2>2 DEF RpcTypeOK
<1>3. UnitsOK'
  BY <1>1 DEF UnitsOK
<1>4. LinkOK'
  BY <1>1 DEF LinkOK
<1>5. OneOutstanding' /\ SameRequest'
  BY <1>1 DEF OneOutstanding, SameRequest
<1> QED
  BY <1>2, <1>3, <1>4, <1>5 DEF ServerNeverSignalled

LEMMA InvConnect == RpcInv /\ Connect /\ UNCHANGED given => RpcInv'
<1> SUFFICES ASSUME RpcInv, Connect, UNCHANGED given PROVE RpcInv'
  OBVIOUS
<1> USE DEF RpcInv, Connect, network
<1>1. RpcTypeOK'
  BY DEF RpcTypeOK
<1>2. UnitsOK' /\ LinkOK'
  BY DEF UnitsOK, LinkOK
<1>3. OneOutstanding' /\ SameRequest'
  BY DEF OneOutstanding, SameRequest, LinkOK
<1> QED
  BY <1>1, <1>2, <1>3 DEF ServerNeverSignalled

\* What the client's close, or the end of its process, does to the wire.
LEMMA HangupOfClient ==
  ASSUME RpcInv, ClientHangsUp
  PROVE  /\ toClient' = <<>> /\ toServer' \in Seq(Int)
         /\ Len(toServer') <= Len(toServer) /\ (toServer = <<>> => toServer' = <<>>)
         /\ link' \in [T!End -> T!Link] /\ link'["client"] = "closed"
         /\ link'["server"] = link["server"] \/ link'["server"] \in {"fin", "rst"}
         /\ link'["server"] # "open"
         /\ link'["server"] = "dead" => link["server"] = "dead"
<1> USE DEF RpcInv, ClientHangsUp, T!ClientClose
<1>1. PICK n \in 0..Len(toServer) : toServer' = SubSeq(toServer, 1, n)
  OBVIOUS
<1>2. toServer' \in Seq(Int) /\ Len(toServer') = n /\ Len(toServer) \in Nat
  BY <1>1, Cut DEF UnitsOK
<1>3. toServer = <<>> => toServer' = <<>>
  BY <1>2, <1>1
<1>4. link' = [link EXCEPT !["client"] = "closed",
                 !["server"] = IF @ # "open" THEN @ ELSE IF Len(toClient) > 0 THEN "rst" ELSE "fin"]
  BY DEF T!Hangup
<1>5. link \in [T!End -> T!Link]  BY DEF RpcTypeOK
<1> QED
  BY <1>2, <1>3, <1>4, <1>5 DEF T!End, T!Link

LEMMA InvClientGoes ==
  ASSUME RpcInv, ClientHangsUp, c_pc \in {"send", "read", "check"}, c_pc' \in {"closed", "killed"},
         UNCHANGED <<given, c_conf, i, total_read, response, correct, incorrect, serverSide>>
  PROVE  RpcInv'
<1> USE DEF RpcInv, serverSide
<1>1. RpcTypeOK'
  <2>1. Len(toServer') \in 0..2 /\ Len(toClient') \in 0..2
    <3>1. Len(toServer') \in Nat /\ Len(toServer') <= Len(toServer)  BY HangupOfClient
    <3>2. Len(toServer) \in 0..2  BY DEF RpcTypeOK
    <3>3. Len(toServer') \in 0..2  BY <3>1, <3>2
    <3> QED  BY <3>3, HangupOfClient
  <2> QED  BY <2>1, HangupOfClient DEF RpcTypeOK
<1>2. UnitsOK'
  <2>1. toClient' \in Seq(HeaderUnit \cup ContentUnit)  BY HangupOfClient
  <2> QED  BY <2>1, HangupOfClient DEF UnitsOK
<1>3. LinkOK'
  BY HangupOfClient DEF LinkOK
<1>4. OneOutstanding'
  BY HangupOfClient DEF OneOutstanding
<1>5. SameRequest'
  BY DEF SameRequest
<1> QED
  BY <1>1, <1>2, <1>3, <1>4, <1>5 DEF ServerNeverSignalled

LEMMA PageNumberIsInteger ==
  ASSUME RpcTypeOK, c_conf["PAGE_COUNT"] # 0
  PROVE  i \in Nat /\ i % c_conf["PAGE_COUNT"] \in Nat /\ i % c_conf["PAGE_COUNT"] <= i
<1>1. i \in Nat /\ c_conf["PAGE_COUNT"] \in Nat \ {0}
  BY DEF RpcTypeOK, Setting
<1> DEFINE p == c_conf["PAGE_COUNT"]
<1> HIDE DEF p
<1>2. p \in Nat \ {0} => i % p \in Nat /\ i % p <= i
  BY <1>1
<1> QED  BY <1>1, <1>2 DEF p

LEMMA InvSend == RpcInv /\ Send /\ UNCHANGED given => RpcInv'
<1> SUFFICES ASSUME RpcInv, Send, UNCHANGED given PROVE RpcInv'
  OBVIOUS
<1>0. RpcTypeOK /\ UnitsOK /\ LinkOK /\ OneOutstanding /\ SameRequest
  BY DEF RpcInv
<1>1. /\ c_pc = "send" /\ i < c_conf["NUM_REQUESTS"] /\ c_conf["PAGE_COUNT"] # 0
      /\ total_read' = 0 /\ toClient' = toClient
      /\ UNCHANGED <<given, c_conf, response, correct, incorrect, s_main, s_conf, s_pc, request>>
  BY <1>0 DEF Send, MaySend, serverSide, RpcTypeOK, Setting
<1>2. Words \in Seq(Int) /\ Len(Words) = 2
  <2>1. i \in Int /\ i % c_conf["PAGE_COUNT"] \in Int  BY <1>0, <1>1, PageNumberIsInteger
  <2>2. Swap(i) \in Int /\ Swap(i % c_conf["PAGE_COUNT"]) \in Int  BY <2>1, SwapIsInteger
  <2> QED  BY <2>2 DEF Words
<1>3. PICK res \in {2, T!Error} :
        /\ T!ClientSend(Words, res)
        /\ IF res = 2 THEN c_pc' = "read" /\ UNCHANGED i ELSE i' = i + 1 /\ UNCHANGED c_pc
  BY DEF Send, Requested, Words
<1>4. toClient = <<>>  BY <1>0, <1>1 DEF OneOutstanding
<1>5. CASE link["client"] = "open"
  <2>1. toServer = <<>> /\ s_pc # "answer"  BY <1>0, <1>1, <1>5 DEF OneOutstanding
  <2>2. toServer' = toServer \o Words /\ res = 2 /\ link' = link
    BY <1>2, <1>3, <1>5 DEF T!ClientSend, T!SendInVain, T!Broken, T!Error
  <2>3. toServer' = Words  BY <1>2, <2>1, <2>2
  <2>4. c_pc' = "read" /\ i' = i  BY <1>3, <2>2
  <2>5. RpcTypeOK'
    <3>1. Len(toServer') \in 0..2 /\ Len(toClient') \in 0..2  BY <1>1, <1>2, <1>4, <2>3
    <3> QED  BY <1>0, <1>1, <2>2, <2>4, <3>1 DEF RpcTypeOK
  <2>6. UnitsOK'
    BY <1>0, <1>1, <1>2, <2>3, <2>4 DEF UnitsOK
  <2>7. LinkOK'
    BY <1>0, <1>1, <2>2, <2>4 DEF LinkOK
  <2>8. OneOutstanding'
    <3>1. total_read' + Len(toClient') <= 2  BY <1>1, <1>4
    <3>2. link["server"] # "dead"  BY <1>0, <1>5 DEF LinkOK
    <3> QED  BY <1>1, <1>4, <2>1, <2>2, <2>4, <3>1, <3>2 DEF OneOutstanding
  <2>9. SameRequest'
    <3>1. Words' = Words  BY <1>1, <2>4 DEF Words
    <3> QED  BY <1>1, <1>4, <2>1, <2>3, <2>4, <3>1 DEF SameRequest
  <2> QED
    BY <1>1, <2>5, <2>6, <2>7, <2>8, <2>9 DEF RpcInv, ServerNeverSignalled
<1>6. CASE link["client"] # "open"
  <2>1. /\ toServer' = toServer
        /\ link["client"] \in {"fin", "rst", "dead"}
        /\ link'["client"] \in {"fin", "rst", "dead"} /\ link'["server"] = link["server"]
        /\ link' \in [T!End -> T!Link]
    BY <1>0, <1>3, <1>6
       DEF T!ClientSend, T!SendInVain, T!Broken, T!Mark, RpcTypeOK, T!End, T!Link
  <2>2. s_pc = "closed"  BY <1>0, <2>1 DEF LinkOK
  <2>3. i' \in 0..c_conf["NUM_REQUESTS"] /\ i <= i'
    BY <1>0, <1>1, <1>3 DEF RpcTypeOK, Setting
  <2>4. c_pc' \in {"send", "read"} /\ (c_pc' = "read" => i' = i)
    BY <1>1, <1>3
  <2>5. RpcTypeOK'
    <3>1. correct + incorrect \in 0..i'  BY <1>0, <2>3 DEF RpcTypeOK, UnitsOK
    <3> QED  BY <1>0, <1>1, <2>1, <2>3, <2>4, <3>1 DEF RpcTypeOK
  <2>6. UnitsOK'
    BY <1>0, <1>1, <2>1, <2>4 DEF UnitsOK
  <2>7. LinkOK'
    BY <1>0, <1>1, <2>1, <2>2, <2>4 DEF LinkOK
  <2>8. OneOutstanding'
    BY <1>0, <1>1, <1>4, <2>1, <2>2, <2>4 DEF OneOutstanding
  <2>9. SameRequest'
    BY <1>0, <1>1, <1>4, <2>1, <2>2, <2>4 DEF SameRequest
  <2> QED
    BY <1>0, <1>1, <2>5, <2>6, <2>7, <2>8, <2>9 DEF RpcInv, ServerNeverSignalled
<1> QED
  BY <1>5, <1>6

LEMMA InvRead == RpcInv /\ Read /\ UNCHANGED given => RpcInv'
<1> SUFFICES ASSUME RpcInv, Read, UNCHANGED given PROVE RpcInv'
  OBVIOUS
<1>0. RpcTypeOK /\ UnitsOK /\ LinkOK /\ OneOutstanding /\ SameRequest
  BY DEF RpcInv
<1>1. /\ c_pc = "read"
      /\ UNCHANGED <<given, c_conf, i, correct, incorrect, s_main, s_conf, s_pc, request>>
  BY DEF Read, serverSide
<1>2. PICK n \in 1..T!Smaller(2 - total_read, Len(toClient)) :
        /\ toClient' = SubSeq(toClient, n + 1, Len(toClient))
        /\ T!ClientReceive(n)
        /\ total_read' = total_read + n
        /\ response' = [u \in 1..2 |-> IF u \in (total_read + 1)..(total_read + n)
                                        THEN toClient[u - total_read] ELSE response[u]]
        /\ c_pc' = IF total_read + n = 2 THEN "check" ELSE "read"
  BY DEF Read
<1>3. UNCHANGED <<toServer, link>>  BY <1>2 DEF T!ClientReceive
<1>4. /\ total_read \in {0, 1} /\ Len(toClient) \in 1..2 /\ total_read + Len(toClient) <= 2
      /\ n \in 1..Len(toClient)
  BY <1>0, <1>1, <1>2 DEF RpcTypeOK, OneOutstanding, T!Smaller
<1>5. /\ toClient' \in Seq(HeaderUnit \cup ContentUnit)
      /\ Len(toClient') = Len(toClient) - n
      /\ n = Len(toClient) => toClient' = <<>>
  <2> DEFINE S == HeaderUnit \cup ContentUnit
  <2>1. toClient \in Seq(S) /\ n \in 0..Len(toClient)  BY <1>0, <1>4 DEF UnitsOK
  <2> HIDE DEF S
  <2>2. /\ toClient' \in Seq(S) /\ Len(toClient') = Len(toClient) - n
        /\ n = Len(toClient) => toClient' = <<>>
    BY <1>2, <2>1, Rest
  <2> QED  BY <2>2 DEF S
<1>6. toClient # <<>>  BY <1>4
<1>7. toServer = <<>> /\ s_pc # "answer"  BY <1>0, <1>1, <1>6 DEF OneOutstanding
<1>8. /\ total_read' \in 1..2 /\ total_read' + Len(toClient') <= 2
      /\ c_pc' = IF total_read' = 2 THEN "check" ELSE "read"
  <2>1. total_read' = total_read + n  BY <1>2
  <2>2. c_pc' = IF total_read + n = 2 THEN "check" ELSE "read"  BY <1>2
  <2>3. Len(toClient') = Len(toClient) - n  BY <1>5
  <2> QED  BY <1>4, <2>1, <2>2, <2>3
<1>9. RpcTypeOK'
  <2>1. Len(toClient') \in 0..2  BY <1>4, <1>5
  <2> QED  BY <1>0, <1>1, <1>3, <1>8, <2>1 DEF RpcTypeOK
<1>10. UnitsOK'
  BY <1>0, <1>1, <1>3, <1>5, <1>8 DEF UnitsOK
<1>11. LinkOK'
  BY <1>0, <1>1, <1>3, <1>8 DEF LinkOK
<1>12. OneOutstanding'
  <2>1. c_pc' = "check" => toClient' = <<>>  BY <1>2, <1>4, <1>5
  <2> QED  BY <1>0, <1>1, <1>3, <1>7, <1>8, <2>1 DEF OneOutstanding
<1>13. SameRequest'
  <2>1. response'[1] = IF total_read = 0 THEN toClient[1] ELSE response[1]
    <3>1. CASE total_read = 0  BY <1>2, <1>4, <3>1
    <3>2. CASE total_read = 1  BY <1>2, <1>4, <3>2
    <3> QED  BY <1>4, <3>1, <3>2
  <2>2. Answers(response'[1])
    BY <1>0, <1>1, <1>4, <1>6, <2>1 DEF SameRequest
  <2>3. Words' = Words  BY <1>1 DEF Words
  <2>4. Answers(response[1])'  BY <1>1, <2>2 DEF Answers, Words
  <2> QED  BY <1>0, <1>1, <1>3, <1>7, <1>8, <2>3, <2>4 DEF SameRequest
<1> QED
  BY <1>0, <1>1, <1>9, <1>10, <1>11, <1>12, <1>13 DEF RpcInv, ServerNeverSignalled

\* The client goes on with the next request, after a response or without.
LEMMA InvNextRequest ==
  ASSUME RpcInv, toClient = <<>>, c_pc \in {"read", "check"}, c_pc' = "send", i' = i + 1,
         toServer = <<>> \/ link["client"] # "open",
         s_pc # "answer" \/ link["client"] # "open",
         correct' + incorrect' \in 0..i', correct' \in Nat, incorrect' \in Nat,
         link' \in [T!End -> T!Link], link'["server"] = link["server"],
         \/ link'["client"] = link["client"]
         \/ {link["client"], link'["client"]} \subseteq {"fin", "rst", "dead"},
         UNCHANGED <<given, c_conf, total_read, response, serverSide, toServer, toClient>>
  PROVE  RpcInv'
<1>0. RpcTypeOK /\ UnitsOK /\ LinkOK /\ OneOutstanding /\ SameRequest
  BY DEF RpcInv
<1>1. UNCHANGED <<s_main, s_conf, s_pc, request>>
  BY DEF serverSide
<1>2. RpcTypeOK'
  <2>1. i' \in 0..c_conf["NUM_REQUESTS"]  BY <1>0 DEF RpcTypeOK, UnitsOK, Setting
  <2> QED  BY <1>0, <1>1, <2>1 DEF RpcTypeOK
<1>3. UnitsOK'
  BY <1>0, <1>1 DEF UnitsOK
<1>4. LinkOK'
  BY <1>0, <1>1 DEF LinkOK
<1>5. OneOutstanding'
  BY <1>0, <1>1 DEF OneOutstanding
<1>6. SameRequest'
  BY DEF SameRequest
<1> QED
  BY <1>1, <1>2, <1>3, <1>4, <1>5, <1>6 DEF RpcInv, ServerNeverSignalled

LEMMA InvReadEnd == RpcInv /\ ReadEnd /\ UNCHANGED given => RpcInv'
<1> SUFFICES ASSUME RpcInv, ReadEnd, UNCHANGED given PROVE RpcInv'
  OBVIOUS
<1>0. RpcTypeOK /\ UnitsOK /\ LinkOK
  BY DEF RpcInv
<1>1. PICK res \in {0, T!Error} : UNCHANGED toClient /\ T!ClientReceiveEnd(res)
  BY DEF ReadEnd
<1>2. toClient = <<>>
  BY <1>0, <1>1 DEF T!ClientReceiveEnd, UnitsOK
<1>3. /\ link["client"] \in {"fin", "rst", "dead"} /\ link'["client"] \in {"fin", "rst", "dead"}
      /\ link'["server"] = link["server"] /\ link' \in [T!End -> T!Link]
      /\ toServer' = toServer
  BY <1>0, <1>1 DEF T!ClientReceiveEnd, T!ReadEnd, T!Mark, RpcTypeOK, T!End, T!Link
<1>4. correct + incorrect \in 0..(i + 1)
  BY <1>0 DEF RpcTypeOK, UnitsOK
<1> QED
  BY <1>0, <1>1, <1>2, <1>3, <1>4, InvNextRequest DEF ReadEnd, UnitsOK

LEMMA InvCheck == RpcInv /\ Check /\ UNCHANGED given => RpcInv'
<1> SUFFICES ASSUME RpcInv, Check, UNCHANGED given PROVE RpcInv'
  OBVIOUS
<1>0. RpcTypeOK /\ UnitsOK /\ LinkOK /\ OneOutstanding
  BY DEF RpcInv
<1>1. /\ c_pc = "check" /\ c_pc' = "send" /\ i' = i + 1
      /\ \/ correct' = correct + 1 /\ incorrect' = incorrect
         \/ incorrect' = incorrect + 1 /\ correct' = correct
      /\ UNCHANGED <<c_conf, total_read, response, serverSide, toServer, toClient, link>>
  BY DEF Check, network
<1>2. correct' + incorrect' \in 0..(i + 1) /\ correct' \in Nat /\ incorrect' \in Nat
  BY <1>0, <1>1 DEF RpcTypeOK, UnitsOK
<1>3. /\ toClient = <<>> /\ (toServer = <<>> \/ link["client"] # "open")
      /\ (s_pc # "answer" \/ link["client"] # "open")
  BY <1>0, <1>1 DEF OneOutstanding
<1>4. link \in [T!End -> T!Link]  BY <1>0 DEF RpcTypeOK
<1> QED
  BY <1>1, <1>2, <1>3, <1>4, InvNextRequest

-----------------------------------------------------------------------------

\* The steps of the server that stay clear of the connection.
LEMMA InvMain ==
  ASSUME RpcInv, LoadServer \/ Listen \/ Accept, UNCHANGED given
  PROVE  RpcInv'
<1>0. RpcTypeOK /\ UnitsOK /\ LinkOK /\ OneOutstanding /\ SameRequest
  BY DEF RpcInv
<1>1. /\ UNCHANGED <<given, c_pc, c_conf, i, total_read, response, correct, incorrect,
                     request, toServer, toClient, link>>
      /\ s_pc' = s_pc \/ (s_pc = "backlog" /\ s_pc' = "read")
      /\ s_main' \in {"listen", "accept", "down"}
  BY DEF LoadServer, Listen, Accept, clientSide, network
<1>2. s_conf' \in [Setting -> Nat]
  BY <1>0, LoadedIsSettings DEF LoadServer, Listen, Accept, RpcTypeOK, T!End
<1>3. RpcTypeOK' /\ UnitsOK'
  BY <1>0, <1>1, <1>2 DEF RpcTypeOK, UnitsOK
<1>4. LinkOK' /\ OneOutstanding'
  BY <1>0, <1>1 DEF LinkOK, OneOutstanding
<1>5. SameRequest'
  BY <1>0, <1>1 DEF SameRequest, Words, Answers
<1> QED
  BY <1>1, <1>3, <1>4, <1>5 DEF RpcInv, ServerNeverSignalled

LEMMA InvHandlerRead == RpcInv /\ HandlerRead /\ UNCHANGED given => RpcInv'
<1> SUFFICES ASSUME RpcInv, HandlerRead, UNCHANGED given PROVE RpcInv'
  OBVIOUS
<1>0. RpcTypeOK /\ UnitsOK /\ LinkOK /\ OneOutstanding /\ SameRequest
  BY DEF RpcInv
<1>1. /\ s_pc = "read"
      /\ UNCHANGED <<given, c_pc, c_conf, i, total_read, response, correct, incorrect,
                     s_main, s_conf, toClient>>
  BY DEF HandlerRead, clientSide
<1>2. PICK n \in 1..T!Smaller(2, Len(toServer)) :
        /\ T!ServerRead(SubSeq(toServer, 1, n))
        /\ request' = SubSeq(toServer, 1, n)
        /\ s_pc' = IF n = 2 THEN "answer" ELSE "close"
  BY DEF HandlerRead
<1>3. toServer \in Seq(Int) /\ Len(toServer) \in 1..2 /\ n \in 1..Len(toServer) /\ n \in 1..2
  BY <1>0, <1>2 DEF RpcTypeOK, UnitsOK, T!Smaller
<1>4. /\ request' \in Seq(Int) /\ Len(request') = n
      /\ n = Len(toServer) => request' = toServer
  BY <1>2, <1>3, Cut
<1>5. link' = link /\ toServer' = SubSeq(toServer, n + 1, Len(toServer))
  <2>1. Len(SubSeq(toServer, 1, n)) = n  BY <1>3, Cut
  <2> QED  BY <1>2, <2>1 DEF T!ServerRead
<1>6. /\ toServer' \in Seq(Int) /\ Len(toServer') = Len(toServer) - n
      /\ n = Len(toServer) => toServer' = <<>>
  BY <1>3, <1>5, Rest
<1>7. s_pc' = "answer" => toServer' = <<>> /\ request' = toServer /\ Len(request') = 2
  BY <1>2, <1>3, <1>4, <1>6
<1>8. s_pc' \in {"answer", "close"} /\ toServer # <<>>
  BY <1>2, <1>3
<1>9. RpcTypeOK'
  <2>1. Len(request') = n /\ Len(toServer') = Len(toServer) - n  BY <1>4, <1>6
  <2>2. \A m \in 1..2 : \A k \in 1..m : k \in 0..2 /\ m - k \in 0..2  OBVIOUS
  <2>3. Len(request') \in 0..2 /\ Len(toServer') \in 0..2  BY <1>3, <2>1, <2>2, Zenon
  <2> QED  BY <1>0, <1>1, <1>5, <1>8, <2>3 DEF RpcTypeOK
<1>10. UnitsOK'
  BY <1>0, <1>1, <1>4, <1>6, <1>7 DEF UnitsOK
<1>11. LinkOK'
  BY <1>0, <1>1, <1>5, <1>8 DEF LinkOK, OneOutstanding
<1>12. OneOutstanding'
  BY <1>0, <1>1, <1>5, <1>7, <1>8 DEF OneOutstanding
<1>13. SameRequest'
  <2>1. Words' = Words /\ (Answers(toClient[1])' <=> Answers(toClient[1]))
        /\ (Answers(response[1])' <=> Answers(response[1]))
    BY <1>1 DEF Words, Answers
  <2>2. c_pc = "read" /\ s_pc' = "answer" => link["client"] = "open"
    BY <1>0, <1>1 DEF LinkOK, RpcTypeOK, T!End, T!Link
  <2> QED  BY <1>0, <1>1, <1>5, <1>7, <1>8, <2>1, <2>2 DEF SameRequest
<1> QED
  BY <1>0, <1>1, <1>9, <1>10, <1>11, <1>12, <1>13 DEF RpcInv, ServerNeverSignalled

LEMMA InvHandlerReadEnd == RpcInv /\ HandlerReadEnd /\ UNCHANGED given => RpcInv'
<1> SUFFICES ASSUME RpcInv, HandlerReadEnd, UNCHANGED given PROVE RpcInv'
  OBVIOUS
<1>0. RpcTypeOK /\ UnitsOK /\ LinkOK /\ OneOutstanding /\ SameRequest
  BY DEF RpcInv
<1>1. /\ s_pc = "read" /\ s_pc' = "close"
      /\ UNCHANGED <<given, c_pc, c_conf, i, total_read, response, correct, incorrect,
                     s_main, s_conf, request, toServer, toClient>>
      /\ toServer = <<>>
  BY DEF HandlerReadEnd, clientSide, T!ServerReadEnd
<1>2. /\ link' \in [T!End -> T!Link] /\ link'["client"] = link["client"]
      /\ {link["server"], link'["server"]} \subseteq {"fin", "rst", "dead"}
  BY <1>0 DEF HandlerReadEnd, T!ServerReadEnd, T!ReadEnd, T!Mark, RpcTypeOK, T!End, T!Link
<1>3. RpcTypeOK' /\ UnitsOK'
  BY <1>0, <1>1, <1>2 DEF RpcTypeOK, UnitsOK
<1>4. LinkOK' /\ OneOutstanding'
  BY <1>0, <1>1, <1>2 DEF LinkOK, OneOutstanding
<1>5. SameRequest'
  BY <1>0, <1>1, <1>2 DEF SameRequest, Words, Answers
<1> QED
  BY <1>0, <1>1, <1>3, <1>4, <1>5 DEF RpcInv, ServerNeverSignalled

LEMMA ReplyIsResponse ==
  ASSUME RpcInv, NEW id \in Int, NEW page_number \in Int
  PROVE  /\ Reply(id, page_number) \in Seq(HeaderUnit \cup ContentUnit)
         /\ Len(Reply(id, page_number)) = 2
         /\ Reply(id, page_number)[1].request_id = Swap(id)
         /\ Reply(id, page_number)[1].page_number = Swap(page_number)
<1> DEFINE header == [request_id |-> Swap(id), status |-> Swap(Status(page_number)),
                      page_number |-> Swap(page_number)]
<1>1. Status(page_number) \in Int  BY DEF Status, SUCCESS, INVALID_PAGE_NUMBER
<1>2. header \in HeaderUnit  BY <1>1, SwapIsInteger DEF HeaderUnit
<1>3. Page(page_number) \in ContentUnit
  <2>1. s_conf["PAGE_COUNT"] \in Nat  BY DEF RpcInv, RpcTypeOK, Setting
  <2> QED  BY <2>1 DEF Page, ContentUnit
<1>4. Reply(id, page_number) = <<header, Page(page_number)>>  BY DEF Reply
<1>5. header.request_id = Swap(id) /\ header.page_number = Swap(page_number)  OBVIOUS
<1> HIDE DEF header
<1> QED  BY <1>2, <1>3, <1>4, <1>5

LEMMA InvHandlerWrite == RpcInv /\ HandlerWrite /\ UNCHANGED given => RpcInv'
<1> SUFFICES ASSUME RpcInv, HandlerWrite, UNCHANGED given PROVE RpcInv'
  OBVIOUS
<1>0. RpcTypeOK /\ UnitsOK /\ LinkOK /\ OneOutstanding /\ SameRequest /\ ServerNeverSignalled
  BY DEF RpcInv
<1>1. link["server"] # "dead"
  BY <1>0 DEF HandlerWrite, LinkOK
<1>2. /\ s_pc = "answer" /\ s_pc' = "read" /\ toServer = <<>>
      /\ UNCHANGED <<given, c_pc, c_conf, i, total_read, response, correct, incorrect,
                     s_main, s_conf, request>>
  BY <1>0, <1>1 DEF HandlerWrite, clientSide, OneOutstanding
<1>3. PICK res \in {2, T!Error} : T!ServerSend(res)  BY DEF HandlerWrite
<1>4. toServer' = toServer  BY <1>3 DEF T!ServerSend
<1> DEFINE R == Reply(Swap(request[1]), Swap(request[2]))
<1>5. CASE link["server"] = "open"
  <2>1. link["client"] = "open"
    BY <1>0, <1>2, <1>5 DEF LinkOK, RpcTypeOK, T!End, T!Link
  <2>2. c_pc = "read" /\ total_read = 0 /\ toClient = <<>> /\ request = Words
    BY <1>0, <1>2, <2>1 DEF OneOutstanding, SameRequest
  <2>3. link' = link  BY <1>3, <1>5 DEF T!ServerSend, T!SendInVain, T!Broken
  <2>4. /\ R \in Seq(HeaderUnit \cup ContentUnit) /\ Len(R) = 2 /\ Answers(R[1])
    <3>1. request[1] \in Int /\ request[2] \in Int
      BY <1>0, <1>2, PairOfSequence DEF UnitsOK
    <3>2. Swap(request[1]) \in Int /\ Swap(request[2]) \in Int  BY <3>1, SwapIsInteger
    <3>3. /\ R[1].request_id = Swap(Swap(request[1]))
          /\ R[1].page_number = Swap(Swap(request[2]))
      BY <3>2, ReplyIsResponse
    <3> QED  BY <2>2, <3>2, <3>3, ReplyIsResponse DEF Answers
  <2>5. toClient' = R
    <3>1. toClient' = toClient \o R  BY <1>5 DEF HandlerWrite
    <3> HIDE DEF R
    <3> QED  BY <2>2, <2>4, <3>1
  <2> HIDE DEF R
  <2>6. RpcTypeOK' /\ UnitsOK'
    BY <1>0, <1>2, <1>4, <2>3, <2>4, <2>5 DEF RpcTypeOK, UnitsOK
  <2>7. LinkOK' /\ OneOutstanding'
    <3>1. Len(toClient') = 2  BY <2>4, <2>5
    <3>2. total_read' + Len(toClient') <= 2  BY <1>2, <2>2, <3>1
    <3>3. LinkOK'  BY <1>0, <1>1, <1>2, <2>3 DEF LinkOK
    <3>4. OneOutstanding'
      BY <1>1, <1>2, <1>4, <2>2, <2>3, <3>2 DEF OneOutstanding
    <3> QED  BY <3>3, <3>4
  <2>8. SameRequest'
    BY <1>0, <1>2, <1>4, <2>2, <2>3, <2>4, <2>5 DEF SameRequest, Words, Answers
  <2> QED
    BY <1>0, <1>2, <2>6, <2>7, <2>8 DEF RpcInv, ServerNeverSignalled
<1>6. CASE link["server"] # "open"
  <2>1. /\ toClient' = toClient /\ link' \in [T!End -> T!Link]
        /\ link["server"] \in {"fin", "rst"} /\ link'["server"] \in {"fin", "dead"}
        /\ link'["client"] = link["client"]
    BY <1>0, <1>1, <1>3, <1>6
       DEF HandlerWrite, T!ServerSend, T!SendInVain, T!Broken, T!Mark, RpcTypeOK, T!End, T!Link
  <2>2. link["client"] = "closed" /\ c_pc \in {"closed", "killed"}
    BY <1>0, <2>1 DEF LinkOK
  <2>3. RpcTypeOK' /\ UnitsOK'
    BY <1>0, <1>2, <1>4, <2>1 DEF RpcTypeOK, UnitsOK
  <2>4. LinkOK' /\ OneOutstanding'
    BY <1>0, <1>2, <1>4, <2>1, <2>2 DEF LinkOK, OneOutstanding
  <2>5. SameRequest'
    BY <1>2, <2>2 DEF SameRequest
  <2> QED
    BY <1>0, <1>2, <2>3, <2>4, <2>5 DEF RpcInv, ServerNeverSignalled
<1> QED
  BY <1>5, <1>6

\* What the handler's close, or the end of the server, does to the wire.
LEMMA HangupOfServer ==
  ASSUME RpcInv, ServerHangsUp
  PROVE  /\ toClient' \in Seq(HeaderUnit \cup ContentUnit)
         /\ Len(toClient') \in Nat /\ Len(toClient') <= Len(toClient)
         /\ toClient' # <<>> => toClient # <<>> /\ toClient'[1] = toClient[1]
         /\ Len(toClient') = 2 => Len(toClient) = 2 /\ toClient'[2] = toClient[2]
         /\ toClient = <<>> => toClient' = <<>>
         /\ toServer' = <<>>
         /\ link' \in [T!End -> T!Link] /\ link'["server"] = "closed"
         /\ IF link["client"] = "open" THEN link'["client"] \in {"fin", "rst"}
            ELSE link'["client"] = link["client"]
<1>0. RpcTypeOK /\ UnitsOK  BY DEF RpcInv
<1>1. PICK n \in 0..Len(toClient) : toClient' = SubSeq(toClient, 1, n)
  BY DEF ServerHangsUp
<1> DEFINE S == HeaderUnit \cup ContentUnit
<1>2. toClient \in Seq(S) /\ Len(toClient) \in 0..2  BY <1>0 DEF UnitsOK, RpcTypeOK
<1> HIDE DEF S
<1>3. /\ toClient' \in Seq(S) /\ Len(toClient') = n /\ (n = 0 => toClient' = <<>>)
      /\ \A k \in 1..n : toClient'[k] = toClient[k]
  BY <1>1, <1>2, Cut
<1>4. n # 0 => n \in 1..Len(toClient) /\ 1 \in 1..n /\ toClient # <<>>  BY <1>1, <1>2
<1>5. n = 2 => Len(toClient) = 2 /\ 2 \in 1..n  BY <1>1, <1>2
<1>6. toClient = <<>> => n = 0  BY <1>1
<1>7. n \in Nat /\ n <= Len(toClient)  BY <1>1, <1>2
<1>8. toServer' = <<>>  BY DEF ServerHangsUp, T!ServerClose
<1>9. /\ link' \in [T!End -> T!Link] /\ link'["server"] = "closed"
      /\ IF link["client"] = "open" THEN link'["client"] \in {"fin", "rst"}
         ELSE link'["client"] = link["client"]
  BY <1>0 DEF ServerHangsUp, T!ServerClose, T!Hangup, RpcTypeOK, T!End, T!Link
<1> QED
  BY <1>3, <1>4, <1>5, <1>6, <1>7, <1>8, <1>9 DEF S

\* The handler closes, or the server process ends.
LEMMA InvServerGoes ==
  ASSUME RpcInv, ServerHangsUp, s_pc \in {"backlog", "read", "answer", "close"},
         s_pc' = "closed", s_main' \in {s_main, "down"},
         UNCHANGED <<given, s_conf, request, clientSide>>
  PROVE  RpcInv'
<1>0. RpcTypeOK /\ UnitsOK /\ LinkOK /\ OneOutstanding /\ SameRequest /\ ServerNeverSignalled
  BY DEF RpcInv
<1>1. UNCHANGED <<c_pc, c_conf, i, total_read, response, correct, incorrect>>
  BY DEF clientSide
<1>2. Len(toClient') \in Nat /\ Len(toClient') <= Len(toClient)  BY HangupOfServer
<1>3. /\ toClient' \in Seq(HeaderUnit \cup ContentUnit)
      /\ toClient = <<>> => toClient' = <<>>
      /\ toClient' # <<>> => toClient # <<>> /\ toClient'[1] = toClient[1]
  BY HangupOfServer
<1>4. toServer' = <<>>  BY HangupOfServer
<1>5. /\ link' \in [T!End -> T!Link] /\ link'["server"] = "closed"
      /\ IF link["client"] = "open" THEN link'["client"] \in {"fin", "rst"}
         ELSE link'["client"] = link["client"]
  BY HangupOfServer
<1>6. RpcTypeOK'
  <2>1. Len(toClient) \in 0..2  BY <1>0 DEF RpcTypeOK
  <2>2. Len(toClient') \in 0..2  BY <1>2, <2>1
  <2> QED  BY <1>0, <1>1, <1>4, <1>5, <2>2 DEF RpcTypeOK
<1>7. UnitsOK'
  BY <1>0, <1>1, <1>3, <1>4 DEF UnitsOK
<1>8. LinkOK'
  BY <1>0, <1>1, <1>5 DEF LinkOK
<1>9. OneOutstanding'
  <2>1. total_read + Len(toClient) <= 2 => total_read + Len(toClient') <= 2
    BY <1>0, <1>2 DEF RpcTypeOK
  <2> QED  BY <1>0, <1>1, <1>3, <1>4, <1>5, <2>1 DEF OneOutstanding
<1>10. SameRequest'
  BY <1>0, <1>1, <1>3, <1>4, <1>5 DEF SameRequest, Words, Answers
<1> QED
  BY <1>0, <1>6, <1>7, <1>8, <1>9, <1>10 DEF RpcInv, ServerNeverSignalled

\* The server process ends without a connection.
LEMMA InvServerDown ==
  ASSUME RpcInv, s_pc \in {"none", "closed"}, s_pc' = "closed", s_main' = "down",
         UNCHANGED <<given, s_conf, request, clientSide, network>>
  PROVE  RpcInv'
<1>1. UNCHANGED <<c_pc, c_conf, i, total_read, response, correct, incorrect,
                  toServer, toClient, link>>
  BY DEF clientSide, network
<1>2. RpcTypeOK' /\ UnitsOK'
  BY <1>1 DEF RpcInv, RpcTypeOK, UnitsOK
<1>3. LinkOK' /\ OneOutstanding'
  BY <1>1 DEF RpcInv, LinkOK, OneOutstanding
<1>4. SameRequest'
  BY <1>1 DEF RpcInv, SameRequest, Words, Answers
<1> QED
  BY <1>2, <1>3, <1>4 DEF RpcInv, ServerNeverSignalled

-----------------------------------------------------------------------------

LEMMA InvStep == RpcInv /\ [RpcNext]_rpcVars => RpcInv'
<1> SUFFICES ASSUME RpcInv, [RpcNext]_rpcVars PROVE RpcInv'
  OBVIOUS
<1>1. CASE ClientStep /\ UNCHANGED given
  <2>1. CASE Divide \/ SendSignalled \/ Finish
    BY <1>1, <2>1, InvClientGoes DEF Divide, SendSignalled, Finish, MaySend
  <2> QED
    BY <1>1, <2>1, InvLoadClient, InvConnect, InvSend, InvRead, InvReadEnd, InvCheck
       DEF ClientStep
<1>2. CASE ServerStep /\ UNCHANGED given
  <2>1. CASE HandlerClose
    BY <1>2, <2>1, InvServerGoes DEF HandlerClose
  <2> QED
    BY <1>2, <2>1, InvMain, InvHandlerRead, InvHandlerReadEnd, InvHandlerWrite DEF ServerStep
<1>3. CASE ClientKilled /\ UNCHANGED given
  BY <1>3, InvClientGoes DEF ClientKilled, Connected
<1>4. CASE ServerKilled /\ UNCHANGED given
  <2>1. CASE s_pc \in {"none", "closed"}
    BY <1>4, <2>1, InvServerDown DEF ServerKilled
  <2>2. CASE s_pc \notin {"none", "closed"}
    BY <1>4, <2>2, InvServerGoes DEF ServerKilled, RpcInv, RpcTypeOK
  <2> QED  BY <2>1, <2>2
<1>5. CASE UNCHANGED rpcVars
  BY <1>5 DEF rpcVars, clientSide, serverSide, network, RpcInv, RpcTypeOK, UnitsOK, LinkOK,
              OneOutstanding, SameRequest, Words, Answers, ServerNeverSignalled
<1> QED
  BY <1>1, <1>2, <1>3, <1>4, <1>5 DEF RpcNext

(***************************************************************************)
(* The blocking pair has at most one request under way, and each end knows *)
(* of it what the other one left (client.cpp, server.cpp handle_client).   *)
(***************************************************************************)
THEOREM OneRequestUnderWay == RpcSpec => []RpcInv
  BY InvInit, InvStep, PTL DEF RpcSpec

(***************************************************************************)
(* No client, however it goes, makes the server die of SIGPIPE (server.cpp *)
(* lines 38 and 54), for any settings of the two.                          *)
(***************************************************************************)
THEOREM ServerOutlivesClients == RpcSpec => []ServerNeverSignalled
  BY OneRequestUnderWay, PTL DEF RpcInv

\* Nobody writes to a configuration but those who load it.
LEMMA ConfigStep == RpcInv /\ ConfigRespected /\ [RpcNext]_rpcVars => ConfigRespected'
<1> SUFFICES ASSUME RpcInv, ConfigRespected, [RpcNext]_rpcVars PROVE ConfigRespected'
  OBVIOUS
<1>0. given["client"] \in Sources /\ given["server"] \in Sources
  BY DEF RpcInv, UnitsOK, T!End
<1>1. CASE LoadClient /\ UNCHANGED given
  <2>1. UNCHANGED <<s_main, s_conf>>  BY <1>1 DEF LoadClient, serverSide
  <2>2. c_pc' \notin {"load", "aborted"} => Respected(c_conf', given["client"])
    BY <1>0, <1>1, LoadedAsMeant DEF LoadClient
  <2> QED  BY <1>1, <2>1, <2>2 DEF ConfigRespected, Respected
<1>2. CASE LoadServer /\ UNCHANGED given
  <2>1. UNCHANGED <<c_pc, c_conf>>  BY <1>2 DEF LoadServer, clientSide
  <2>2. s_main' \in {"listen", "accept"} => Respected(s_conf', given["server"])
    BY <1>0, <1>2, LoadedAsMeant DEF LoadServer
  <2> QED  BY <1>2, <2>1, <2>2 DEF ConfigRespected, Respected
<1>3. ASSUME /\ UNCHANGED <<given, c_conf, s_conf>>
             /\ c_pc \in {"load", "aborted"} => c_pc' \in {"load", "aborted"}
             /\ s_main' \in {"listen", "accept"} => s_main \in {"listen", "accept"}
      PROVE  ConfigRespected'
  BY <1>3 DEF ConfigRespected, Respected
<1>4. CASE UNCHANGED rpcVars
  BY <1>3, <1>4 DEF rpcVars, clientSide, serverSide
<1>5. CASE ClientStep /\ ~LoadClient /\ UNCHANGED given
  <2>1. UNCHANGED <<c_conf, s_main, s_conf>> /\ c_pc \notin {"load", "aborted"}
    BY <1>5 DEF ClientStep, Connect, Divide, Send, SendSignalled, Read, ReadEnd, Check, Finish,
                MaySend, serverSide
  <2> QED  BY <1>3, <1>5, <2>1
<1>6. CASE ServerStep /\ ~LoadServer /\ UNCHANGED given
  BY <1>3, <1>6 DEF ServerStep, Listen, Accept, HandlerRead, HandlerReadEnd, HandlerWrite,
                    HandlerClose, clientSide
<1>7. CASE ClientKilled /\ UNCHANGED given
  BY <1>3, <1>7 DEF ClientKilled, Connected, serverSide
<1>8. CASE ServerKilled /\ UNCHANGED given
  BY <1>3, <1>8 DEF ServerKilled, clientSide
<1> QED
  BY <1>1, <1>2, <1>4, <1>5, <1>6, <1>7, <1>8 DEF RpcNext

(***************************************************************************)
(* Both programs work with what the environment, the last line of the file *)
(* or the default says, in this order (static_config.hpp load_config), for *)
(* every file and every environment.                                       *)
(***************************************************************************)
THEOREM ProcessesRespectConfig == RpcSpec => []ConfigRespected
<1>1. RpcInit => ConfigRespected
  BY DEF RpcInit, ConfigRespected
<1> QED
  BY <1>1, ConfigStep, OneRequestUnderWay, PTL DEF RpcSpec

LEMMA AnswersAgree ==
  RpcInv => (c_conf["NUM_REQUESTS"] <= Base * Base => AnswerIsToRequest)
<1> SUFFICES ASSUME RpcInv, c_conf["NUM_REQUESTS"] <= Base * Base, c_pc = "check"
             PROVE  /\ Swap(Header.request_id) = i
                    /\ Swap(Header.page_number) = i % c_conf["PAGE_COUNT"]
  BY DEF AnswerIsToRequest
<1>0. RpcTypeOK /\ UnitsOK /\ OneOutstanding /\ SameRequest
  BY DEF RpcInv
<1> DEFINE p == i % c_conf["PAGE_COUNT"]
<1>1. i \in Nat /\ p \in Nat /\ p <= i /\ i < c_conf["NUM_REQUESTS"]
  BY <1>0, PageNumberIsInteger DEF UnitsOK, SameRequest
<1>2. Header.request_id = Swap(Swap(Swap(i))) /\ Header.page_number = Swap(Swap(Swap(p)))
  BY <1>0 DEF OneOutstanding, SameRequest, Answers, Words, Header
<1> HIDE DEF p
<1>3. i < Base * Base /\ p < Base * Base
  <2>1. Base * Base \in Nat /\ c_conf["NUM_REQUESTS"] \in Nat
    BY <1>0, PageDataAssumption DEF RpcTypeOK, Setting
  <2> QED  BY <1>1, <2>1
<1>4. Swap(Swap(i)) = i /\ Swap(Swap(p)) = p
  BY <1>1, <1>3, SwapTwice
<1> QED
  BY <1>2, <1>4 DEF p

(***************************************************************************)
(* A response that the client takes for good or for bad is the one to its  *)
(* last request, although it compares nothing (client.cpp lines 87 to      *)
(* 108), as long as the numbers of its requests fit in a word.             *)
(***************************************************************************)
THEOREM ResponsesBelongToRequests ==
  RpcSpec => [](c_conf["NUM_REQUESTS"] <= Base * Base => AnswerIsToRequest)
<1>1. RpcInv => (c_conf["NUM_REQUESTS"] <= Base * Base => AnswerIsToRequest)
  BY AnswersAgree
<1> QED
  BY <1>1, OneRequestUnderWay, PTL

-----------------------------------------------------------------------------

(***************************************************************************)
(* The refinement.  A call is lost once the client knows that the          *)
(* connection is, and from then on nothing is under way; otherwise what is *)
(* under way is the outcome that PageCalls gives the call.                 *)
(***************************************************************************)
Early == {"load", "connect", "aborted"}
Asked == i % c_conf["PAGE_COUNT"]

ConfiguredFirst ==
  /\ c_pc \in Early => i = 0
  /\ s_main \in {"load", "listen"} => c_pc \in Early
  /\ c_pc \notin {"load", "aborted"} => c_conf["NUM_REQUESTS"] <= Base * Base

UnderWay ==
  \/ link["client"] = "open" \/ c_pc = "check"
  \/ c_pc = "read" /\ (total_read > 0 \/ toClient # <<>>)

OutcomeOK ==
  /\ c_pc = "read" /\ total_read = 0 /\ toClient # <<>>
       => toClient[1].status = Swap(Status(Asked))
  /\ c_pc = "read" /\ total_read = 0 /\ Len(toClient) = 2 => toClient[2] = Page(Asked)
  /\ c_pc = "read" /\ total_read = 1 /\ toClient # <<>> => toClient[1] = Page(Asked)
  /\ c_pc \in {"read", "check"} /\ total_read > 0 => response[1].status = Swap(Status(Asked))
  /\ c_pc = "check" => response[2] = Page(Asked)

CallsInv ==
  /\ RpcInv /\ ConfiguredFirst /\ OutcomeOK
  /\ UnderWay => i = correct + incorrect

\* The statuses and the request numbers of every configuration fit in a word.
WordsHold ==
  /\ INVALID_PAGE_NUMBER < Base * Base
  /\ \A source \in Sources :
       load_config(source.file, source.env) # Thrown
         => load_config(source.file, source.env)["NUM_REQUESTS"] <= Base * Base

CallsStep == [Calls!CallsNext]_(Calls!callVars)

LEMMA OutcomeStays ==
  ASSUME UNCHANGED <<c_conf, s_conf, i>>
  PROVE  /\ Asked' = Asked /\ Status(Asked)' = Status(Asked) /\ Page(Asked)' = Page(Asked)
         /\ Swap(Status(Asked))' = Swap(Status(Asked))
BY DEF Asked, Status, Page, Found, Swap

LEMMA QuietIsStutter ==
  ASSUME UNCHANGED <<c_conf, s_conf, i, correct, incorrect>>
  PROVE  CallsStep
BY DEF CallsStep, Calls!callVars, Calls!confVars

LEMMA CallsStart == RpcInit => CallsInv /\ Calls!CallsInit
<1> SUFFICES ASSUME RpcInit PROVE CallsInv /\ Calls!CallsInit
  OBVIOUS
<1> QED
  BY InvInit DEF RpcInit, CallsInv, ConfiguredFirst, Early, OutcomeOK, Calls!CallsInit

LEMMA RefineLoad ==
  ASSUME WordsHold, CallsInv, RpcInv', LoadClient \/ LoadServer, UNCHANGED given
  PROVE  CallsInv' /\ CallsStep
<1>1. CASE LoadClient
  <2>1. /\ i = 0 /\ c_pc = "load" /\ c_pc' \in {"connect", "aborted"}
        /\ UNCHANGED <<i, total_read, response, correct, incorrect, s_main, s_conf,
                       toServer, toClient, link>>
    BY <1>1 DEF LoadClient, CallsInv, ConfiguredFirst, Early, serverSide, network
  <2>2. c_pc' = "connect" => c_conf'["NUM_REQUESTS"] <= Base * Base
    <3>1. given["client"] \in Sources  BY DEF CallsInv, RpcInv, UnitsOK, T!End
    <3> QED  BY <1>1, <3>1 DEF LoadClient, WordsHold
  <2>3. ConfiguredFirst'
    BY <2>1, <2>2 DEF CallsInv, ConfiguredFirst, Early
  <2>4. OutcomeOK' /\ (UnderWay => i = correct + incorrect)'
    BY <2>1 DEF CallsInv, OutcomeOK, UnderWay
  <2>5. Calls!Configure
    BY <2>1 DEF Calls!Configure
  <2> QED
    BY <2>3, <2>4, <2>5 DEF CallsInv, CallsStep, Calls!CallsNext
<1>2. CASE LoadServer
  <2>1. /\ i = 0 /\ c_pc \in Early /\ s_main' \in {"listen", "down"}
        /\ UNCHANGED <<c_pc, c_conf, i, total_read, response, correct, incorrect,
                       toServer, toClient, link>>
    BY <1>2 DEF LoadServer, CallsInv, ConfiguredFirst, clientSide, network
  <2>2. ConfiguredFirst'
    BY <2>1 DEF CallsInv, ConfiguredFirst
  <2>3. OutcomeOK' /\ (UnderWay => i = correct + incorrect)'
    BY <2>1 DEF CallsInv, OutcomeOK, UnderWay, Early
  <2>4. Calls!Configure
    BY <2>1 DEF Calls!Configure
  <2> QED
    BY <2>2, <2>3, <2>4 DEF CallsInv, CallsStep, Calls!CallsNext
<1> QED
  BY <1>1, <1>2

LEMMA RefineQuiet ==
  ASSUME CallsInv, RpcInv',
         UNCHANGED <<c_conf, i, total_read, response, correct, incorrect, s_conf>>,
         \/ Connect \/ Listen \/ Accept \/ HandlerRead \/ HandlerReadEnd
         \/ ClientHangsUp /\ c_pc \notin Early /\ c_pc' \in {"closed", "killed"} /\ s_main' = s_main
         \/ UNCHANGED <<c_pc, network>> /\ s_main' \in {s_main, "down"}
  PROVE  CallsInv' /\ CallsStep
<1>0. RpcInv /\ ConfiguredFirst /\ OutcomeOK  BY DEF CallsInv
<1>1. CallsStep  BY QuietIsStutter
<1>2. CASE Connect
  <2>1. /\ c_pc = "connect" /\ c_pc' \in {"send", "aborted"} /\ s_main' = s_main
        /\ c_pc' = "send" => s_main = "accept"
        /\ UNCHANGED <<toClient, link>>
    BY <1>2 DEF Connect, Reachable, network
  <2> QED
    BY <1>0, <1>1, <2>1 DEF CallsInv, ConfiguredFirst, Early, OutcomeOK, UnderWay
<1>3. CASE ClientHangsUp /\ c_pc \notin Early /\ c_pc' \in {"closed", "killed"} /\ s_main' = s_main
  <2>1. link'["client"] = "closed"  BY <1>0, <1>3, HangupOfClient
  <2>2. ConfiguredFirst'  BY <1>0, <1>3 DEF ConfiguredFirst, Early
  <2> QED
    BY <1>1, <1>3, <2>1, <2>2 DEF CallsInv, OutcomeOK, UnderWay
<1>4. CASE \/ Listen \/ Accept \/ HandlerRead \/ HandlerReadEnd
           \/ UNCHANGED <<c_pc, network>> /\ s_main' \in {s_main, "down"}
  <2>1. /\ UNCHANGED <<c_pc, toClient>>
        /\ link'["client"] = link["client"]
        /\ s_main' \in {"load", "listen"} => s_main' = s_main
    BY <1>0, <1>4 DEF Listen, Accept, HandlerRead, HandlerReadEnd, clientSide, network,
         T!ServerRead, T!ServerReadEnd, T!ReadEnd, T!Mark, RpcInv, RpcTypeOK, T!End
  <2>2. ConfiguredFirst'  BY <1>0, <2>1 DEF ConfiguredFirst
  <2>3. OutcomeOK'  BY <1>0, <2>1, OutcomeStays DEF OutcomeOK
  <2> QED
    BY <1>1, <2>1, <2>2, <2>3 DEF CallsInv, UnderWay
<1> QED
  BY <1>2, <1>3, <1>4

LEMMA RefineServerGoes ==
  ASSUME CallsInv, RpcInv', ServerHangsUp, s_main' \in {s_main, "down"},
         UNCHANGED <<s_conf, clientSide>>
  PROVE  CallsInv' /\ CallsStep
<1>0. RpcInv /\ ConfiguredFirst /\ OutcomeOK  BY DEF CallsInv
<1>1. UNCHANGED <<c_pc, c_conf, i, total_read, response, correct, incorrect, s_conf>>
  BY DEF clientSide
<1>2. CallsStep  BY <1>1, QuietIsStutter
<1>3. /\ toClient' # <<>> => toClient # <<>> /\ toClient'[1] = toClient[1]
      /\ Len(toClient') = 2 => Len(toClient) = 2 /\ toClient'[2] = toClient[2]
      /\ link'["client"] = "open" => link["client"] = "open"
  BY <1>0, HangupOfServer
<1>4. ConfiguredFirst'  BY <1>0, <1>1 DEF ConfiguredFirst
<1>5. OutcomeOK'  BY <1>0, <1>1, <1>3, OutcomeStays DEF OutcomeOK
<1> QED
  BY <1>1, <1>2, <1>3, <1>4, <1>5 DEF CallsInv, UnderWay

\* A request whose sending fails, or whose response does not come, is lost.
LEMMA RefineLose ==
  ASSUME CallsInv, RpcInv', toClient' = <<>>, c_pc \in {"send", "read"}, c_pc' = "send",
         i' = i + 1, i < c_conf["NUM_REQUESTS"], link'["client"] # "open",
         UNCHANGED <<c_conf, correct, incorrect, s_main, s_conf>>
  PROVE  CallsInv' /\ CallsStep
<1>1. Calls!Lose  BY DEF Calls!Lose, Calls!confVars
<1>2. ConfiguredFirst'  BY DEF CallsInv, ConfiguredFirst, Early
<1>3. OutcomeOK' /\ ~UnderWay'  BY DEF OutcomeOK, UnderWay
<1> QED
  BY <1>1, <1>2, <1>3 DEF CallsInv, CallsStep, Calls!CallsNext

LEMMA RefineSend ==
  ASSUME CallsInv, RpcInv', Send
  PROVE  CallsInv' /\ CallsStep
<1>0. RpcTypeOK /\ OneOutstanding /\ OneOutstanding'
  BY DEF CallsInv, RpcInv
<1>1. /\ c_pc = "send" /\ i < c_conf["NUM_REQUESTS"] /\ toClient' = <<>> /\ total_read' = 0
      /\ UNCHANGED <<c_conf, response, correct, incorrect, s_main, s_conf, toClient>>
  BY <1>0 DEF Send, MaySend, serverSide, OneOutstanding
<1>2. PICK res \in {2, T!Error} :
        /\ T!ClientSend(<<Swap(Requested.id), Swap(Requested.page)>>, res)
        /\ IF res = 2 THEN c_pc' = "read" /\ UNCHANGED i ELSE i' = i + 1 /\ UNCHANGED c_pc
  BY DEF Send
<1>3. link'["client"] = "open" => link["client"] = "open" /\ res # T!Error
  BY <1>0, <1>2 DEF T!ClientSend, T!SendInVain, T!Broken, T!Mark, T!Error, RpcTypeOK, T!End
<1>4. CASE res = 2
  <2>1. c_pc' = "read" /\ i' = i  BY <1>2, <1>4
  <2>2. CallsStep  BY <1>1, <2>1, QuietIsStutter
  <2>3. ConfiguredFirst'  BY <1>1, <2>1 DEF CallsInv, ConfiguredFirst, Early
  <2>4. OutcomeOK'  BY <1>1, <2>1 DEF OutcomeOK
  <2>5. UnderWay' => UnderWay  BY <1>1, <1>3, <2>1 DEF UnderWay
  <2> QED
    BY <1>1, <2>1, <2>2, <2>3, <2>4, <2>5 DEF CallsInv
<1>5. CASE res # 2
  BY <1>1, <1>2, <1>3, <1>5, RefineLose
<1> QED
  BY <1>4, <1>5

LEMMA RefineReadEnd ==
  ASSUME CallsInv, RpcInv', ReadEnd
  PROVE  CallsInv' /\ CallsStep
<1>0. RpcTypeOK /\ UnitsOK
  BY DEF CallsInv, RpcInv
<1>1. PICK res \in {0, T!Error} : UNCHANGED toClient /\ T!ClientReceiveEnd(res)
  BY DEF ReadEnd
<1>2. toClient' = <<>>
  BY <1>0, <1>1 DEF T!ClientReceiveEnd, UnitsOK
<1>3. link'["client"] # "open"
  BY <1>0, <1>1 DEF T!ClientReceiveEnd, T!ReadEnd, T!Mark, RpcTypeOK, T!End
<1> QED
  BY <1>0, <1>2, <1>3, RefineLose DEF ReadEnd, serverSide, UnitsOK

LEMMA RefineRead ==
  ASSUME CallsInv, RpcInv', Read
  PROVE  CallsInv' /\ CallsStep
<1>0. RpcInv /\ RpcTypeOK /\ UnitsOK /\ OneOutstanding /\ OutcomeOK
  BY DEF CallsInv, RpcInv
<1>1. /\ c_pc = "read"
      /\ UNCHANGED <<c_conf, i, correct, incorrect, s_main, s_conf>>
  BY DEF Read, serverSide
<1>2. PICK n \in 1..T!Smaller(2 - total_read, Len(toClient)) :
        /\ toClient' = SubSeq(toClient, n + 1, Len(toClient))
        /\ T!ClientReceive(n)
        /\ total_read' = total_read + n
        /\ response' = [u \in 1..2 |-> IF u \in (total_read + 1)..(total_read + n)
                                        THEN toClient[u - total_read] ELSE response[u]]
        /\ c_pc' = IF total_read + n = 2 THEN "check" ELSE "read"
  BY DEF Read
<1>3. link' = link  BY <1>2 DEF T!ClientReceive
<1>4. /\ total_read \in {0, 1} /\ Len(toClient) \in 1..2 /\ total_read + Len(toClient) <= 2
      /\ n \in 1..Len(toClient) /\ toClient # <<>>
  BY <1>0, <1>1, <1>2 DEF RpcTypeOK, OneOutstanding, T!Smaller
<1>5. CallsStep  BY <1>1, QuietIsStutter
<1>6. c_pc' \in {"read", "check"} /\ total_read' \in 1..2
      /\ (c_pc' = "check" <=> total_read' = 2)
  BY <1>2, <1>4
<1>7. ConfiguredFirst'  BY <1>1, <1>6 DEF CallsInv, ConfiguredFirst, Early
<1>8. (UnderWay => i = correct + incorrect)'
  BY <1>1, <1>4 DEF CallsInv, UnderWay
<1>9. response'[1] = IF total_read = 0 THEN toClient[1] ELSE response[1]
  <2>1. CASE total_read = 0  BY <1>2, <1>4, <2>1
  <2>2. CASE total_read = 1  BY <1>2, <1>4, <2>2
  <2> QED  BY <1>4, <2>1, <2>2
<1>10. total_read' = 2 => response'[2] = toClient[2 - total_read]
  BY <1>2, <1>4
<1>11. response'[1].status = Swap(Status(Asked))
  <2>1. CASE total_read = 0  BY <1>0, <1>1, <1>4, <1>9, <2>1 DEF OutcomeOK
  <2>2. CASE total_read = 1
    <3>1. response'[1] = response[1] /\ total_read > 0  BY <1>9, <2>2
    <3> QED  BY <1>0, <1>1, <3>1 DEF OutcomeOK
  <2> QED  BY <1>4, <2>1, <2>2
<1>12. total_read' = 2 => response'[2] = Page(Asked)
  <2> SUFFICES ASSUME total_read' = 2 PROVE response'[2] = Page(Asked)
    OBVIOUS
  <2>1. CASE total_read = 0
    <3>1. Len(toClient) = 2 /\ 2 - total_read = 2  BY <1>2, <1>4, <2>1
    <3> QED  BY <1>0, <1>1, <1>10, <2>1, <3>1 DEF OutcomeOK
  <2>2. CASE total_read = 1
    <3>1. 2 - total_read = 1  BY <2>2
    <3> QED  BY <1>0, <1>1, <1>4, <1>10, <2>2, <3>1 DEF OutcomeOK
  <2> QED  BY <1>4, <2>1, <2>2
<1>13. total_read' = 1 /\ toClient' # <<>> => toClient'[1] = Page(Asked)
  <2> SUFFICES ASSUME total_read' = 1, toClient' # <<>> PROVE toClient'[1] = Page(Asked)
    OBVIOUS
  <2>1. total_read = 0 /\ n = 1  BY <1>2, <1>4
  <2>2. toClient' = SubSeq(toClient, 2, Len(toClient))  BY <1>2, <2>1
  <2> DEFINE S == HeaderUnit \cup ContentUnit
  <2>3. toClient \in Seq(S)  BY <1>0 DEF UnitsOK
  <2> HIDE DEF S
  <2>4. Len(toClient) = 2 /\ toClient'[1] = toClient[2]  BY <1>4, <2>2, <2>3
  <2> QED  BY <1>0, <1>1, <2>1, <2>4 DEF OutcomeOK
<1>14. OutcomeOK'
  <2>1. Swap(Status(Asked))' = Swap(Status(Asked)) /\ Page(Asked)' = Page(Asked)
    BY <1>1, OutcomeStays
  <2> QED  BY <1>6, <1>11, <1>12, <1>13, <2>1 DEF OutcomeOK
<1> QED
  BY <1>5, <1>7, <1>8, <1>14 DEF CallsInv

\* The number of the page asked for survives the wire.
LEMMA AskedFits ==
  ASSUME RpcTypeOK, ConfiguredFirst, c_pc \in {"read", "check"}, SameRequest, UnitsOK
  PROVE  /\ Asked \in Nat /\ Swap(Swap(Asked)) = Asked
         /\ c_conf["PAGE_COUNT"] \in Nat \ {0} /\ Asked < c_conf["PAGE_COUNT"]
<1>1. c_conf["PAGE_COUNT"] \in Nat \ {0} /\ c_conf["NUM_REQUESTS"] \in Nat /\ i \in Nat
  BY DEF RpcTypeOK, Setting, SameRequest
<1>2. i < Base * Base
  <2>1. Base * Base \in Nat  BY PageDataAssumption
  <2> QED  BY <1>1, <2>1 DEF ConfiguredFirst, UnitsOK
<1>3. Asked \in Nat /\ Asked <= i
  BY <1>1, PageNumberIsInteger DEF Asked
<1>4. Asked < c_conf["PAGE_COUNT"]
  <2> DEFINE q == c_conf["PAGE_COUNT"]
  <2> HIDE DEF q
  <2>1. q \in Nat \ {0} => i % q < q  BY <1>1
  <2> QED  BY <1>1, <2>1 DEF Asked, q
<1>5. Asked < Base * Base
  <2>1. Base * Base \in Nat  BY PageDataAssumption
  <2> QED  BY <1>1, <1>2, <1>3, <2>1
<1>6. Swap(Swap(Asked)) = Asked  BY <1>3, <1>5, SwapTwice
<1> QED
  BY <1>1, <1>3, <1>4, <1>6

\* A page that is sent is the page that verify expects.
LEMMA PageVerifies ==
  ASSUME NEW count \in Nat, NEW p \in Nat, p < count, NEW known, p < known
  PROVE  verify(PageContent(count, p), p, known)
<1> SUFFICES ASSUME NEW k \in Byte
             PROVE  PageContent(count, p)[k] = Strategy[p * PageSize + k]
  BY DEF verify
<1>1. PageSize \in Nat \ {0} /\ k \in 0..(PageSize - 1)
  BY PageDataAssumption DEF Byte
<1>2. p * PageSize + k \in 0..(PageSize * count - 1)
  <2>1. PICK d \in Nat : count = p + 1 + d
    <3>1. count - p - 1 \in Nat /\ count = p + 1 + (count - p - 1)  OBVIOUS
    <3> QED  BY <3>1
  <2>2. PageSize * count = PageSize * p + PageSize + PageSize * d
    BY <1>1, <2>1
  <2>3. PageSize * p = p * PageSize /\ p * PageSize \in Nat /\ PageSize * d \in Nat
    BY <1>1
  <2> DEFINE x == p * PageSize
             y == PageSize * d
  <2>4. PageSize * count = x + PageSize + y /\ x \in Nat /\ y \in Nat
    BY <2>2, <2>3
  <2> HIDE DEF x, y
  <2>5. x + k \in 0..(PageSize * count - 1)  BY <1>1, <2>4
  <2> QED  BY <2>5 DEF x
<1>3. PageContent(count, p)[k] = MemoryBlock(count)[p * PageSize + k]
  BY DEF PageContent
<1> QED
  BY <1>2, <1>3 DEF MemoryBlock

LEMMA StatusFits ==
  ASSUME WordsHold, NEW p
  PROVE  Swap(Swap(Status(p))) = Status(p)
<1>1. Status(p) \in {200, 400}  BY DEF Status, SUCCESS, INVALID_PAGE_NUMBER
<1>2. Base * Base \in Nat /\ 400 < Base * Base
  BY PageDataAssumption DEF WordsHold, INVALID_PAGE_NUMBER
<1>3. Swap(Swap(200)) = 200 /\ Swap(Swap(400)) = 400
  <2>1. 200 < Base * Base  BY <1>2
  <2> QED  BY <1>2, <2>1, SwapTwice
<1> QED
  BY <1>1, <1>3

LEMMA GoodIfExists ==
  ASSUME WordsHold, CallsInv, c_pc = "check"
  PROVE  Good <=> Asked < s_conf["PAGE_COUNT"]
<1>0. /\ RpcTypeOK /\ UnitsOK /\ OneOutstanding /\ SameRequest
      /\ ConfiguredFirst /\ OutcomeOK
  BY DEF CallsInv, RpcInv
<1>1. /\ Asked \in Nat /\ Swap(Swap(Asked)) = Asked /\ Asked < c_conf["PAGE_COUNT"]
  BY <1>0, AskedFits
<1>2. total_read > 0  BY <1>0 DEF OneOutstanding
<1>3. Header.status = Swap(Status(Asked)) /\ Content = Page(Asked)
  BY <1>0, <1>2 DEF OutcomeOK, Header, Content
<1>4. Swap(Header.status) = Status(Asked)  BY <1>3, StatusFits
<1>5. Swap(Header.page_number) = Asked
  <2>1. Header.page_number = Swap(Swap(Swap(Asked)))
    BY <1>0, <1>2 DEF SameRequest, Answers, Words, Header, Asked
  <2> QED  BY <1>1, <2>1
<1>6. CASE Found(Asked)
  <2>1. Swap(Header.status) = SUCCESS  BY <1>4, <1>6 DEF Status
  <2>2. s_conf["PAGE_COUNT"] \in Nat  BY <1>0 DEF RpcTypeOK, Setting
  <2>3. Content = PageContent(s_conf["PAGE_COUNT"], Asked)  BY <1>3, <1>6 DEF Page
  <2>4. verify(Content, Asked, c_conf["PAGE_COUNT"])
    BY <1>1, <1>6, <2>2, <2>3, PageVerifies DEF Found
  <2> QED  BY <1>5, <1>6, <2>1, <2>4 DEF Good, Found
<1>7. CASE ~Found(Asked)
  BY <1>4, <1>7 DEF Status, SUCCESS, INVALID_PAGE_NUMBER, Good, Found
<1> QED
  BY <1>6, <1>7

LEMMA RefineCheck ==
  ASSUME WordsHold, CallsInv, RpcInv', Check
  PROVE  CallsInv' /\ CallsStep
<1>0. RpcTypeOK /\ UnitsOK /\ OneOutstanding
  BY DEF CallsInv, RpcInv
<1>1. /\ c_pc = "check" /\ c_pc' = "send" /\ i' = i + 1 /\ i < c_conf["NUM_REQUESTS"]
      /\ toClient = <<>> /\ i = correct + incorrect
      /\ UNCHANGED <<c_conf, s_main, s_conf, toClient, link>>
  BY <1>0 DEF Check, serverSide, network, OneOutstanding, UnitsOK, CallsInv, UnderWay
<1>2. /\ IF Asked < s_conf["PAGE_COUNT"]
         THEN correct' = correct + 1 /\ UNCHANGED incorrect
         ELSE incorrect' = incorrect + 1 /\ UNCHANGED correct
  BY <1>1, GoodIfExists DEF Check
<1>3. Calls!Answered
  BY <1>1, <1>2 DEF Calls!Answered, Calls!Lost, Calls!confVars, Asked
<1>4. i' = correct' + incorrect'
  BY <1>0, <1>1, <1>2 DEF UnitsOK, RpcTypeOK
<1>5. ConfiguredFirst'  BY <1>1 DEF CallsInv, ConfiguredFirst, Early
<1>6. OutcomeOK'  BY <1>1 DEF OutcomeOK
<1> QED
  BY <1>3, <1>4, <1>5, <1>6 DEF CallsInv, CallsStep, Calls!CallsNext

LEMMA RefineHandlerWrite ==
  ASSUME CallsInv, RpcInv', HandlerWrite
  PROVE  CallsInv' /\ CallsStep
<1>0. /\ RpcInv /\ RpcTypeOK /\ UnitsOK /\ LinkOK /\ OneOutstanding /\ SameRequest
      /\ ConfiguredFirst /\ OutcomeOK
  BY DEF CallsInv, RpcInv
<1>1. /\ s_pc = "answer" /\ s_main' \in {s_main, "killed"}
      /\ UNCHANGED <<c_pc, c_conf, i, total_read, response, correct, incorrect, s_conf>>
  BY DEF HandlerWrite, clientSide
<1>2. CallsStep  BY <1>1, QuietIsStutter
<1>3. link'["client"] = link["client"]
  <2>1. PICK res \in {2, T!Error} : T!ServerSend(res)  BY DEF HandlerWrite
  <2> QED  BY <1>0, <2>1 DEF T!ServerSend, T!SendInVain, T!Mark, RpcTypeOK, T!End
<1>4. ConfiguredFirst'  BY <1>0, <1>1 DEF ConfiguredFirst
<1>5. CASE link["server"] = "open"
  <2>1. link["client"] = "open"
    BY <1>0, <1>1, <1>5 DEF LinkOK, RpcTypeOK, T!End, T!Link
  <2>2. c_pc = "read" /\ total_read = 0 /\ toClient = <<>> /\ request = Words
    BY <1>0, <1>1, <2>1 DEF OneOutstanding, SameRequest
  <2>3. Swap(request[2]) = Asked
    BY <1>0, <2>2, AskedFits DEF Words, Asked
  <2> DEFINE R == Reply(Swap(request[1]), Asked)
  <2>4. R[1].status = Swap(Status(Asked)) /\ R[2] = Page(Asked)  BY DEF Reply
  <2>5. R \in Seq(HeaderUnit \cup ContentUnit)
    <3>1. request[1] \in Int /\ Asked \in Int
      BY <1>0, <1>1, <2>2, PairOfSequence, AskedFits DEF UnitsOK
    <3> QED  BY <1>0, <3>1, SwapIsInteger, ReplyIsResponse
  <2>6. toClient' = toClient \o R  BY <1>5, <2>3 DEF HandlerWrite
  <2> HIDE DEF R
  <2>7. toClient' = R  BY <2>2, <2>5, <2>6
  <2>8. OutcomeOK'
    <3>1. Swap(Status(Asked))' = Swap(Status(Asked)) /\ Page(Asked)' = Page(Asked)
      BY <1>1, OutcomeStays
    <3> QED  BY <1>1, <2>2, <2>4, <2>7, <3>1 DEF OutcomeOK
  <2> QED  BY <1>1, <1>2, <1>4, <2>1, <2>8 DEF CallsInv, UnderWay
<1>6. CASE link["server"] # "open"
  <2>1. link["client"] = "closed" /\ c_pc \in {"closed", "killed"}
    <3>1. link["server"] \in {"fin", "rst", "dead"}
      BY <1>0, <1>1, <1>6 DEF LinkOK, RpcTypeOK, T!End, T!Link
    <3> QED  BY <1>0, <3>1 DEF LinkOK
  <2> QED  BY <1>1, <1>2, <1>3, <1>4, <2>1 DEF CallsInv, OutcomeOK, UnderWay
<1> QED
  BY <1>5, <1>6

LEMMA RefineStep ==
  ASSUME WordsHold, CallsInv, [RpcNext]_rpcVars
  PROVE  CallsInv' /\ CallsStep
<1>0. RpcInv /\ RpcInv'  BY InvStep DEF CallsInv
<1>1. CASE ClientStep /\ UNCHANGED given
  <2>1. CASE Divide \/ SendSignalled \/ Finish
    BY <1>0, <2>1, RefineQuiet DEF Divide, SendSignalled, Finish, MaySend, serverSide, Early
  <2>2. CASE Connect
    BY <1>0, <2>2, RefineQuiet DEF Connect
  <2> QED
    BY <1>0, <1>1, <2>1, <2>2, RefineLoad, RefineSend, RefineRead, RefineReadEnd, RefineCheck
       DEF ClientStep
<1>2. CASE ServerStep /\ UNCHANGED given
  <2>1. CASE HandlerClose
    BY <1>0, <2>1, RefineServerGoes DEF HandlerClose
  <2>2. CASE Listen \/ Accept \/ HandlerRead \/ HandlerReadEnd
    BY <1>0, <2>2, RefineQuiet DEF Listen, Accept, HandlerRead, HandlerReadEnd, clientSide
  <2> QED
    BY <1>0, <1>2, <2>1, <2>2, RefineLoad, RefineHandlerWrite DEF ServerStep
<1>3. CASE ClientKilled
  BY <1>0, <1>3, RefineQuiet DEF ClientKilled, Connected, serverSide, Early
<1>4. CASE ServerKilled
  <2>1. CASE s_pc \in {"none", "closed"}
    BY <1>0, <1>4, <2>1, RefineQuiet DEF ServerKilled, clientSide
  <2>2. CASE s_pc \notin {"none", "closed"}
    BY <1>0, <1>4, <2>2, RefineServerGoes DEF ServerKilled
  <2> QED  BY <2>1, <2>2
<1>5. CASE UNCHANGED rpcVars
  BY <1>0, <1>5, RefineQuiet DEF rpcVars, clientSide, serverSide, network
<1> QED
  BY <1>1, <1>2, <1>3, <1>4, <1>5 DEF RpcNext

(***************************************************************************)
(* The blocking pair implements PageCalls, for any two configurations      *)
(* whose numbers fit in a word: no response is counted for another         *)
(* request, twice, or after the connection was lost, and an existing page  *)
(* is never taken for an incorrect one (client.cpp lines 55 to 118,        *)
(* server.cpp handle_client).                                              *)
(***************************************************************************)
THEOREM PairImplementsCalls == WordsHold => (RpcSpec => CallsInOrder)
<1> SUFFICES ASSUME WordsHold PROVE RpcSpec => CallsInOrder
  OBVIOUS
<1>1. RpcInit => CallsInv /\ Calls!CallsInit
  BY CallsStart
<1>2. CallsInv /\ [RpcNext]_rpcVars => CallsInv' /\ [Calls!CallsNext]_(Calls!callVars)
  BY RefineStep DEF CallsStep
<1> QED
  BY <1>1, <1>2, PTL DEF RpcSpec, CallsInOrder, Calls!CallsSpec
=============================================================================
