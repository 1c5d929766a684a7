---------------------------- MODULE CarbonCRelay ----------------------------
(***************************************************************************)
(* Package carboncrelay: Clusters reads carbon-c-relay's configuration     *)
(* line by line, collects the fields of a cluster statement until it sees  *)
(* ";", and makes a cluster of them when the next one begins or the file   *)
(* ends.  The file is a sequence of whole statements, each laid out over   *)
(* lines in one of a few ways, because the language does not care where a  *)
(* line ends and the parser does.                                          *)
(*                                                                         *)
(* A line is the sequence of its fields: what strings.Split and the skip   *)
(* of empty fields make of it, without its comment.  A statement starts on *)
(* a line of its own, in the first column.                                 *)
(***************************************************************************)
EXTENDS Naturals, SequencesExt

CONSTANTS
  Statements,    \* what an operator may write: fields, without the last ";"
  Required,      \* the names of the required clusters
  Hosts,         \* the fields that are endpoints
  WithPort,      \* what those with a port mean, [host, port] for each of them
  MaxStatements  \* bound: statements in the file

ASSUME CarbonCRelayAssumption ==
  /\ \A w \in Statements : w \in Seq(STRING) /\ Len(w) >= 3
  /\ Hosts \subseteq STRING /\ DOMAIN WithPort \subseteq Hosts
  /\ MaxStatements \in Nat

\* skipList1, skipList2 and stopList, and the end of a statement.
Flags == {"forward", "any_of", "failover", "useall", "carbon_ch", "fnv1a_ch",
          "jump_fnv1a_ch", "lb", "dynamic"}
Options == {"replication", "connections", "ttl", "ttl_jitter"}
StopWords == {"proto", "type", "transport"}
End == ";"

-----------------------------------------------------------------------------
(***************************************************************************)
(* What an operator may write, by the grammar at the top of                *)
(* carbon-c-relay-test.conf and the clusters below it:                     *)
(*   cluster <name> <type> [replication <count>]                           *)
(*     <host[:port] [proto <udp | tcp>]> ... ;                             *)
(*   cluster <name> file <path> ;                                          *)
(***************************************************************************)
BeforeStop(w) == {i \in 3 .. Len(w) : \A j \in 3 .. i : w[j] \notin StopWords}
Listed(w) == {i \in BeforeStop(w) : \A j \in 3 .. i : w[j] # "file"}

ListsFile(w) == \E i \in BeforeStop(w) : w[i] = "file"
NamesHosts(w) == \E i \in 3 .. Len(w) : w[i] \in Hosts

\* An option has a value, which is neither a keyword nor a host.
HasValue(w, i) ==
  /\ i + 1 \in Listed(w)
  /\ w[i + 1] \notin Flags \cup Options \cup Hosts

ClusterGrammar(w) ==
  /\ Len(w) >= 4
  /\ \A i \in Listed(w) : w[i] \in Options => HasValue(w, i)
  /\ \A i \in Listed(w) :
       w[i] \in Flags \cup Options \cup Hosts \/ (i - 1 \in Listed(w) /\ w[i - 1] \in Options)
  /\ IF ListsFile(w) THEN ~NamesHosts(w) ELSE \E i \in Listed(w) : w[i] \in Hosts

\* A field is never the ";" that ends a statement, a host is no keyword, and no
\* statement but a cluster has "cluster" at the beginning of a line.
ASSUME GrammarAssumption ==
  /\ Hosts \cap (Flags \cup Options \cup StopWords \cup {"file"}) = {}
  /\ \A w \in Statements :
       /\ \A i \in DOMAIN w : w[i] # End
       /\ IF w[1] = "cluster" THEN ClusterGrammar(w) ELSE w[3] # "cluster"

VARIABLES
  written,        \* the statements of the file so far, and their layouts
  rest,           \* the lines of the last one that are still to be read
  found,          \* found: inside a cluster statement
  clusterFields,  \* clusterFields: the fields of that statement so far
  clusters,       \* clusters: the result so far
  done            \* whether Clusters has returned

vars == <<written, rest, found, clusterFields, clusters, done>>

Init ==
  /\ written = <<>> /\ rest = <<>>
  /\ found = FALSE /\ clusterFields = <<>> /\ clusters = <<>>
  /\ done = FALSE

-----------------------------------------------------------------------------
(* clusterEndpoints *)

\* The value of an option is taken for an endpoint.
MutWords(fields) ==
  LET from[i \in Nat] ==
        IF i > Len(fields) THEN <<>>
        ELSE CASE fields[i] = "file" -> <<"file">>
               [] fields[i] \in StopWords -> <<>>
               [] fields[i] \in Flags \cup Options -> from[i + 1]
               [] OTHER -> <<fields[i]>> \o from[i + 1]
  IN  from[3]

\* The fields from the third on that the loop takes for endpoints, until a
\* stop word; a "file" ends them too.
Words(fields) ==
  LET from[i \in Nat] ==
        IF i > Len(fields) THEN <<>>
        ELSE CASE fields[i] = "file" -> <<"file">>
               [] fields[i] \in StopWords -> <<>>
               [] fields[i] \in Flags -> from[i + 1]
               [] fields[i] \in Options -> from[i + 2]
               [] OTHER -> <<fields[i]>> \o from[i + 1]
  IN  from[3]

Endpoint(word) ==
  IF word \in DOMAIN WithPort THEN WithPort[word] ELSE [host |-> word, port |-> 2003]

Cluster(name, words) ==
  [name |-> name, required |-> name \in Required,
   endpoints |-> [i \in DOMAIN words |-> Endpoint(words[i])]]

\* No cluster comes of too few fields, of a file, or of no endpoint at all.
clusterEndpoints(fields) ==
  LET words == Words(fields)
  IN  IF Len(fields) < 4 \/ words = <<>> \/ Contains(words, "file") THEN <<>>
      ELSE <<Cluster(fields[2], words)>>

-----------------------------------------------------------------------------
(* Clusters *)

\* The operator's next statement: in a block that its ";" closes on a line of
\* its own, in one closed on its last line, or all on one line.
Layouts == {"block", "closed", "oneLine"}
Lines(words, layout) ==
  LET head == SubSeq(words, 1, 2)
      body == SubSeq(words, 3, Len(words))
  IN  CASE layout = "block"   -> <<head, body, <<End>>>>
        [] layout = "closed"  -> <<head, Append(body, End)>>
        [] layout = "oneLine" -> <<Append(words, End)>>

NextStatement ==
  /\ ~done /\ rest = <<>> /\ Len(written) < MaxStatements
  /\ \E words \in Statements, layout \in Layouts :
       /\ written' = Append(written, [words |-> words, layout |-> layout])
       /\ rest' = Lines(words, layout)
  /\ UNCHANGED <<found, clusterFields, clusters, done>>

BeforeEnd(line) ==
  LET end == SelectInSeq(line, LAMBDA field : field = End)
  IN  IF end = 0 THEN line ELSE SubSeq(line, 1, end - 1)

\* Inside a statement: up to ";", which ends it.
Continue(line) ==
  /\ found
  /\ clusterFields' = clusterFields \o BeforeEnd(line)
  /\ found' = ~Contains(line, End)
  /\ UNCHANGED clusters

\* The fields of the cluster before are kept.
MutBegin(line) ==
  /\ ~found /\ line[1] = "cluster"
  /\ clusters' = clusters \o clusterEndpoints(clusterFields)
  /\ clusterFields' = clusterFields \o BeforeEnd(line)
  /\ found' = TRUE

\* The first line of a statement; a ";" on it ends the line only.
Begin(line) ==
  /\ ~found /\ line[1] = "cluster"
  /\ clusters' = clusters \o clusterEndpoints(clusterFields)
  /\ clusterFields' = BeforeEnd(line)
  /\ found' = TRUE

Skip(line) ==
  /\ ~found /\ line[1] # "cluster"
  /\ UNCHANGED <<found, clusterFields, clusters>>

ReadLine ==
  /\ rest # <<>>
  /\ Continue(Head(rest)) \/ Begin(Head(rest)) \/ Skip(Head(rest))
  /\ rest' = Tail(rest)
  /\ UNCHANGED <<written, done>>

EndOfFile ==
  /\ ~done /\ rest = <<>>
  /\ clusters' = clusters \o clusterEndpoints(clusterFields)
  /\ done' = TRUE
  /\ UNCHANGED <<written, rest, found, clusterFields>>

Next == NextStatement \/ ReadLine \/ EndOfFile

Spec == Init /\ [][Next]_vars

-----------------------------------------------------------------------------
(* Properties *)

\* What a statement means.
HostsAmong(w, positions) ==
  FlattenSeq([i \in DOMAIN w |->
    IF i \in positions /\ w[i] \in Hosts THEN <<w[i]>> ELSE <<>>])

IsCluster(s) == s.words[1] = "cluster"
HostsOf(s) == HostsAmong(s.words, 3 .. Len(s.words))
Meant(s) ==
  IF IsCluster(s) /\ HostsOf(s) # <<>> THEN <<Cluster(s.words[2], HostsOf(s))>> ELSE <<>>

\* The layouts the parser was written for: a cluster is on one line only when
\* no cluster follows it and, unless it is the file's last statement, it names
\* no hosts; and no host follows the protocol of another.
HostAfterProto(s) ==
  \E i \in (3 .. Len(s.words)) \ BeforeStop(s.words) : s.words[i] \in Hosts
WellLaid ==
  \A i \in DOMAIN written :
    IsCluster(written[i]) =>
      /\ ~HostAfterProto(written[i])
      /\ written[i].layout = "oneLine" =>
           /\ \A j \in i + 1 .. Len(written) : ~IsCluster(written[j])
           /\ HostsOf(written[i]) # <<>> => i = Len(written)

\* A file in the layout of the test's and the example's is read as it is meant:
\* every cluster with hosts, in order, with all of them, and no other; the
\* statements in between and a last line that is never closed do not matter
\* (carbon_c_relay.go:93-133, carbon_c_relay_test.go:26-30).
ClustersAsWritten ==
  done /\ WellLaid => clusters = FlattenSeq([i \in DOMAIN written |-> Meant(written[i])])

\* Whichever layouts its statements have, a cluster that is returned was
\* written, and has at least the endpoints written before the first protocol,
\* in their order: what the parser misreads is only ever added behind them or
\* lost with the whole statement (carbon_c_relay.go:31-61).
FirstHosts(s) == HostsAmong(s.words, BeforeStop(s.words))
BeginsAsWritten ==
  \A c \in ToSet(clusters) : \E s \in ToSet(written) :
    /\ IsCluster(s) /\ HostsOf(s) # <<>>
    /\ c.name = s.words[2]
    /\ IsPrefix(Cluster(c.name, FirstHosts(s)).endpoints, c.endpoints)

\* A required cluster that the file defines is among those that are checked.
RequiredIsChecked ==
  done => \A s \in ToSet(written) :
            Meant(s) # <<>> /\ s.words[2] \in Required =>
              \E c \in ToSet(clusters) : c.name = s.words[2] /\ c.required
=============================================================================
