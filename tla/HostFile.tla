------------------------------- MODULE HostFile -------------------------------
(***************************************************************************)
(* The file that lists the hosts (read_host_config_file) and the number a  *)
(* machine finds for itself in it.  A file is a sequence of tags and of    *)
(* characters; an address is a sequence of characters.  A file with more   *)
(* than MAX_NUM_HOSTS hosts overruns the tables and is not looked at.      *)
(*                                                                         *)
(* An operator named Mut... is the definition below it with a plausible    *)
(* bug; it is used by no other, and shows what a property is there for.    *)
(***************************************************************************)
EXTENDS Integers, SequencesExt

CONSTANT FileBuffer   \* bytes that are read: 1024

ASSUME FileBufferAssumption == FileBuffer \in Nat

OpenTag == "<host>"
CloseTag == "</host>"
Character == STRING \ {OpenTag, CloseTag}

Bytes(token) == CASE token = OpenTag -> 6 [] token = CloseTag -> 7 [] OTHER -> 1

\* The bytes of the beginnings of a text, and of all of it.
Sizes(text) ==
  LET size[n \in 0 .. Len(text)] == IF n = 0 THEN 0 ELSE size[n - 1] + Bytes(text[n])
  IN size
Size(text) == Sizes(text)[Len(text)]

\* read; a tag that is cut is no tag.
InBuffer(file) ==
  SubSeq(file, 1, Max({n \in 0 .. Len(file) : Sizes(file)[n] <= FileBuffer}))

MutEntryBytes(address) == Size(address) + 13 + 13

\* What an entry takes off nbytes; the text between entries takes nothing.
EntryBytes(address) == Size(address) + 13

\* strstr from the place p: Len(text) + 1 if there is none.
Find(tag, text, p) ==
  Min({n \in p .. Len(text) : text[n] = tag} \cup {Len(text) + 1})

\* One turn of the loop: without another entry the loop is over, and nothing changes.
Entry(text, loop) ==
  LET p1 == Find(OpenTag, text, loop.p)
      p2 == Find(CloseTag, text, p1 + 1)
      address == SubSeq(text, p1 + 1, p2 - 1)
  IN IF loop.nbytes <= 13 \/ p2 > Len(text) THEN loop
     ELSE [p |-> p2 + 1, nbytes |-> loop.nbytes - EntryBytes(address),
           hosts |-> Append(loop.hosts, address)]

\* The loop over the entries, by the number of its turns.
Loop(text) ==
  LET after[k \in 0 .. Len(text)] ==
        IF k = 0 THEN [p |-> 1, nbytes |-> Size(text), hosts |-> <<>>]
        ELSE Entry(text, after[k - 1])
  IN after

\* No text has more entries than tokens.
ReadHosts(file) == LET text == InBuffer(file) IN Loop(text)[Len(text)].hosts

MutSameHost(ip, hosts) == {i \in 1 .. Len(hosts) - 1 : IsPrefix(ip, hosts[i])}

\* As many bytes are compared as the machine's own address has.
SameHost(ip, hosts) == {i \in DOMAIN hosts : IsPrefix(ip, hosts[i])}

\* The last match wins; without one the program exits.
LocalId(ip, hosts) == Max(SameHost(ip, hosts) \cup {-1})

\* The check that epbscli_init and msg_check_configure repeat.
Configured(localId, hosts) == Len(hosts) >= 1 /\ localId \in DOMAIN hosts

\* get_host_ip: <<>> stands for NULL.
HostIp(id, hosts) == IF id \in DOMAIN hosts THEN hosts[id] ELSE <<>>

-----------------------------------------------------------------------------
(* What the file should mean.                                              *)

\* A file with one entry per address, and something in between: the beginnings
\* of it that end after an entry, and the whole.
Beginnings(addresses, between) ==
  LET upto[n \in 0 .. Len(addresses)] ==
        IF n = 0 THEN between
        ELSE upto[n - 1] \o <<OpenTag>> \o addresses[n] \o <<CloseTag>> \o between
  IN upto
Written(addresses, between) == Beginnings(addresses, between)[Len(addresses)]

Ambiguous(addresses) ==
  \E i, j \in DOMAIN addresses : i # j /\ IsPrefix(addresses[i], addresses[j])
=============================================================================
