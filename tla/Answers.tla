------------------------------- MODULE Answers -------------------------------
(***************************************************************************)
(* The words an NFS server puts in its reply to a compound, as the         *)
(* decoders of src/src/nfs4/codec.rs expect them: the results of the       *)
(* operations, and results that break the protocol. Nothing here is code   *)
(* of this repository.                                                     *)
(***************************************************************************)
EXTENDS Replies

Sent(words, val) == [words |-> words, val |-> val]
Change == <<1, 0, 4, 0, 5>>
OpenBody(rflags, delegation) == <<1, 2, 3, 4>> \o Change \o <<rflags, 1, 0>> \o delegation
Entry(cookie, name) == <<1, 0, cookie, 1, name, 0, 0>>
Listing(names, eof) ==
  Sent(<<8, 8>> \o FlattenSeq([i \in DOMAIN names |-> Entry(i, names[i])])
         \o <<0, IF eof THEN 1 ELSE 0>>,
       [names |-> names, eof |-> eof])
ChannelWords(request, response, ops, requests) ==
  <<0, request, response, 0, ops, requests, 0>>
Channel(request, response, ops, requests) ==
  [request |-> request, response |-> response, ops |-> ops, requests |-> requests]

\* The results a server may send for an operation that ran, and what they say. Those
\* of a WRITE are unstable or stable, those of a COMMIT before or after a restart.
Bodies(op, dec) ==
  CASE op = "Sequence" -> <<Sent(<<9, 9, 9, 9, 1, 0, 1, 1, 0>>, <<>>)>>
    [] op = "GetFh" -> <<Sent(<<5, 71, 72>>, <<71, 72>>), Sent(<<0>>, <<>>)>>
    [] op = "GetAttr" ->
         IF dec.type THEN <<Sent(<<1, 18, 12, 1, 0, 6>>, [type |-> <<1>>, size |-> <<0, 6>>])>>
         ELSE <<Sent(<<1, 16, 8, 0, 6>>, [type |-> <<>>, size |-> <<0, 6>>])>>
    [] op = "Read" -> <<Sent(<<1, 3, 81>>, <<1, <<81>>>>), Sent(<<0, 0>>, <<0, <<>>>>)>>
    [] op = "Write" -> <<Sent(<<3, 0, 7, 7>>, <<3, 0, 7, 7>>), Sent(<<3, 2, 7, 7>>, <<3, 2, 7, 7>>)>>
    [] op = "Commit" -> <<Sent(<<7, 7>>, <<7, 7>>), Sent(<<8, 8>>, <<8, 8>>)>>
    [] op = "Open" -> <<Sent(OpenBody(4, <<0>>), <<1, 2, 3, 4>>),
                        Sent(OpenBody(4, <<3, 1, 0>>), <<1, 2, 3, 4>>),
                        Sent(OpenBody(4, <<3, 0>>), <<1, 2, 3, 4>>)>>
    [] op = "Close" -> <<Sent(<<1, 2, 3, 4>>, <<>>)>>
    [] op = "Create" -> <<Sent(Change \o <<1, 0>>, <<>>)>>
    [] op \in {"Remove", "Link"} -> <<Sent(Change, <<>>)>>
    [] op = "Rename" -> <<Sent(Change \o Change, <<>>)>>
    [] op = "ReadDir" -> <<Listing(<<46, 97, 98>>, TRUE), Listing(<<97, 4646>>, FALSE),
                           Listing(<<>>, TRUE)>>
    [] op = "ExchangeId" ->
         <<Sent(<<0, 6, 1, 0, 0, 0, 1, 3, 70, 0, 0>>, << <<0, 6>>, <<1>> >>),
           Sent(<<0, 6, 1, 0, 0, 0, 1, 3, 70, 0, 1, 1, 70, 0, 0, 0, 1>>,
                << <<0, 6>>, <<1>> >>)>>
    [] op = "CreateSession" ->
         <<Sent(<<9, 9, 9, 9, dec.sequenceid, 0>> \o ChannelWords(900, 900, 8, 4)
                  \o ChannelWords(1, 1, 1, 1),
                Channel(900, 900, 8, 4))>>
    [] OTHER -> <<Sent(<<>>, <<>>)>>

\* Results no server should send.
OddBodies(op, dec) ==
  CASE op = "Sequence" -> {<<9, 9, 9, 8, 1, 0, 1, 1, 0>>, <<9, 9, 9, 9, 2, 0, 1, 1, 0>>,
                           <<9, 9, 9, 9, 1, 1, 1, 1, 0>>}
    [] op = "GetFh" -> {<<129>> \o [i \in 1 .. 33 |-> 0], <<4000>>}
    [] op = "GetAttr" -> {<<1, 18, 13, 1, 0, 6, 0>>, <<1, 18, 8, 1, 0>>, <<1, 16, 9, 0, 6, 0>>,
                          <<1, 16, 4, 0>>, <<2, 18, 2, 16, 1, 0, 6, 420>>, <<1, 1, 4, 0>>,
                          <<1, 18, 4000>>, <<4000, 18>>, <<0, 0>>, <<1, 2, 4, 1>>}
    [] op = "Read" -> {<<2, 0>>, <<0, 4000>>}
    [] op = "Write" -> {<<3, 3, 7, 7>>}
    [] op = "Open" -> {OpenBody(2, <<0>>), OpenBody(0, <<1>>), OpenBody(0, <<4>>),
                       <<1, 2, 3, 4>> \o Change \o <<0, 4000>>}
    [] op \in {"Create", "Remove", "Link", "Rename"} -> {<<2, 0, 4, 0, 5>>}
    [] op = "ReadDir" -> {<<8, 8>> \o Entry(1, 255) \o <<0, 1>>, <<8, 8, 1, 0, 1, 4000>>,
                          <<8, 8, 2>>, <<8, 8, 0, 2>>}
    [] op = "ExchangeId" -> {<<0, 6, 1, 0, 1, 0, 0>>, <<0, 6, 1, 0, 3, 0, 0>>,
                             <<0, 6, 1, 0, 0, 0, 1, 0, 0, 4000>>}
    [] op = "CreateSession" ->
         {<<9, 9, 9, 9, dec.sequenceid + 1, 0>> \o ChannelWords(900, 900, 8, 4),
          <<9, 9, 9, 9, dec.sequenceid, 0>> \o ChannelWords(900, 900, 0, 4),
          <<9, 9, 9, 9, dec.sequenceid, 0>> \o ChannelWords(dec.limit - 1, 900, 8, 4),
          <<9, 9, 9, 9, dec.sequenceid, 0>> \o ChannelWords(900, 79, 8, 4),
          <<9, 9, 9, 9, dec.sequenceid, 0, 0, 900, 900, 0, 8, 4, 4000>>}
    [] OTHER -> {}

Item(op, body) == <<Code[op], OK>> \o body
Message(status, items) == <<status, 5, 99, 99, Len(items)>> \o FlattenSeq(items)
==============================================================================
