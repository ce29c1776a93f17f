---------------------------- MODULE MCErrorMapper ----------------------------
(* Every kind of error bare and in a fmt.Errorf, what a transport's failure  *)
(* is in a url.Error, and cancellations a client reports in its own error.  *)
EXTENDS ErrorMapper

Bare == {<<n>> : n \in Node \ {"wrap", "url.Error"}}

Transport ==
  {<<"url.Error", n>> : n \in DNSErrors \cup {"timeout", "refused", "context.Canceled"}}

MCErrors ==
  Bare \cup Transport \cup {<<"wrap">> \o e : e \in Bare \cup Transport}
  \cup {<<"grpc.Canceled", "context.Canceled">>, <<"url.Error", "nxdomain", "timeout">>,
        <<"url.Error", "wrap", "nxdomain">>}

MCChains == {<<>>, DefaultMappers, DefaultMappers \o <<"grpc">>, <<"grpc">> \o DefaultMappers}
=============================================================================
