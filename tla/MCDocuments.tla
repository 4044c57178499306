----------------------------- MODULE MCDocuments -----------------------------
(***************************************************************************)
(* Documents for TLC: the grants and heads of the instance.                *)
(***************************************************************************)
EXTENDS DocumentReader

MCHeads == {<<<<"o">>, <<"d">>>>, <<<<>>, <<"d">>>>, <<<<"o", "o", "o">>, <<"d">>>>,
            <<<<"o">>, <<"d", "d", "d", "d", "d", "d", "d", "d">>>>}

MCErrorNames == <<{"Error", "A"}, {"Code", "A"}, {"A"}>>

MCProgramGrants ==
  {Grant("AmazonCustomerByEmail", e, <<>>, "READ") : e \in {<<"e">>, <<"e", "e", "e">>}}
  \cup {Grant("CanonicalUser", <<"i">>, n, "WRITE") : n \in {<<>>, <<"n">>, <<"n", "n">>}}
  \cup {Grant(g, <<>>, <<>>, "FULL_CONTROL") : g \in {"AllAwsUsers", "AllUsers", "LogDelivery"}}

\* With texts of the length of the buffers and longer, and unknown ones.
MCForeignGrants ==
  {Grant("AmazonCustomerByEmail", <<"e", "e", "e", "e">>, <<>>, "READ"),
   Grant("AmazonCustomerByEmail", <<>>, <<>>, "READ"),
   Grant("CanonicalUser", <<"i">>, <<"n">>, "READ_ACP"),
   Grant("CanonicalUser", <<"i", "i", "i", "i", "i">>, <<"n">>, "READ"),
   Grant("AllUsers", <<>>, <<>>, "WRITE_ACP"), Grant("LogDelivery", <<>>, <<>>, "READ"),
   Grant("Others", <<>>, <<>>, "READ"), Grant("AllUsers", <<>>, <<>>, "DELETE")}
=============================================================================
