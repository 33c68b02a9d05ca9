------------------------------ MODULE MCWireCodec ------------------------------
(* Every type of message with and without its optional fields.  Integers are *)
(* scaled to LEB128 bytes of 3 bits and words of 8: 7 | 8 and 63 | 64 are     *)
(* where a number takes another byte, 3 | 4 and -4 | -5 where its sign does.  *)
EXTENDS WireCodec

MCTexts == {"", "id", "token", "1.5", "linux", "c", "select", "INTEGER", "VARCHAR",
            "a", "b", "main", "t", "failed"}
MCChunks == {"k1", "k2"}

Headed(h, bodies) == {h @@ b : b \in bodies}

Header(id, query) == [connection_id |-> id, client_query_id |-> query]
Usual == Header("id", 1)
Headers == {Header(c, q) : c \in {None, "", "id"}, q \in {None, 0, 7, 8, 255}}

SomeWords == {0, 7, 8, 63, 64, 254}
Huge(u, l) == [upper |-> u, lower |-> l]
Uuids == {Huge(u, l) : u \in {-128, -5, -4, -1, 0, 3, 4, 31, 32, 127}, l \in {0, 255}}
ChunkLists == {<<>>, <<"k1">>, <<"k1", "k2">>}

Bodies ==
    [type : {"CONNECTION_REQUEST"}, auth_string : {None, "", "token"},
        client_duckdb_version : {None, "1.5"}, client_platform : {None, "linux"},
        min_supported_quack_version : {0, 1}, max_supported_quack_version : {0, 3},
        client_id : {None, "", "c"}, heartbeat_timeout_seconds : {0, 60}]
    \cup [type : {"CONNECTION_RESPONSE"}, server_duckdb_version : {None, "1.5"},
        server_platform : {None, "linux"}, quack_version : {None, 1, 3},
        heartbeat_timeout_seconds : {None, 0, 60}]
    \cup [type : {"PREPARE_REQUEST"}, sql : {"", "select"},
        query_uuid : {None, Huge(-1, 8)}, inline_rows : {None} \cup SomeWords]
    \cup [type : {"PREPARE_RESPONSE"}, result_types : {<<>>, <<"INTEGER", "VARCHAR">>},
        result_names : {<<>>, <<"a", "b">>}, needs_more_fetch : BOOLEAN,
        results : ChunkLists, result_uuid : {Huge(4, 0)}]
    \cup [type : {"FETCH_REQUEST"}, result_uuid : {Huge(3, 7)},
        batch_index : {None, 255} \cup (SomeWords \ {0}), ack_index : {None} \cup SomeWords]
    \cup [type : {"FETCH_REQUEST"}, result_uuid : Uuids, batch_index : {1},
        ack_index : {0}]
    \cup [type : {"FETCH_RESPONSE"}, results : ChunkLists,
        total_batches : {None, 0, 8}, batch_index : {None, 255} \cup SomeWords]
    \cup [type : {"APPEND_REQUEST"}, schema_name : {None, "", "main"},
        table_name : {"", "t"}, append_chunk : {"k1"}]
    \cup [type : {"SUCCESS_RESPONSE", "DISCONNECT", "HEARTBEAT_REQUEST"}]
    \cup [type : {"ERROR_RESPONSE"}, message : {"", "failed"}]

MCMessages ==
    Headed(Usual, Bodies)
        \cup UNION {Headed(h, {[type |-> "HEARTBEAT_REQUEST"], [type |-> "DISCONNECT"]}) :
                        h \in Headers}
===============================================================================
