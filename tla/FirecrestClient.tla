-------------------------- MODULE FirecrestClient --------------------------
(***************************************************************************)
(* The FirecREST API client (internal/remote/firecrest/firecrest_gen.go    *)
(* and firecrest.go) for the operations the remote session controller      *)
(* uses: the request of each, and what its Parse function makes of an      *)
(* answer.  An answer is its status code, whether its Content-Type is a    *)
(* JSON one, and whether its body is JSON with the fields the controller   *)
(* reads, JSON without them, something else, or cut short.                 *)
(***************************************************************************)
EXTENDS Naturals

Codes == {200, 201, 204, 404, 503}

Bodies == {"complete", "incomplete", "malformed", "cut"}

Answers == [code: Codes, json: BOOLEAN, body: Bodies]

\* No answer: the request could not be built or sent, or its context is done.
NoAnswer == [code |-> 0, json |-> FALSE, body |-> "cut"]

Request(method, path) == [method |-> method, path |-> path]

NewGetSystemsRequest == Request("GET", <<"status", "systems">>)
NewGetUserinfoRequest == Request("GET", <<"status", "system_name", "userinfo">>)
NewPostMkdirRequest == Request("POST", <<"filesystem", "system_name", "ops", "mkdir">>)
NewPutChmodRequest == Request("PUT", <<"filesystem", "system_name", "ops", "chmod">>)
NewPostUploadRequest == Request("POST", <<"filesystem", "system_name", "ops", "upload">>)
NewPostJobSubmitRequest == Request("POST", <<"compute", "system_name", "jobs">>)
NewGetJobMetadataRequest == Request("GET", <<"compute", "system_name", "jobs", "job_id", "metadata">>)
NewGetJobRequest == Request("GET", <<"compute", "system_name", "jobs", "job_id">>)
NewDeleteJobRequest == Request("DELETE", <<"compute", "system_name", "jobs", "job_id">>)

\* The service: the request it answers with each code when all is well.
SuccessCode(request) ==
    CASE request \in {Request("POST", <<"compute", "system_name", "jobs">>),
                      Request("POST", <<"filesystem", "system_name", "ops", "mkdir">>)} -> 201
      [] request \in {Request("POST", <<"filesystem", "system_name", "ops", "upload">>),
                      Request("DELETE", <<"compute", "system_name", "jobs", "job_id">>)} -> 204
      [] request.method \in {"GET", "PUT"} -> 200

Success(request) ==
    [code |-> SuccessCode(request), json |-> SuccessCode(request) # 204, body |-> "complete"]

\* What else may arrive: any answer, but no success of a request that was not
\* performed.  The page of a gateway is one with code 200 that is not JSON.
Failures(request) ==
    {[done |-> done, answer |-> a] : done \in BOOLEAN, a \in Answers \cup {NoAnswer}} \
    {[done |-> FALSE, answer |-> a] :
        a \in {b \in Answers : b.code = SuccessCode(request) /\ (b.json \/ b.code = 204)}}

-----------------------------------------------------------------------------
(***************************************************************************)
(* The Parse functions.  "error" is an error, "nil" a response without the *)
(* JSON2xx field; an error body that is not JSON is an error too, but only *)
(* if it says that it is.                                                  *)
(***************************************************************************)
IsError(code) == code \div 100 \in {4, 5}

ParseJSON(a, code) ==
    CASE a.body = "cut" -> "error"
      [] a.json /\ (a.code = code \/ IsError(a.code)) /\ a.body = "malformed" -> "error"
      [] a.json /\ a.code = code /\ a.body \in {"complete", "incomplete"} -> a.body
      [] OTHER -> "nil"

ParseNoContent(a) ==
    IF a.body = "cut" \/ (a.json /\ IsError(a.code) /\ a.body = "malformed") THEN "error" ELSE "nil"

ParseGetSystemsResponse(a) == ParseJSON(a, 200)
ParseGetUserinfoResponse(a) == ParseJSON(a, 200)
ParsePostMkdirResponse(a) == ParseJSON(a, 201)
ParsePutChmodResponse(a) == ParseJSON(a, 200)
ParsePostUploadResponse(a) == ParseNoContent(a)
ParsePostJobSubmitResponse(a) == ParseJSON(a, 201)
ParseGetJobMetadataResponse(a) == ParseJSON(a, 200)
ParseGetJobResponse(a) == ParseJSON(a, 200)
=============================================================================
