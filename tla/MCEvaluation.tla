----------------------------- MODULE MCEvaluation -----------------------------
(* Instances of Evaluation: images of 8x4 and 4x4 pixels, tiles of 4x4, two  *)
(* coordinate units per pixel.                                               *)
EXTENDS Evaluation

Ann(id, cls, x1, y1, x2, y2) == [id |-> id, cls |-> cls, box |-> Box(x1, y1, x2, y2)]
Img(id, size, anns) == [id |-> id, size |-> size, disk |-> size, present |-> TRUE, anns |-> anns]

\* A wide image with a small object, one across two tiles and one in the corner.
Wide == Img(1, <<8, 4>>, <<Ann(1, 0, 0, 0, 4, 4), Ann(2, 1, 6, 2, 12, 8), Ann(3, 0, 14, 6, 16, 8)>>)
Square == Img(2, <<4, 4>>, <<Ann(4, 0, 2, 2, 8, 8)>>)
Nothing == Img(3, <<8, 4>>, <<>>)
Gone == [Square EXCEPT !.present = FALSE, !.id = 4]
Resized == [Square EXCEPT !.disk = <<8, 8>>]

MCRawDatasets ==
  { [train |-> <<Wide, Nothing, Square>>, val |-> <<Wide, Square>>, test |-> <<Square>>],
    [train |-> <<Nothing, Gone, Wide>>, test |-> <<Resized, Gone>>] }

Tiled(name, mode, size) == [name |-> name, mode |-> mode, size |-> size, crop |-> "true"]
Plain(name, mode, size) == [name |-> name, mode |-> mode, size |-> size, crop |-> "false"]
Full == [name |-> "full", mode |-> "source_full_image", size |-> <<>>, crop |-> "absent"]
Config == [scales |-> <<Tiled("orig", "keep_original", <<>>), Plain("small", "resize", <<4, 4>>)>>,
           keep_background |-> TRUE, canvas |-> <<4, 4>>]
MCConfigs ==
  { Config,
    [Config EXCEPT !.scales = <<Tiled("big", "resize", <<16, 8>>), Tiled("narrow", "resize", <<4, 4>>)>>,
                   !.keep_background = FALSE],
    [Config EXCEPT !.scales = <<Plain("orig", "keep_original", <<>>)>>],
    [Config EXCEPT !.canvas = <<8, 4>>],
    [Config EXCEPT !.scales = <<>>] }

Det(cls, conf, x1, y1, x2, y2) == [cls |-> cls, conf |-> conf, box |-> Box(x1, y1, x2, y2)]
MCAnswers ==
  { <<>>, <<Det(0, 8, 0, 2, 4, 8)>>, <<Det(0, 8, 2, 2, 8, 8)>>,
    <<Det(0, 6, 2, 2, 8, 8), Det(1, 4, 4, 4, 8, 8)>>,
    <<Det(0, 7, 0, 6, 4, 8)>> }
MCDecay(conf, overlap) == conf \div 2

Job == [backend |-> "pytorch", given |-> TRUE, trouble |-> "none", split |-> "test",
        scales |-> <<Tiled("orig", "keep_original", <<>>), Full>>, full_image_first |-> TRUE,
        method |-> "class_aware_nms", score |-> 3, most |-> 3, fusion |-> "union", batch |-> 2, engine |-> 0,
        table |-> <<>>, optional |-> {"confusion", "false_examples"}]
Table == [k \in {<<1, "orig", <<0, 0>>>>, <<1, "any", <<2, 0>>>>, <<2, "orig", <<0, 0>>>>} |->
            IF k[1] = 1 THEN <<Det(0, 8, 0, 0, 4, 4)>> ELSE <<Det(0, 2, 0, 0, 4, 4)>>]
MCJobs ==
  { [Job EXCEPT !.split = "val"],
    [Job EXCEPT !.split = "val", !.scales = <<Plain("small", "resize", <<4, 4>>), Full>>,
                !.method = "wbf", !.fusion = "weighted", !.full_image_first = FALSE, !.batch = 1],
    [Job EXCEPT !.method = "soft_nms", !.fusion = "off",
                !.scales = <<Plain("small", "resize", <<4, 4>>), Full>>],
    [Job EXCEPT !.backend = "trt", !.engine = 2, !.scales = <<Tiled("big", "resize", <<8, 4>>)>>],
    [Job EXCEPT !.backend = "trt", !.engine = 1, !.scales = <<Tiled("big", "resize", <<8, 4>>)>>],
    [Job EXCEPT !.backend = "trt", !.engine = 3, !.scales = <<Tiled("big", "resize", <<8, 4>>)>>],
    [Job EXCEPT !.backend = "mock", !.split = "val"],
    [Job EXCEPT !.scales = <<Plain("bad", "resize", <<8, 4>>)>>],
    [Job EXCEPT !.given = FALSE],
    [Job EXCEPT !.trouble = "file"],
    [Job EXCEPT !.backend = "onnx", !.trouble = "contents"],
    [Job EXCEPT !.backend = "mock", !.trouble = "contents"],
    [Job EXCEPT !.scales = <<>>] }
Third == <<1, 3>>
Half == <<1, 2>>
Fifth == <<1, 5>>
Three == <<3, 1>>
=============================================================================
